----------------------------- MODULE MCPlacement -----------------------------
(* A mac and a linux control plane and a linux machine reached over ssh.    *)
EXTENDS Placement

CONSTANTS d1, l1, r, box, app, acp, j1, j2

I(s, h, n, os, arch, home) ==
  [service |-> s, host |-> h, name |-> n, os |-> os, arch |-> arch,
   meta |-> <<None, None>>, home |-> home]
OnR == I(app, r, None, "linux", "amd64", FALSE)
OnL1 == [I(app, l1, box, None, None, TRUE) EXCEPT !.meta = <<"linux", None>>]
BoxMoved == I(app, r, box, None, None, TRUE)
Misread == I(acp, r, None, "mac", "arm64", FALSE)

MCInstances == {OnR, OnL1, BoxMoved, Misread}
MCFixed == {OnR}
MCPlatOf == [h \in Host |-> IF h = d1 THEN <<"darwin", "arm64">> ELSE <<"linux", "amd64">>]
MCChannel == [p \in Plane |->
  [m \in {Local, r} |-> [remote |-> m = r, host |-> IF m = r THEN r ELSE p]]]
MCDefault == [p \in Plane |-> None]
MCAnnounced == [p \in Plane |-> IF p = d1 THEN Loopback ELSE p]
MCBefore == {[t \in Tag |-> IF t = Plain THEN PlatOf[d1] ELSE None]}
MCServiceOf == [j \in Job |-> app]
MCLayouts == {{"default"}, {"default", "linux"}}
=============================================================================
