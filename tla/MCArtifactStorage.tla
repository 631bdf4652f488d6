-------------------------- MODULE MCArtifactStorage --------------------------
(* VERSION is copied before the directories.                                *)
EXTENDS ArtifactStorage
CONSTANTS d1, d2, t1
MCPartOrder == <<"VERSION", "scripts", "web">>
AllBackends == {"local", "github_release", "aliyun"}
LocalOnly == {"local"}
=============================================================================
