--------------------------- MODULE MCRegistryPush ---------------------------
(***************************************************************************)
(* Instances of RegistryPush, and what it owes under fairness.             *)
(***************************************************************************)
EXTENDS RegistryPush

\* Two platforms that share a data layer and differ in their configuration.
TwoPlatforms == << <<"config1", "layer">>, <<"config2", "layer">> >>

\* Two layers and a configuration on one platform.
OnePlatform == << <<"config1", "layer1", "layer2">> >>

\* "An interrupted backup resumes": after finitely many failures and crashes a push run
\* again with the same parameters succeeds, if the registry keeps what it acknowledged.
ResumeCompletes == <>(main = "ok" \/ dropped)

\* The same of any registry, as the comments of Push and CheckpointStore have it:
\* blobs "already present" are the ones that are skipped.
ResumeAlwaysCompletes == <>(main = "ok")
=============================================================================
