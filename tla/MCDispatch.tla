---------------------------- MODULE MCDispatch ------------------------------
(* Model-checking instances of Dispatch.                                    *)
EXTENDS Dispatch, TLC
CONSTANTS p1, p2, s1, s2, s3, b1, d1

OneProvider == {p1}
TwoProviders == {p1, p2}
TwoStreams == {s1, s2}
ThreeStreams == {s1, s2, s3}
OneBuild == {b1}
OneDocker == {d1}
BothTypes == {"ios_build", "docker"}
Ends == {"succeeded", "failed"}
Succeeds == {"succeeded"}

\* All streams belong to p1: one takes builds, the others only containers.
AllOfP1 == [s \in ThreeStreams |-> p1]
OnlyFirstBuilds == [s \in ThreeStreams |-> IF s = s1 THEN BothTypes ELSE {"docker"}]
OnlyFirstContainers == [s \in ThreeStreams |-> IF s = s1 THEN BothTypes ELSE {"ios_build"}]

\* One stream each, and a second one for p1.
Shared == [s \in ThreeStreams |-> IF s = s2 THEN p2 ELSE p1]
OneEach == [s \in TwoStreams |-> IF s = s2 THEN p2 ELSE p1]
Everything == [s \in ThreeStreams |-> BothTypes]
EverythingTwo == [s \in TwoStreams |-> BothTypes]

BuildType == [w \in OneBuild |-> "ios_build"]
DockerType == [w \in OneDocker |-> "docker"]
=============================================================================
