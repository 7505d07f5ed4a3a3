-------------------------- MODULE MCNodeExecution --------------------------
(* Instances of NodeExecution for TLC. *)
EXTENDS NodeExecution, TLC

CONSTANTS Src, A, B, Original, V1, V2

FileA == <<Src, A>>
FileB == <<Src, B>>

\* Two nodes patch one file each and read the other's; the third one reports, and
\* has the directory of both among its write paths.
N == {1, 2, 3}
PatchersN == {1, 2}
Files == {FileA, FileB}
Contents == {Absent, Original, V1, V2, Scribble}
Repository == (FileA :> Original) @@ (FileB :> Absent)
OwnFiles == <<{FileA}, {FileB}, {<<Src>>}>>
OthersFiles == <<{FileB}, {FileA}, {}>>
Versions == <<{V1}, {V2}, {}>>
NoLitter == <<{}, {}, {}>>

\* Two patching nodes; the checks of the first one leave a file behind.
Pair == {1, 2}
OwnFilesOfPair == <<{FileA}, {FileB}>>
OthersFilesOfPair == <<{}, {FileA}>>
VersionsOfPair == <<{V1, Absent}, {V2}>>
LitterOfFirst == <<{FileB}, {}>>

NoReads == <<{}, {}>>
NoLitterOfPair == <<{}, {}>>
FirstFile == {FileA}

\* One patching node beside one that reports, whose checks leave a file behind.
OnlyFirst == {1}
DirectoryOfFirst == <<{<<Src>>}, {}>>
LitterOfSecond == <<{}, {FileB}>>
=============================================================================
