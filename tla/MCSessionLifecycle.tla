-------------------------- MODULE MCSessionLifecycle --------------------------
(***************************************************************************)
(* Instances of SessionLifecycle for TLC, and of the file it saves to: a   *)
(* file with room for two keys, which the user may have filled, and values *)
(* at, below and above the length that is kept.                            *)
(***************************************************************************)
EXTENDS SessionLifecycle, ConfigFile

NoFaults     == {}
CrashesOnly  == {"crash"}
AllFaults    == FaultKinds
TwoSettings  == {"default", "changed"}

OldAndNew == {"old", "new"}

-----------------------------------------------------------------------------
SomeKeys == {"refresh_jwt", "frontlight_brightness", "a user's"}

UpTo(n, S) == UNION {[1..m -> S] : m \in 0..n}

Saying(text, lengths) ==
    {Entry(k, [text |-> text, length |-> n]) : k \in Keys, n \in lengths}
SomeFiles  == UpTo(3, Saying("old", {2047, 3000}) \cup {Noise})
SomeWrites == UpTo(2, Saying("new", {0, 3000}))

ASSUME OthersAreKept == RewriteKeepsOthers(SomeFiles, SomeWrites)
ASSUME RewritesSettle == RewriteSettles(SomeFiles)
ASSUME OldKeysAreKept == FullKeepsOld(SomeFiles, SomeWrites)
ASSUME LinesFit == LineFits(SomeFiles)
=============================================================================
