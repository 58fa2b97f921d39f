------------------------------ MODULE MCRebuild ------------------------------
(***************************************************************************)
(* Instances of Rebuild for TLC: a is compiled to i, and i is linked with  *)
(* b to t; a build is asked for i alone, or for t.                         *)
(***************************************************************************)
EXTENDS Rebuild

MCSource == {"a", "b"}
MCTarget == {"i", "t"}
MCDeps == [i |-> <<"a">>, t |-> <<"i", "b">>]
MCRequests == {<<"a", "i">>, <<"a", "i", "b", "t">>}

\* Cached signatures are not trusted, and builds meet two kinds of trouble; or they
\* are, and nothing but edits disturbs a build.
SoundSettings ==
  [decider : {"content", "timestamp-match", "MD5-timestamp"}, max_drift : {"negative"},
   faults : {{"edits", "failures"}, {"edits", "crashes"}, {"edits", "command"}}]
  \cup [decider : {"content"}, max_drift : {"negative"}, faults : {{"failures", "crashes"}}]
  \cup [decider : {"content", "MD5-timestamp"}, max_drift : {"positive"},
        faults : {{"edits", "command"}}]

\* The settings of the run are those the theorems of RebuildProofs are about.
ASSUME TrustworthySettings == \A s \in SoundSettings : Trustworthy(s)
=============================================================================
