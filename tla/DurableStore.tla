---------------------------- MODULE DurableStore ----------------------------
(***************************************************************************)
(* What a storage engine of this repository promises to its clients, with  *)
(* everything about files, logs, indexes and locks left out. Streams are   *)
(* accepted, the disk changes, and at some point the engine has done all   *)
(* it does to make a stream permanent: from then on the stream is          *)
(* promised, and the disk may never again be without it.                   *)
(*                                                                         *)
(* The one excuse is damage, a write that failed in a way the engine does  *)
(* not notice; each engine says in its refinement mapping which of its     *)
(* histories count as damage. BlockStore, BlockMap and RecordLog implement *)
(* this specification.                                                     *)
(***************************************************************************)
CONSTANT Streams

VARIABLES
    accepted,   \* the streams clients have handed to the engine
    stored,     \* the streams the next process would find on disk
    promised,   \* the streams the engine has made permanent
    damaged     \* the disk may have lost streams unnoticed

vars == <<accepted, stored, promised, damaged>>

Init ==
    /\ accepted = {}
    /\ stored = {}
    /\ promised = {}
    /\ damaged = FALSE

\* A client hands over streams. Nothing else changes in this step.
Accept ==
    /\ accepted \subseteq accepted'
    /\ accepted' \subseteq Streams
    /\ UNCHANGED <<stored, promised>>

\* The disk changes, by a log write, a compaction, a rotation, a removed file.
\* Streams not yet promised may go; no stream appears that nobody has sent.
Store ==
    /\ stored' \subseteq accepted
    /\ damaged' \/ promised \subseteq stored'
    /\ UNCHANGED <<accepted, promised>>

\* Streams become permanent: they are on disk when, or before, they do.
Promise ==
    /\ promised \subseteq promised'
    /\ stored \subseteq stored'
    /\ promised' \ promised \subseteq stored'
    /\ stored' \subseteq accepted
    /\ UNCHANGED accepted

Next == (Accept \/ Store \/ Promise) /\ (damaged => damaged')

Spec == Init /\ [][Next]_vars
=============================================================================
