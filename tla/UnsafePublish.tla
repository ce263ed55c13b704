---------------------------- MODULE UnsafePublish ---------------------------
(***************************************************************************)
(* "arena", Layer1/31-unsafe_publish.c: the writer fills the slots of an   *)
(* arena in a ring, Point after Point, publishing a pointer to each; the   *)
(* reader takes the published pointer, loads x and y, and reports a        *)
(* reordering when x + 1 # y.                                              *)
(***************************************************************************)
EXTENDS Machine

CONSTANTS ArenaSize,    \* ARENA_SIZE, 1000000 in 31
          MaxSeed       \* bound on seed: the writer stops after so many Points

ASSUME ArenaAssumption == ArenaSize \in Nat \ {0} /\ MaxSeed \in Nat

ArenaWriter == 1
ArenaReader == 2
ArenaSlot   == 1..ArenaSize    \* the pointers into the arena

arenaPos == <<"current_pos">>
ax(s) == <<"x", s>>
ay(s) == <<"y", s>>

ArenaInit ==
  Boot("arena", {"TSO"},
       [l \in {arenaPos} \cup {ax(s) : s \in ArenaSlot} \cup {ay(s) : s \in ArenaSlot} |-> 0],
       [t \in {ArenaWriter, ArenaReader} |-> IF t = ArenaWriter THEN "w_x" ELSE "r_wait"],
       [t \in {ArenaWriter, ArenaReader} |-> [idx |-> 1, seed |-> 1, p |-> NULL, x |-> 0, y |-> 0]],
       << >>)

-----------------------------------------------------------------------------
(* Faulty variant: the remainder is forgotten.                             *)
FollowingUnbounded(s) == s + 1

(* (idx + 1) % ARENA_SIZE                                                  *)
Following(s) == IF s = ArenaSize THEN 1 ELSE s + 1

(* Faulty variant: publishes the slot it is going to fill next.            *)
ArenaPublishNext(w) == Write(ArenaWriter, "w_pub", arenaPos, Following(w.idx), "w_x")

ArenaPublish(w) == Write(ArenaWriter, "w_pub", arenaPos, w.idx, "w_x")

(* writer                                                                  *)
ArenaWrite ==
  LET w == reg[ArenaWriter]
  IN  \/ /\ w.seed <= MaxSeed
         /\ Write(ArenaWriter, "w_x", ax(w.idx), w.seed, "w_y")
         /\ Keep
      \/ Write(ArenaWriter, "w_y", ay(w.idx), w.seed + 1, "w_pub") /\ Keep
      \/ /\ ArenaPublish(w)
         /\ reg' = [reg EXCEPT ![ArenaWriter].idx = Following(w.idx),
                               ![ArenaWriter].seed = w.seed + 1]
         /\ UNCHANGED env

(* reader                                                                  *)
ArenaRead ==
  LET r == reg[ArenaReader]
  IN  \/ Await(ArenaReader, "r_wait", Load(ArenaReader, arenaPos) # NULL, "r_load") /\ Keep
      \/ /\ Read(ArenaReader, "r_load", "p", arenaPos,
                 IF Load(ArenaReader, arenaPos) = NULL THEN "r_load" ELSE "r_x")
         /\ UNCHANGED env
      \/ Read(ArenaReader, "r_x", "x", ax(r.p), "r_y") /\ UNCHANGED env
      \/ Read(ArenaReader, "r_y", "y", ay(r.p), "r_check") /\ UNCHANGED env
      \/ Local(ArenaReader, "r_check", IF r.x + 1 # r.y THEN "exit" ELSE "r_load") /\ Keep

ArenaStep(t) == CASE t = ArenaWriter -> ArenaWrite [] t = ArenaReader -> ArenaRead

-----------------------------------------------------------------------------
(* When stores reach memory in order a torn pair is never a Point half     *)
(* built: its halves are at least a lap apart, so the writer has come      *)
(* round the arena while the reader held the slot.  y is older than x by   *)
(* exactly one lap, when the writer is between the two stores, or younger. *)
TornOnlyByLapping ==
  program = "arena" /\ pc[ArenaReader] \in {"r_check", "exit"} =>
    LET r == reg[ArenaReader]
    IN  \/ r.y = r.x + 1
        \/ r.y + ArenaSize = r.x + 1
        \/ r.y >= r.x + 1 + ArenaSize
=============================================================================
