--------------------------- MODULE SPMTWorkerProofs ---------------------------
(***************************************************************************)
(* Proof that the threads sharing a model inside a process keep in step,   *)
(* that the cache of the model is sound and that no update to it is lost,  *)
(* for every number of threads, chunks and epochs and every table.         *)
(*                                                                         *)
(* A step of one thread is seen through Moves: what becomes of the thread's *)
(* place in the code.  What it does to the model matters in the second     *)
(* part only, which replaces the locals of one thread at a time.           *)
(***************************************************************************)
EXTENDS SPMTWorker, FiniteSetTheorems, NaturalsInduction, WellFoundedInduction, TLAPS

Fields == DOMAIN NewLocals("done")

\* Thread t goes to l, the other threads stay where they are.
Moves(t, l) ==
  /\ DOMAIN th' = Threads
  /\ \A u \in Threads : DOMAIN th'[u] = Fields
  /\ \A u \in Threads : th'[u].pc = IF u = t THEN l ELSE th[u].pc

LEMMA Locals ==
  /\ {"pc", "req", "todo", "fetch", "check", "pool", "word", "val"} = Fields
  /\ \A l : DOMAIN NewLocals(l) = Fields /\ NewLocals(l).pc = l
BY DEF NewLocals, Fields

\* Assigning the locals of t, whatever they are, moves t.
LEMMA Assigned ==
  ASSUME TypeOK, NEW t \in Threads, NEW r, DOMAIN r = Fields, th' = [th EXCEPT ![t] = r]
  PROVE  Moves(t, r.pc)
BY DEF TypeOK, Moves, Fields

LEMMA Moved ==
  ASSUME TypeOK, NEW t \in Threads, NEW l, move(t, l)
  PROVE  Moves(t, l)
<1> DEFINE r == [th[t] EXCEPT !.pc = l]
<1>1. DOMAIN th[t] = Fields /\ "pc" \in Fields
  BY Locals DEF TypeOK, Fields
<1>2. DOMAIN r = Fields /\ r.pc = l
  BY <1>1
<1>3. th' = [th EXCEPT ![t] = r]
  BY DEF move
<1>4. /\ DOMAIN th = Threads
      /\ \A u \in Threads : DOMAIN th[u] = Fields
  BY DEF TypeOK, Fields
<1> HIDE DEF r
<1> QED BY <1>2, <1>3, <1>4 DEF Moves

\* Wherever a thread is inside Pull or Push, the model's code leaves it there
\* (ml/model/*.hpp).
LEMMA ModelMoves ==
  ASSUME TypeOK, NEW t \in Threads, ModelStep(t)
  PROVE  \E l : /\ Moves(t, l)
                /\ \/ th[t].pc \in Pulling /\ l \in Pulling
                   \/ th[t].pc \in Pushing /\ l \in Pushing
                /\ l = "add" => kind \in {"MT", "Integral"}
<1> DEFINE Names == {"pc", "req", "todo", "fetch", "check", "pool", "word", "val"}
           Inside(s) == /\ th' = [th EXCEPT ![t] = s] /\ DOMAIN s = Names
                        /\ \/ th[t].pc \in Pulling /\ s.pc \in Pulling
                           \/ th[t].pc \in Pushing /\ s.pc \in Pushing
                        /\ s.pc = "add" => kind \in {"MT", "Integral"}
<1>1. DOMAIN th = Threads /\ DOMAIN th[t] = Names
  BY Locals DEF TypeOK, Fields
<1>2. SUFFICES \E s : Inside(s)
  BY Locals, Assigned
<1>3. ASSUME NEW s, th' = [th EXCEPT ![t] = s], DOMAIN s = Names,
             th[t].pc \in Pulling, s.pc \in Pulling
      PROVE  \E x : Inside(x)
  <2>1. s.pc # "add"
    BY <1>3 DEF Pulling
  <2> QED BY <1>3, <2>1
<1> USE DEF At
<1>4. CASE ChunkPrepare(t)
  <2> DEFINE s == Copy(th[t])
  <2>1. th' = [th EXCEPT ![t] = s] /\ th[t].pc = "prepare"
    BY <1>4 DEF ChunkPrepare
  <2>2. s.pc = "read" /\ DOMAIN s = Names
    BY <1>1 DEF Copy
  <2>3. th[t].pc \in Pulling /\ s.pc \in Pulling
    BY <2>1, <2>2 DEF Pulling, Training
  <2> HIDE DEF s, Inside
  <2> QED BY <1>3, <2>1, <2>2, <2>3
<1>5. CASE Collect(t)
  <2> DEFINE c == Min(th[t].todo)
             s == [th[t] EXCEPT !.todo = @ \ {c},
                    !.fetch = IF ~model.is_cached_[c] /\ model.mtx_[c] = Free
                              THEN @ \union {c} ELSE @,
                    !.check = IF ~model.is_cached_[c] /\ model.mtx_[c] # Free
                              THEN @ \union {c} ELSE @]
  <2>1. th' = [th EXCEPT ![t] = s] /\ th[t].pc = "collect"
    BY <1>1, <1>5 DEF Collect
  <2>2. s.pc = th[t].pc /\ DOMAIN s = Names
    BY <1>1
  <2>3. th[t].pc \in Pulling /\ s.pc \in Pulling
    BY <2>1, <2>2 DEF Pulling, Training
  <2> HIDE DEF s, Inside
  <2> QED BY <1>3, <2>1, <2>2, <2>3
<1>6. CASE FetchChunks(t)
  <2> DEFINE s == [th[t] EXCEPT !.pc = IF th[t].fetch = {} THEN "check" ELSE "mark",
                                !.todo = th[t].fetch]
  <2>1. th' = [th EXCEPT ![t] = s] /\ th[t].pc \in {"fetch", "collect"}
    BY <1>1, <1>6 DEF FetchChunks
  <2>2. s.pc \in {"check", "mark"} /\ DOMAIN s = Names
    BY <1>1
  <2>3. th[t].pc \in Pulling /\ s.pc \in Pulling
    <3> HIDE DEF s
    <3> QED BY <2>1, <2>2 DEF Pulling, Training
  <2> HIDE DEF s, Inside
  <2> QED BY <1>3, <2>1, <2>2, <2>3
<1>7. CASE LoadWord(t)
  <2> DEFINE s == [th[t] EXCEPT !.pc = IF @ = "mark" THEN "cache" ELSE "uncache",
                                !.word = {d \in Word(Min(th[t].todo)) : model.is_cached_[d]}]
  <2>1. th' = [th EXCEPT ![t] = s] /\ th[t].pc \in {"mark", "unmark"}
    BY <1>1, <1>7 DEF LoadWord
  <2>2. s.pc \in {"cache", "uncache"} /\ DOMAIN s = Names
    BY <1>1
  <2>3. th[t].pc \in Pulling /\ s.pc \in Pulling
    <3> HIDE DEF s
    <3> QED BY <2>1, <2>2 DEF Pulling, Training
  <2> HIDE DEF s, Inside
  <2> QED BY <1>3, <2>1, <2>2, <2>3
<1>8. CASE StoreWord(t)
  <2> DEFINE rest == th[t].todo \ {Min(th[t].todo)}
             next == IF At(t, "cache") THEN (IF rest # {} THEN "mark" ELSE "check")
                                       ELSE (IF rest # {} THEN "unmark" ELSE "fetch")
             s == [th[t] EXCEPT !.todo = rest, !.word = {}, !.pc = next]
  <2>1. th' = [th EXCEPT ![t] = s] /\ th[t].pc \in {"cache", "uncache"}
    BY <1>1, <1>8 DEF StoreWord
  <2>2. s.pc \in {"mark", "check", "unmark", "fetch"} /\ DOMAIN s = Names
    BY <1>1
  <2>3. th[t].pc \in Pulling /\ s.pc \in Pulling
    <3> HIDE DEF s
    <3> QED BY <2>1, <2>2 DEF Pulling, Training
  <2> HIDE DEF s, Inside
  <2> QED BY <1>3, <2>1, <2>2, <2>3
<1>9. CASE Recheck(t)
  <2> DEFINE left == {c \in th[t].check : ~model.is_cached_[c]}
             s == IF left = {} THEN Copy(th[t])
                  ELSE [th[t] EXCEPT !.check = left, !.pc = "await"]
  <2>1. th' = [th EXCEPT ![t] = s] /\ th[t].pc = "check"
    BY <1>1, <1>9 DEF Recheck
  <2>2. s.pc \in {"read", "await"} /\ DOMAIN s = Names
    BY <1>1 DEF Copy
  <2>3. th[t].pc \in Pulling /\ s.pc \in Pulling
    <3> HIDE DEF s
    <3> QED BY <2>1, <2>2 DEF Pulling, Training
  <2> HIDE DEF s, Inside
  <2> QED BY <1>3, <2>1, <2>2, <2>3
<1>10. CASE Await(t)
  <2> DEFINE left == th[t].check \ {Min(th[t].check)}
             s == IF left = {} THEN Copy(th[t]) ELSE [th[t] EXCEPT !.check = left]
  <2>1. th' = [th EXCEPT ![t] = s] /\ th[t].pc = "await"
    BY <1>1, <1>10 DEF Await
  <2>2. s.pc \in {"read", "await"} /\ DOMAIN s = Names
    BY <1>1, <2>1 DEF Copy
  <2>3. th[t].pc \in Pulling /\ s.pc \in Pulling
    <3> HIDE DEF s
    <3> QED BY <2>1, <2>2 DEF Pulling, Training
  <2> HIDE DEF s, Inside
  <2> QED BY <1>3, <2>1, <2>2, <2>3
<1>11. CASE LockChunks(t)
  <2> DEFINE need == {c \in th[t].req : ~model.is_cached_[c]}
             full == Overflow(Cardinality(need))
             s == IF need = {} THEN Copy(th[t])
                  ELSE [th[t] EXCEPT !.fetch = need, !.todo = {},
                                     !.pc = IF full THEN "scan" ELSE "fetch"]
  <2>1. th' = [th EXCEPT ![t] = s] /\ th[t].pc = "lock"
    BY <1>1, <1>11 DEF LockChunks
  <2>2. s.pc \in {"read", "scan", "fetch"} /\ DOMAIN s = Names
    BY <1>1 DEF Copy
  <2>3. th[t].pc \in Pulling /\ s.pc \in Pulling
    <3> HIDE DEF s
    <3> QED BY <2>1, <2>2 DEF Pulling, Training
  <2> HIDE DEF s, Inside
  <2> QED BY <1>3, <2>1, <2>2, <2>3
<1>12. CASE Scan(t)
  <2> DEFINE c == Min(th[t].todo)
             pool == IF Unprotected(c) THEN th[t].pool \union {c} ELSE th[t].pool
             stop == kind = "Random" /\ Cardinality(pool) = limits.num_dumps
             s == IF th[t].todo = {} THEN [th[t] EXCEPT !.todo = Chunks]
                  ELSE [th[t] EXCEPT !.pool = pool, !.todo = IF stop THEN {} ELSE @ \ {c}]
  <2>1. th' = [th EXCEPT ![t] = s] /\ th[t].pc = "scan"
    BY <1>1, <1>12 DEF Scan
  <2>2. s.pc = "scan" /\ DOMAIN s = Names
    BY <1>1, <2>1
  <2>3. th[t].pc \in Pulling /\ s.pc \in Pulling
    <3> HIDE DEF s
    <3> QED BY <2>1, <2>2 DEF Pulling, Training
  <2> HIDE DEF s, Inside
  <2> QED BY <1>3, <2>1, <2>2, <2>3
<1>13. CASE Replace(t)
  <2>1. PICK v : th' = [th EXCEPT ![t].pool = v, ![t].pc = IF v = {} THEN "fetch" ELSE "flush"]
    BY <1>13 DEF Replace
  <2> DEFINE s == [th[t] EXCEPT !.pool = v, !.pc = IF v = {} THEN "fetch" ELSE "flush"]
  <2>2. th' = [th EXCEPT ![t] = s] /\ th[t].pc = "scan"
    BY <1>1, <1>13, <2>1 DEF Replace
  <2>3. s.pc \in {"fetch", "flush"} /\ DOMAIN s = Names
    BY <1>1
  <2>4. th[t].pc \in Pulling /\ s.pc \in Pulling
    <3> HIDE DEF s
    <3> QED BY <2>2, <2>3 DEF Pulling, Training
  <2> HIDE DEF s, Inside
  <2> QED BY <1>3, <2>2, <2>3, <2>4
<1>14. CASE FlushToDisk(t)
  <2> DEFINE s == [th[t] EXCEPT !.pc = "unmark", !.todo = th[t].pool]
  <2>1. th' = [th EXCEPT ![t] = s] /\ th[t].pc = "flush"
    BY <1>1, <1>14 DEF FlushToDisk
  <2>2. s.pc = "unmark" /\ DOMAIN s = Names
    BY <1>1
  <2>3. th[t].pc \in Pulling /\ s.pc \in Pulling
    <3> HIDE DEF s
    <3> QED BY <2>1, <2>2 DEF Pulling, Training
  <2> HIDE DEF s, Inside
  <2> QED BY <1>3, <2>1, <2>2, <2>3
<1>15. CASE CopyChunk(t)
  <2> DEFINE s == [th[t] EXCEPT !.todo = @ \ {Min(@)}]
  <2>1. th' = [th EXCEPT ![t] = s] /\ th[t].pc = "read"
    BY <1>1, <1>15 DEF CopyChunk
  <2>2. s.pc = "read" /\ DOMAIN s = Names
    BY <1>1, <2>1
  <2>3. th[t].pc \in Pulling /\ s.pc \in Pulling
    <3> HIDE DEF s
    <3> QED BY <2>1, <2>2 DEF Pulling, Training
  <2> HIDE DEF s, Inside
  <2> QED BY <1>3, <2>1, <2>2, <2>3
<1>16. CASE AddChunk(t)
  <2> DEFINE s == [th[t] EXCEPT !.todo = @ \ {Min(th[t].todo)}]
  <2>1. th' = [th EXCEPT ![t] = s] /\ th[t].pc = "write"
    BY <1>1, <1>16 DEF AddChunk
  <2>2. s.pc = "write" /\ DOMAIN s = Names
    BY <1>1, <2>1
  <2> HIDE DEF s
  <2> QED BY <2>1, <2>2 DEF Pushing
<1>17. CASE RacyLoad(t)
  <2> DEFINE s == [th[t] EXCEPT !.pc = "add", !.val = model.params_[Min(th[t].todo)]]
  <2>1. th' = [th EXCEPT ![t] = s] /\ th[t].pc = "write" /\ kind \in {"MT", "Integral"}
    BY <1>1, <1>17 DEF RacyLoad
  <2>2. s.pc = "add" /\ DOMAIN s = Names
    BY <1>1
  <2> HIDE DEF s
  <2> QED BY <2>1, <2>2 DEF Pushing
<1>18. CASE RacyStore(t)
  <2> DEFINE s == [th[t] EXCEPT !.pc = "write", !.todo = @ \ {Min(th[t].todo)}, !.val = 0]
  <2>1. th' = [th EXCEPT ![t] = s] /\ th[t].pc = "add"
    BY <1>1, <1>18 DEF RacyStore
  <2>2. s.pc = "write" /\ DOMAIN s = Names
    BY <1>1
  <2> HIDE DEF s
  <2> QED BY <2>1, <2>2 DEF Pushing
<1> HIDE DEF Inside
<1> QED
  BY <1>4, <1>5, <1>6, <1>7, <1>8, <1>9, <1>10, <1>11, <1>12, <1>13, <1>14, <1>15, <1>16,
     <1>17, <1>18 DEF ModelStep, PrepareStep

------------------------------------------------------------------------------
(* Constants and places.                                                   *)

LEMMA Modes ==
  ASSUME TypeOK
  PROVE  /\ Workers \subseteq Threads /\ Leader \in Workers /\ IsFiniteSet(Threads)
         /\ table.iters \in Nat /\ table.iters <= MaxIter /\ MaxIter \in Nat
         /\ table.mode_type = "Single" => Workers = {Leader}
         /\ table.mode_type # "Single" => Workers = Threads
         /\ protocol \in {"BSP", "SSP"} => Workers = Threads /\ table.mode_type = "SPMT"
         /\ table.mode_type = "SPMT" => kind \notin {"MT", "Integral"}
<1>1. /\ table.mode_type \in {"Single", "Hogwild", "SPMT"}
      /\ table.cache_strategy \in Caching \union {"None"}
      /\ table.iters \in 1 .. MaxIter
  BY WorkersAssumption DEF TypeOK
<1>2. 0 \in Threads /\ IsFiniteSet(Threads) /\ MaxIter \in Nat
  BY ThreadsAssumption
<1>3. Workers \subseteq Threads /\ Leader \in Workers
      /\ (table.mode_type = "Single" => Workers = {Leader})
      /\ (table.mode_type # "Single" => Workers = Threads)
  BY <1>2 DEF Workers, Leader
<1>4. protocol \in {"BSP", "SSP"} => table.mode_type = "SPMT"
  BY DEF protocol
<1>5. table.mode_type = "SPMT" => kind \notin {"MT", "Integral"}
  <2> SUFFICES ASSUME table.mode_type = "SPMT" PROVE kind \notin {"MT", "Integral"}
    OBVIOUS
  <2>1. kind = ModelOf(table)
    BY DEF TypeOK
  <2>2. CASE table.cache_strategy = "None" \/ ~table.chunk
    BY <2>1, <2>2 DEF ModelOf
  <2>3. CASE ~(table.cache_strategy = "None" \/ ~table.chunk)
    <3>1. kind = table.cache_strategy
      BY <2>1, <2>3 DEF ModelOf
    <3> QED BY <1>1, <2>3, <3>1 DEF Caching
  <2> QED BY <2>2, <2>3
<1>6. table.iters \in Nat /\ table.iters <= MaxIter
  BY <1>1, <1>2
<1> QED BY <1>2, <1>3, <1>4, <1>5, <1>6

LEMMA Rounds ==
  /\ Round("construct") = 0 /\ Round("sync") = 0
  /\ Round("load") = 1 /\ Round("loaded") = 1
  /\ \A l \in Looping : Round(l) = 2
  /\ Round("dump") = 3 /\ Round("dumped") = 3 /\ Round("leave") = 4
  /\ Round("delete") = 5 /\ Round("done") = 5
  /\ \A l \in Labels : Round(l) = 2 => l \in Looping
  /\ \A l \in Labels : Round(l) \in {0, 1} => l \in {"construct", "sync", "load", "loaded"}
<1> USE DEF Round
<1>3. \A l \in Looping : l \notin {"construct", "sync", "load", "loaded", "dump", "dumped",
                                  "leave", "delete", "done"}
  BY DEF Looping, Training
<1>1. Round("construct") = 0 /\ Round("sync") = 0
  BY <1>3
<1>2. Round("load") = 1 /\ Round("loaded") = 1
  BY <1>3
<1>4. \A l \in Looping : Round(l) = 2
  BY <1>3
<1>5. "dump" \notin Looping /\ "dumped" \notin Looping /\ "leave" \notin Looping
      /\ "delete" \notin Looping /\ "done" \notin Looping
  BY <1>3
<1>6. Round("dump") = 3 /\ Round("dumped") = 3
  BY <1>5
<1>7. Round("leave") = 4
  BY <1>5
<1>8. Round("delete") = 5 /\ Round("done") = 5
  BY <1>5
<1> HIDE DEF Round
<1>9. \A l \in Labels : l \in Looping \/ l \in {"construct", "sync", "load", "loaded", "dump",
                                               "dumped", "leave", "delete", "done"}
  BY DEF Labels
<1>10. \A l \in Labels : Round(l) = 2 => l \in Looping
  BY <1>1, <1>2, <1>6, <1>7, <1>8, <1>9
<1>11. \A l \in Labels : Round(l) \in {0, 1} => l \in {"construct", "sync", "load", "loaded"}
  BY <1>4, <1>6, <1>7, <1>8, <1>9
<1> QED BY <1>1, <1>2, <1>4, <1>6, <1>7, <1>8, <1>10, <1>11

LEMMA Places ==
  /\ Training \subseteq Looping /\ Looping \subseteq Labels
  /\ Pulling \subseteq Training /\ Pushing \subseteq Training
  /\ Barriers \subseteq Labels /\ Barriers \cap Training = {}
  /\ "idle" \in Looping /\ "finished" \in Looping /\ "idle" \notin Training
  /\ "finished" \notin Training
  /\ "before_pull" \in Training /\ "before_push" \in Training /\ "write" \in Training
  /\ "before_pull" \notin Pulling /\ "before_push" \notin Pulling
  /\ \A l \in Training : \/ l \in Pulling \/ l \in Pushing
                         \/ l = "before_pull" \/ l = "before_push"
  /\ Pulling \cap Pushing = {} /\ Pulling \cap {"idle", "before_pull", "finished"} = {}
<1>1. Training \subseteq Looping /\ Looping \subseteq Labels
      /\ "idle" \in Looping /\ "finished" \in Looping
  BY DEF Looping, Labels
<1>2. Pulling \subseteq Training
  BY DEF Pulling
<1>3. Pushing \subseteq Training /\ "before_pull" \in Training /\ "before_push" \in Training
      /\ "write" \in Training
  BY DEF Pushing, Training
<1>4. Barriers \subseteq Labels
  BY DEF Barriers, Labels, Looping
<1>5. Barriers \cap Training = {} /\ "idle" \notin Training /\ "finished" \notin Training
  BY DEF Barriers, Training
<1>6. \A l \in Training : \/ l \in Pulling \/ l \in Pushing
                          \/ l = "before_pull" \/ l = "before_push"
  BY DEF Pulling, Pushing
<1>7. Pulling \cap Pushing = {} /\ "before_pull" \notin Pulling /\ "before_push" \notin Pulling
  BY DEF Pulling, Pushing
<1>8. Pulling \cap {"idle", "before_pull", "finished"} = {}
  BY <1>2, <1>5, <1>7
<1> QED BY <1>1, <1>2, <1>3, <1>4, <1>5, <1>6, <1>7, <1>8

------------------------------------------------------------------------------
(* What a move of one thread keeps.                                        *)

LEMMA TypeKept ==
  ASSUME TypeOK, NEW t \in Threads, NEW l \in Labels, Moves(t, l),
         UNCHANGED <<table, kind>>, iter' \in [Threads -> Nat],
         sent' \in SUBSET (Threads \ {Leader}), ctl' \in Controllers
  PROVE  TypeOK'
BY DEF TypeOK, Moves, Fields, Leader

LEMMA TogetherKept ==
  ASSUME TypeOK, Together, NEW t \in Workers, NEW l \in Labels, Moves(t, l),
         UNCHANGED <<table, sent>>, th[t].pc \notin Barriers,
         Round(l) = Round(th[t].pc) \/ table.mode_type = "Single",
         table.mode_type = "Single" => l \notin Barriers
  PROVE  Together'
<1>1. Workers' = Workers /\ Leader' = Leader
  BY DEF Workers, Leader
<1>2. Workers \subseteq Threads /\ Leader \in Workers
      /\ (table.mode_type = "Single" => Workers = {Leader})
  BY Modes
<1>3. \A u \in Threads : th'[u].pc = IF u = t THEN l ELSE th[u].pc
  BY DEF Moves
<1>4. sent \subseteq Threads /\ t \notin sent
  BY DEF TypeOK, Together
<1>5. \A u, v \in Workers : Round(th'[u].pc) = Round(th'[v].pc)
  <2>1. \A u, v \in Workers : Round(th[u].pc) = Round(th[v].pc)
    BY DEF Together
  <2>2. CASE table.mode_type = "Single"
    BY <1>2, <2>2
  <2>3. CASE Round(l) = Round(th[t].pc)
    BY <1>2, <1>3, <2>1, <2>3
  <2> QED BY <2>2, <2>3
<1>6. \A u \in Threads \ Workers : th'[u].pc = "done"
  BY <1>3 DEF Together, At
<1>7. \A u \in sent : th'[u].pc \in Barriers
  BY <1>3, <1>4 DEF Together
<1>8. table.mode_type = "Single" => th'[Leader].pc \notin Barriers
  BY <1>2, <1>3 DEF Together
<1> QED BY <1>1, <1>5, <1>6, <1>7, <1>8 DEF Together, At, Round

LEMMA FreshKept ==
  ASSUME TypeOK, Fresh, NEW t \in Threads, NEW l \in Labels, Moves(t, l), UNCHANGED table,
         \A u \in Threads \ {t} : iter'[u] = iter[u],
         Round(l) \in {0, 1} => iter'[t] = 0,
         l \in Training => iter'[t] < table.iters,
         th'[Leader].pc \in {"sync", "load", "loaded"} => ctl' = NewController(Workers),
         table.mode_type = "SPMT" => l # "add"
  PROVE  Fresh'
<1>1. Workers' = Workers /\ Leader' = Leader /\ NewController(Workers)' = NewController(Workers)
  BY DEF Workers, Leader, NewController, BSPFields, SSPFields
<1>2. Workers \subseteq Threads
  BY Modes
<1>3. \A u \in Threads : th'[u].pc = IF u = t THEN l ELSE th[u].pc
  BY DEF Moves
<1>4. \A u \in Workers : Round(th'[u].pc) \in {0, 1} => iter'[u] = 0
  BY <1>2, <1>3 DEF Fresh
<1>5. \A u \in Threads : th'[u].pc \in Training => iter'[u] < table.iters
  BY <1>3 DEF Fresh
<1>6. table.mode_type = "SPMT" => \A u \in Threads : th'[u].pc # "add"
  BY <1>3 DEF Fresh, At
<1> QED BY <1>1, <1>4, <1>5, <1>6 DEF Fresh, At, Round

Waits == {"idle", "before_pull", "finished"}

LEMMA BSPKept ==
  ASSUME TypeOK, BSPCounts, NEW t \in Threads, NEW l \in Labels, Moves(t, l),
         UNCHANGED <<table, iter>>, ctl'.bsp = ctl.bsp,
         ctl'.num_local_workers_ = ctl.num_local_workers_,
         protocol = "BSP" /\ th'[Leader].pc \in Looping =>
           /\ th[Leader].pc \in Looping
           /\ ctl.bsp.reply_phase_ =>
                (th[t].pc = "before_push" <=> l = "before_push") /\ l # "write"
           /\ ~ctl.bsp.reply_phase_ =>
                (th[t].pc \in Waits <=> l \in Waits) /\ l \notin Pulling
  PROVE  BSPCounts'
<1> SUFFICES ASSUME protocol = "BSP", th'[Leader].pc \in Looping PROVE BSPCounts'
  BY DEF BSPCounts, protocol, Leader
<1>1. \A u \in Threads : th'[u].pc = IF u = t THEN l ELSE th[u].pc
  BY DEF Moves
<1>2. ctl.bsp.reply_phase_ => HavePulled' = HavePulled
  BY <1>1 DEF HavePulled, At
<1>3. ~ctl.bsp.reply_phase_ => HavePushed' = HavePushed
  BY <1>1 DEF HavePushed, Waits
<1>4. ctl.bsp.reply_phase_ => \A u \in Threads : th'[u].pc # "write"
  BY <1>1 DEF BSPCounts, At
<1>5. ~ctl.bsp.reply_phase_ => \A u \in Threads : th'[u].pc \notin Pulling
  BY <1>1 DEF BSPCounts
<1> QED BY <1>2, <1>3, <1>4, <1>5 DEF BSPCounts, At

LEMMA SSPKept ==
  ASSUME TypeOK, SSPClocks, NEW t \in Threads, NEW l \in Labels, Moves(t, l),
         UNCHANGED <<table, iter>>, ctl'.ssp = ctl.ssp,
         ctl'.num_local_workers_ = ctl.num_local_workers_,
         protocol = "SSP" /\ th'[Leader].pc \in Looping =>
           /\ th[Leader].pc \in Looping
           /\ l \in Training \ {"before_pull"} =>
                \/ th[t].pc \in Training \ {"before_pull"}
                \/ iter[t] <= ctl.ssp.min_clock_ + staleness_
  PROVE  SSPClocks'
<1> SUFFICES ASSUME protocol = "SSP", th'[Leader].pc \in Looping PROVE SSPClocks'
  BY DEF SSPClocks, protocol, Leader
<1>1. \A u \in Threads : th'[u].pc = IF u = t THEN l ELSE th[u].pc
  BY DEF Moves
<1>2. \A u \in Threads : th'[u].pc \in Training \ {"before_pull"} =>
                           iter[u] <= ctl.ssp.min_clock_ + staleness_
  BY <1>1 DEF SSPClocks
<1> QED BY <1>2 DEF SSPClocks

LEMMA AWorker ==
  ASSUME Inv, NEW t \in Threads, th[t].pc # "done"
  PROVE  t \in Workers
BY DEF Inv, Together, At

\* While one worker iterates, all do.
LEMMA AllLooping ==
  ASSUME Inv, NEW t \in Workers, th[t].pc \in Looping
  PROVE  \A u \in Workers : th[u].pc \in Looping
<1>1. \A u \in Workers : th[u].pc \in Labels /\ Round(th[u].pc) = Round(th[t].pc)
  BY Modes DEF Inv, TypeOK, Together
<1> QED BY <1>1, Rounds

\* A move that leaves the counters of the controller alone.
LEMMA Quiet ==
  ASSUME Inv, NEW t \in Threads, NEW l \in Labels, Moves(t, l),
         UNCHANGED <<table, kind, iter, sent>>,
         th[t].pc \notin Barriers, th[t].pc # "done",
         Round(l) = Round(th[t].pc) \/ table.mode_type = "Single",
         table.mode_type = "Single" => l \notin Barriers,
         l \in Training => iter[t] < table.iters,
         table.mode_type = "SPMT" => l # "add",
         Round(l) \in {0, 1} => Round(th[t].pc) \in {0, 1},
         l \in {"sync", "load", "loaded"} => th[t].pc \in {"sync", "load", "loaded"},
         ctl' = ctl \/ th[t].pc \in Looping,
         ctl' \in Controllers, ctl'.bsp = ctl.bsp, ctl'.ssp = ctl.ssp,
         ctl'.num_local_workers_ = ctl.num_local_workers_,
         protocol = "BSP" /\ th[t].pc \in Looping =>
           /\ ctl.bsp.reply_phase_ =>
                (th[t].pc = "before_push" <=> l = "before_push") /\ l # "write"
           /\ ~ctl.bsp.reply_phase_ =>
                (th[t].pc \in Waits <=> l \in Waits) /\ l \notin Pulling,
         protocol = "SSP" /\ th[t].pc \in Looping /\ l \in Training \ {"before_pull"} =>
             \/ th[t].pc \in Training \ {"before_pull"}
             \/ iter[t] <= ctl.ssp.min_clock_ + staleness_
  PROVE  Inv'
<1>1. TypeOK /\ Together /\ Fresh /\ BSPCounts /\ SSPClocks
  BY DEF Inv
<1>2. t \in Workers
  BY AWorker
<1>3. /\ Workers \subseteq Threads /\ Leader \in Workers
      /\ table.mode_type = "Single" => Workers = {Leader}
      /\ protocol \in {"BSP", "SSP"} => Workers = Threads /\ table.mode_type = "SPMT"
  BY <1>1, Modes
<1>4. \A u \in Threads : th'[u].pc = IF u = t THEN l ELSE th[u].pc
  BY DEF Moves
<1>5. TypeOK'
  <2>1. iter' \in [Threads -> Nat] /\ sent' \in SUBSET (Threads \ {Leader})
    BY <1>1 DEF TypeOK
  <2> QED BY <1>1, <2>1, TypeKept
<1>6. Together'
  BY <1>1, <1>2, TogetherKept
<1>7. Fresh'
  <2>1. \A u \in Threads \ {t} : iter'[u] = iter[u]
    OBVIOUS
  <2>2. Round(l) \in {0, 1} => iter'[t] = 0
    BY <1>1, <1>2 DEF Fresh
  <2>3. th'[Leader].pc \in {"sync", "load", "loaded"} => ctl' = NewController(Workers)
    <3> SUFFICES ASSUME th'[Leader].pc \in {"sync", "load", "loaded"}
                 PROVE  ctl' = NewController(Workers)
      OBVIOUS
    <3>1. th[Leader].pc \in {"sync", "load", "loaded"}
      BY <1>3, <1>4
    <3>2. ctl = NewController(Workers)
      BY <1>1, <3>1 DEF Fresh
    <3>3. th[t].pc \notin Looping
      <4> SUFFICES ASSUME th[t].pc \in Looping PROVE FALSE
        OBVIOUS
      <4>1. th[Leader].pc \in Looping
        BY <1>2, <1>3, AllLooping
      <4> QED BY <3>1, <4>1, Rounds
    <3> QED BY <3>2, <3>3
  <2>4. l \in Training => iter'[t] < table.iters
    OBVIOUS
  <2> QED BY <1>1, <2>1, <2>2, <2>3, <2>4, FreshKept
\* The leader has not just come into the loop, and so t is in it too.
<1>8. ASSUME protocol \in {"BSP", "SSP"}, th'[Leader].pc \in Looping
      PROVE  th[Leader].pc \in Looping /\ th[t].pc \in Looping
  <2>1. Round(l) = Round(th[t].pc) /\ th[t].pc \in Labels
    BY <1>1, <1>3, <1>8 DEF TypeOK
  <2>2. th[Leader].pc \in Looping
    BY <1>3, <1>4, <1>8, <2>1, Rounds
  <2> QED BY <1>2, <1>3, <2>2, AllLooping
<1>9. BSPCounts'
  BY <1>1, <1>8, BSPKept
<1>10. SSPClocks'
  BY <1>1, <1>8, SSPKept
<1> QED BY <1>5, <1>6, <1>7, <1>9, <1>10 DEF Inv

------------------------------------------------------------------------------
(* One lemma for each action.                                              *)

LEMMA LoadStep ==
  ASSUME Inv, NEW t \in Threads, Load(t)
  PROVE  Inv'
<1> DEFINE l == IF table.mode_type = "Single" THEN "idle" ELSE "loaded"
<1>1. TypeOK /\ ctl \in Controllers
  BY DEF Inv, TypeOK
<1>2. th[t].pc = "load" /\ Moves(t, l) /\ UNCHANGED <<table, kind, iter, sent, ctl>>
  BY <1>1, Moved DEF Load, At, run
<1>3. "load" \notin Looping /\ "load" \notin Barriers /\ l \notin Training /\ l \in Labels
      /\ l # "add" /\ (table.mode_type = "Single" => l \notin Barriers)
  BY DEF Looping, Training, Labels, Barriers
<1>4. /\ Round(l) = Round("load") \/ table.mode_type = "Single"
      /\ Round("load") \in {0, 1}
  BY Rounds
<1>5. l \in {"sync", "load", "loaded"} => th[t].pc \in {"sync", "load", "loaded"}
  BY <1>2
<1> HIDE DEF l
<1> QED BY <1>1, <1>2, <1>3, <1>4, <1>5, Quiet

LEMMA FinishStep ==
  ASSUME Inv, NEW t \in Threads, Finish(t)
  PROVE  Inv'
<1> DEFINE l == IF table.mode_type = "Single" THEN "dump" ELSE "finished"
<1>1. TypeOK /\ ctl \in Controllers
  BY DEF Inv, TypeOK
<1>2. th[t].pc = "idle" /\ Moves(t, l) /\ UNCHANGED <<table, kind, iter, sent, ctl>>
  BY <1>1, Moved DEF Finish, At, run
<1>3. "idle" \notin Barriers /\ l \notin Training /\ l \in Labels
      /\ l \notin {"add", "write", "before_push", "sync", "load", "loaded"}
      /\ (table.mode_type = "Single" => l \notin Barriers)
      /\ (table.mode_type # "Single" => l \in Waits) /\ "idle" \in Waits /\ l \notin Pulling
  BY DEF Looping, Training, Labels, Barriers, Waits, Pulling
<1>4. /\ Round(l) = Round("idle") \/ table.mode_type = "Single"
      /\ Round(l) \notin {0, 1}
  BY Rounds, Places
<1>5. protocol = "BSP" => table.mode_type # "Single"
  BY <1>1, Modes
<1> HIDE DEF l
<1> QED BY <1>1, <1>2, <1>3, <1>4, <1>5, Quiet

LEMMA DumpStep ==
  ASSUME Inv, NEW t \in Threads, Dump(t)
  PROVE  Inv'
<1> DEFINE l == IF table.mode_type = "Single" THEN "done" ELSE "dumped"
<1>1. TypeOK /\ ctl \in Controllers
  BY DEF Inv, TypeOK
<1>2. th[t].pc = "dump" /\ Moves(t, l) /\ UNCHANGED <<table, kind, iter, sent, ctl>>
  BY <1>1, Moved DEF Dump, At, run
<1>3. "dump" \notin Looping /\ "dump" \notin Barriers /\ l \notin Training /\ l \in Labels
      /\ l \notin {"add", "sync", "load", "loaded"}
      /\ (table.mode_type = "Single" => l \notin Barriers)
  BY DEF Looping, Training, Labels, Barriers
<1>4. /\ Round(l) = Round("dump") \/ table.mode_type = "Single"
      /\ Round(l) \notin {0, 1}
  BY Rounds
<1> HIDE DEF l
<1> QED BY <1>1, <1>2, <1>3, <1>4, Quiet

LEMMA DeleteStep ==
  ASSUME Inv, NEW t \in Threads, Delete(t)
  PROVE  Inv'
<1>1. TypeOK /\ ctl \in Controllers
  BY DEF Inv, TypeOK
<1>2. th[t].pc = "delete" /\ Moves(t, "done") /\ UNCHANGED <<table, kind, iter, sent, ctl>>
  BY <1>1, Moved DEF Delete, At, run
<1>3. "delete" \notin Looping /\ "delete" \notin Barriers /\ "done" \notin Training
      /\ "done" \in Labels /\ "done" \notin Barriers
  BY DEF Looping, Training, Labels, Barriers
<1>4. Round("done") = Round("delete") /\ Round("done") \notin {0, 1}
  BY Rounds
<1> QED BY <1>1, <1>2, <1>3, <1>4, Quiet

LEMMA RequestStep ==
  ASSUME Inv, NEW t \in Threads, Request(t)
  PROVE  Inv'
<1> DEFINE l == "before_pull"
<1>1. TypeOK /\ ctl \in Controllers
  BY DEF Inv, TypeOK
<1>2. PICK r : th' = [th EXCEPT ![t].req = r, ![t].pc = "before_pull"]
  BY DEF Request
<1>3. Moves(t, l)
  <2> DEFINE s == [th[t] EXCEPT !.req = r, !.pc = "before_pull"]
  <2>1. DOMAIN th = Threads /\ DOMAIN th[t] = Fields /\ "pc" \in Fields /\ "req" \in Fields
    BY <1>1, Locals DEF TypeOK, Fields
  <2>2. th' = [th EXCEPT ![t] = s] /\ DOMAIN s = Fields /\ s.pc = "before_pull"
    BY <1>2, <2>1
  <2> HIDE DEF s
  <2> QED BY <1>1, <2>2, Assigned
<1>4. th[t].pc = "idle" /\ UNCHANGED <<table, kind, iter, sent, ctl>> /\ iter[t] < table.iters
  BY DEF Request, At, run
<1>5. "idle" \notin Barriers /\ l \in Labels
      /\ l \notin {"add", "write", "before_push", "sync", "load", "loaded"}
      /\ l \notin Barriers /\ l \in Waits /\ "idle" \in Waits /\ l \notin Pulling
  BY DEF Looping, Training, Labels, Barriers, Waits, Pulling
<1>6. Round(l) = Round("idle") /\ Round(l) \notin {0, 1}
  BY Rounds, Places
<1>7. l \notin Training \ {"before_pull"}
  OBVIOUS
<1> HIDE DEF l
<1> QED BY <1>1, <1>3, <1>4, <1>5, <1>6, <1>7, Quiet

LEMMA WorkStep ==
  ASSUME Inv, NEW t \in Threads, Work(t)
  PROVE  Inv'
<1>1. TypeOK /\ ctl \in Controllers
  BY DEF Inv, TypeOK
<1>2. UNCHANGED <<table, kind, iter, sent, ctl>>
  BY DEF Work, run
<1>3. PICK l : /\ Moves(t, l)
               /\ \/ th[t].pc \in Pulling /\ l \in Pulling
                  \/ th[t].pc \in Pushing /\ l \in Pushing
               /\ l = "add" => kind \in {"MT", "Integral"}
  BY <1>1, ModelMoves DEF Work
<1>4. th[t].pc \in Training /\ l \in Training /\ l \in Labels
      /\ th[t].pc \in Looping /\ l \in Looping
      /\ th[t].pc \notin Barriers /\ l \notin Barriers
  BY <1>3, Places
<1>5. th[t].pc \notin {"before_pull", "before_push", "done", "idle", "finished"}
      /\ l \notin {"before_pull", "before_push", "sync", "load", "loaded", "idle", "finished"}
  BY <1>3 DEF Pulling, Pushing, Training
<1>6. th[t].pc \notin Waits /\ l \notin Waits
  BY <1>5 DEF Waits
<1>7. Round(l) = Round(th[t].pc) /\ Round(l) \notin {0, 1}
  BY <1>4, Rounds
<1>8. iter[t] < table.iters
  BY <1>4 DEF Inv, Fresh
<1>9. table.mode_type = "SPMT" => l # "add" /\ th[t].pc # "add"
  BY <1>1, <1>3, Modes DEF Inv, Fresh, At
<1>10. t \in Workers
  BY <1>5, AWorker
\* The phase allows what t is doing.
<1>11. protocol = "BSP" => /\ ctl.bsp.reply_phase_ => l # "write"
                           /\ ~ctl.bsp.reply_phase_ => l \notin Pulling
  <2> SUFFICES ASSUME protocol = "BSP"
               PROVE  /\ ctl.bsp.reply_phase_ => l # "write"
                      /\ ~ctl.bsp.reply_phase_ => l \notin Pulling
    OBVIOUS
  <2>1. th[Leader].pc \in Looping /\ table.mode_type = "SPMT"
    BY <1>1, <1>4, <1>10, AllLooping, Modes
  <2>2. /\ ctl.bsp.reply_phase_ => th[t].pc # "write"
        /\ ~ctl.bsp.reply_phase_ => th[t].pc \notin Pulling
    BY <2>1 DEF Inv, BSPCounts, At
  <2>3. th[t].pc \in Pushing => th[t].pc = "write"
    BY <1>9, <2>1 DEF Pushing
  <2>4. l = "write" => l \in Pushing /\ l \notin Pulling
    BY DEF Pushing, Pulling
  <2> QED BY <1>3, <2>2, <2>3, <2>4, Places
<1> QED BY <1>1, <1>2, <1>3, <1>4, <1>5, <1>6, <1>7, <1>8, <1>9, <1>11, Quiet

LEMMA NewControllerTyped ==
  ASSUME TypeOK
  PROVE  NewController(Workers) \in Controllers
<1>1. Workers \subseteq Threads /\ IsFiniteSet(Threads) /\ MaxIter \in Nat
  BY Modes
<1>2. IsFiniteSet(Workers)
  BY <1>1, FS_Subset
<1>3. Cardinality(Workers) \in Nat
  BY <1>2, FS_CardinalityType
<1> QED BY <1>3 DEF NewController, BSPFields, SSPFields, Controllers

LEMMA ConstructStep ==
  ASSUME Inv, NEW t \in Threads, Construct(t)
  PROVE  Inv'
<1> DEFINE l == IF table.mode_type # "Single" THEN "sync"
                ELSE IF table.chunk THEN "idle" ELSE "load"
<1>1. TypeOK /\ Together /\ Fresh /\ ctl \in Controllers
  BY DEF Inv, TypeOK
<1>2. th[t].pc = "construct" /\ Moves(t, l) /\ UNCHANGED <<table, kind, iter, sent>>
  BY <1>1, Moved DEF Construct, At, run
<1>3. /\ t = Leader => ctl' = NewController(Workers)
      /\ t # Leader => ctl' = ctl
  BY DEF Construct
<1>4. /\ table.mode_type # "Single" => l = "sync"
      /\ table.mode_type = "Single" => l \in {"idle", "load"}
  OBVIOUS
<1> HIDE DEF l
<1>5. t \in Workers
  BY <1>2, AWorker
<1>6. /\ Workers \subseteq Threads /\ Leader \in Workers
      /\ protocol \in {"BSP", "SSP"} => Workers = Threads /\ table.mode_type = "SPMT"
  BY <1>1, Modes
<1>7. \A u \in Threads : th'[u].pc = IF u = t THEN l ELSE th[u].pc
  BY <1>2 DEF Moves
<1>8. l \in Labels /\ l \notin Training /\ "construct" \notin Barriers /\ l # "add"
      /\ {"idle", "load"} \cap Barriers = {} /\ "sync" \notin Looping
      /\ "construct" \notin Looping
  BY <1>4 DEF Labels, Training, Barriers, Looping
<1>9. Round("sync") = Round("construct") /\ Round("construct") = 0
  BY Rounds
<1>10. ctl' \in Controllers
  BY <1>1, <1>3, NewControllerTyped
<1>11. TypeOK'
  <2>1. iter' \in [Threads -> Nat] /\ sent' \in SUBSET (Threads \ {Leader})
    BY <1>1, <1>2 DEF TypeOK
  <2> QED BY <1>1, <1>2, <1>8, <1>10, <2>1, TypeKept
<1>12. Together'
  BY <1>1, <1>2, <1>4, <1>5, <1>8, <1>9, TogetherKept
<1>13. Fresh'
  <2>1. iter'[t] = 0 /\ \A u \in Threads \ {t} : iter'[u] = iter[u]
    BY <1>1, <1>2, <1>5, <1>9 DEF Fresh
  <2>2. th'[Leader].pc \in {"sync", "load", "loaded"} => ctl' = NewController(Workers)
    <3>1. CASE t = Leader
      BY <1>3, <3>1
    <3>2. CASE t # Leader
      BY <1>1, <1>3, <1>6, <1>7, <3>2 DEF Fresh
    <3> QED BY <3>1, <3>2
  <2> QED BY <1>1, <1>2, <1>8, <2>1, <2>2, FreshKept
<1>14. protocol' = protocol
  BY <1>2 DEF protocol
<1>15. protocol \in {"BSP", "SSP"} => th'[Leader].pc \notin Looping
  <2> SUFFICES ASSUME protocol \in {"BSP", "SSP"}, th'[Leader].pc \in Looping PROVE FALSE
    OBVIOUS
  <2>1. t # Leader
    BY <1>4, <1>6, <1>7, <1>8
  <2>2. th[Leader].pc \in Looping
    BY <1>6, <1>7, <2>1
  <2>3. th[t].pc \in Looping
    BY <1>5, <1>6, <2>2, AllLooping
  <2> QED BY <1>2, <1>8, <2>3
<1>16. BSPCounts' /\ SSPClocks'
  BY <1>14, <1>15 DEF BSPCounts, SSPClocks, Leader
<1> QED BY <1>11, <1>12, <1>13, <1>16 DEF Inv

LEMMA SendStep ==
  ASSUME Inv, NEW t \in Threads, Send(t)
  PROVE  Inv'
<1>1. /\ t # Leader /\ th[t].pc \in Barriers /\ sent' = sent \cup {t}
      /\ UNCHANGED <<table, kind, th, iter, ctl>>
  BY DEF Send, run
<1>2. TypeOK'
  BY <1>1 DEF Inv, TypeOK, Leader
<1>3. Together'
  BY <1>1 DEF Inv, Together, At, Workers, Leader, Round
<1>4. Fresh'
  BY <1>1 DEF Inv, Fresh, At, Workers, Leader, Round
<1>5. BSPCounts'
  BY <1>1 DEF Inv, BSPCounts, At, protocol, Leader, HavePulled, HavePushed
<1>6. SSPClocks'
  BY <1>1 DEF Inv, SSPClocks, protocol, Leader
<1> QED BY <1>2, <1>3, <1>4, <1>5, <1>6 DEF Inv

\* A thread that sleeps stays where it is.
LEMMA SleepStep ==
  ASSUME Inv, NEW t \in Threads, th[t].pc \in {"before_pull", "before_push"},
         ctl' = Sleep(ctl, t), UNCHANGED <<table, kind, th, iter, sent>>
  PROVE  Inv'
<1> DEFINE l == th[t].pc
<1>1. TypeOK /\ ctl \in Controllers
  BY DEF Inv, TypeOK
<1>2. Moves(t, l)
  BY <1>1 DEF TypeOK, Moves, Fields
<1>3. l \in Training /\ l \in Looping /\ l \in Labels /\ l \notin Barriers
  BY Places
<1>4. l \notin {"done", "add", "sync", "load", "loaded", "write"} /\ l \notin Pulling
  BY DEF Pulling
<1>5. Round(l) \notin {0, 1}
  BY <1>3, Rounds
<1>6. ctl' \in Controllers /\ ctl'.bsp = ctl.bsp /\ ctl'.ssp = ctl.ssp
      /\ ctl'.num_local_workers_ = ctl.num_local_workers_
  BY <1>1 DEF Sleep, Controllers
<1>7. iter[t] < table.iters
  BY <1>3 DEF Inv, Fresh
<1> HIDE DEF l
<1>8. l = th[t].pc
  BY DEF l
<1> QED BY <1>2, <1>3, <1>4, <1>5, <1>6, <1>7, <1>8, Quiet

LEMMA BeforePullStep ==
  ASSUME Inv, NEW t \in Threads, BeforePull(t)
  PROVE  Inv'
<1>1. TypeOK /\ ctl \in Controllers
  BY DEF Inv, TypeOK
<1>2. th[t].pc = "before_pull" /\ UNCHANGED <<table, kind, iter, sent>>
  BY DEF BeforePull, At, run
<1>3. CASE ~MayPull(protocol, ctl, t)
  <2>1. ctl' = Sleep(ctl, t) /\ UNCHANGED th
    BY <1>3 DEF BeforePull
  <2> QED BY <1>2, <2>1, SleepStep
<1>4. CASE MayPull(protocol, ctl, t)
  <2>1. th' = [th EXCEPT ![t] = Prepare(t)] /\ ctl' = ctl
    BY <1>4 DEF BeforePull
  <2>2. PICK l : /\ l \in {"read", "prepare", "collect", "lock"}
                 /\ Prepare(t) = [th[t] EXCEPT !.pc = l, !.todo = th[t].req]
    <3> DEFINE p == CASE kind = "Integral" -> "read"
                      [] kind = "Chunk" -> "prepare"
                      [] Replacing -> "lock"
                      [] OTHER -> "collect"
    <3>1. p \in {"read", "prepare", "collect", "lock"}
      OBVIOUS
    <3>2. Prepare(t) = [th[t] EXCEPT !.pc = p, !.todo = th[t].req]
      BY DEF Prepare
    <3> HIDE DEF p
    <3> QED BY <3>1, <3>2
  <2>3. Moves(t, l)
    <3>1. DOMAIN th[t] = Fields /\ "pc" \in Fields /\ "todo" \in Fields
      BY <1>1, Locals DEF TypeOK, Fields
    <3>2. DOMAIN Prepare(t) = Fields /\ Prepare(t).pc = l
      BY <2>2, <3>1
    <3> QED BY <1>1, <2>1, <3>2, Assigned
  <2>4. l \in Pulling /\ l \notin {"before_push", "add", "write", "sync", "load", "loaded"}
    BY <2>2 DEF Pulling, Training
  <2>5. l \in Training /\ l \in Looping /\ l \in Labels /\ l \notin Barriers
        /\ "before_pull" \in Looping /\ "before_pull" \in Training
        /\ "before_pull" \notin Barriers
    BY <2>4, Places
  <2>6. Round(l) = Round(th[t].pc) /\ Round(l) \notin {0, 1}
    BY <1>2, <2>5, Rounds
  <2>7. iter[t] < table.iters
    BY <1>2, <2>5 DEF Inv, Fresh
  <2>8. protocol = "BSP" => ctl.bsp.reply_phase_
    BY <1>4 DEF MayPull, BSPMayPull
  <2>9. protocol = "SSP" => iter[t] <= ctl.ssp.min_clock_ + staleness_
    <3> SUFFICES ASSUME protocol = "SSP" PROVE iter[t] <= ctl.ssp.min_clock_ + staleness_
      OBVIOUS
    <3>1. t \in Workers /\ Leader \in Workers
      BY <1>1, <1>2, AWorker, Modes
    <3>2. th[Leader].pc \in Looping
      BY <1>2, <2>5, <3>1, AllLooping
    <3>3. ctl.ssp.worker_progress_ = iter
      BY <3>2 DEF Inv, SSPClocks
    <3>4. iter[t] - staleness_ <= ctl.ssp.min_clock_
      BY <1>4, <3>3 DEF MayPull, SSPMayGo
    <3>5. iter[t] \in Int /\ ctl.ssp.min_clock_ \in Int
      BY <1>1 DEF TypeOK, Controllers
    <3> QED BY <3>4, <3>5 DEF staleness_
  <2> QED BY <1>1, <1>2, <2>1, <2>3, <2>4, <2>5, <2>6, <2>7, <2>8, <2>9, Quiet
<1> QED BY <1>3, <1>4

LEMMA BeforePushStep ==
  ASSUME Inv, NEW t \in Threads, BeforePush(t)
  PROVE  Inv'
<1>1. TypeOK /\ ctl \in Controllers
  BY DEF Inv, TypeOK
<1>2. th[t].pc = "before_push" /\ UNCHANGED <<table, kind, iter, sent>>
  BY DEF BeforePush, At, run
<1>3. CASE ~MayPush(protocol, ctl, t)
  <2>1. ctl' = Sleep(ctl, t) /\ UNCHANGED th
    BY <1>3 DEF BeforePush
  <2> QED BY <1>2, <2>1, SleepStep
<1>4. CASE MayPush(protocol, ctl, t)
  <2>1. th' = [th EXCEPT ![t].pc = "write", ![t].todo = th[t].req] /\ ctl' = ctl
    BY <1>4 DEF BeforePush
  <2>2. Moves(t, "write")
    <3> DEFINE s == [th[t] EXCEPT !.pc = "write", !.todo = th[t].req]
    <3>1. DOMAIN th = Threads /\ DOMAIN th[t] = Fields /\ "pc" \in Fields /\ "todo" \in Fields
      BY <1>1, Locals DEF TypeOK, Fields
    <3>2. th' = [th EXCEPT ![t] = s] /\ DOMAIN s = Fields /\ s.pc = "write"
      BY <2>1, <3>1
    <3> HIDE DEF s
    <3> QED BY <1>1, <3>2, Assigned
  <2>3. "write" \notin Pulling /\ "write" \notin Waits /\ "before_push" \notin Waits
    BY DEF Pulling, Waits
  <2>4. "write" \in Training /\ "write" \in Looping /\ "write" \in Labels
        /\ "write" \notin Barriers
        /\ "before_push" \in Looping /\ "before_push" \in Training
        /\ "before_push" \notin Barriers
    BY Places
  <2>5. Round("write") = Round("before_push") /\ Round("write") \notin {0, 1}
    BY <2>4, Rounds
  <2>6. iter[t] < table.iters
    BY <1>2, <2>4 DEF Inv, Fresh
  <2>7. protocol = "BSP" => ~ctl.bsp.reply_phase_
    BY <1>4 DEF MayPush, BSPMayPush
  <2> QED BY <1>1, <1>2, <2>1, <2>2, <2>3, <2>4, <2>5, <2>6, <2>7, Quiet
<1> QED BY <1>3, <1>4

\* Counting one more thread, and whether it is the last.
LEMMA OneMore ==
  ASSUME NEW S \in SUBSET Threads, NEW t \in Threads \ S
  PROVE  /\ Cardinality(S) \in Nat
         /\ Cardinality(S \cup {t}) = Cardinality(S) + 1
         /\ Cardinality(S) + 1 = Cardinality(Threads) <=> S \cup {t} = Threads
<1>1. IsFiniteSet(Threads)
  BY ThreadsAssumption
<1>2. IsFiniteSet(S)
  BY <1>1, FS_Subset
<1>3. Cardinality(S \cup {t}) = Cardinality(S) + 1
  BY <1>2, FS_AddElement
<1>4. Cardinality(S) \in Nat
  BY <1>2, FS_CardinalityType
<1>5. S \cup {t} \in SUBSET Threads
  OBVIOUS
<1>6. Cardinality(Threads) = Cardinality(S \cup {t}) => Threads = S \cup {t}
  BY ONLY <1>1, <1>5, FS_Subset
<1> QED BY <1>3, <1>4, <1>6

\* The last pull of a phase lets the threads push (BSPConsistencyController::
\* AfterPull).
LEMMA BSPPulled ==
  ASSUME TypeOK, BSPCounts, protocol = "BSP", th[Leader].pc \in Looping,
         NEW t \in Threads, th[t].pc = "read", Moves(t, "before_push"),
         UNCHANGED <<table, iter>>, ctl' = BSPAfterPull(ctl)
  PROVE  ctl' \in Controllers /\ BSPCounts'
<1>1. \A u \in Threads : th'[u].pc = IF u = t THEN "before_push" ELSE th[u].pc
  BY DEF Moves
<1>2. "read" \in Pulling
  BY DEF Pulling, Training
<1>3. /\ ctl \in Controllers /\ ctl.num_local_workers_ = Cardinality(Threads)
      /\ ctl.bsp.reply_phase_ /\ ctl.bsp.push_count_ = 0
      /\ ctl.bsp.pull_count_ = Cardinality(HavePulled)
      /\ \A u \in Threads : th[u].pc # "write"
      /\ \A u, v \in Threads : iter[u] = iter[v]
  BY <1>2 DEF TypeOK, BSPCounts, At
<1>4. HavePulled \in SUBSET Threads /\ t \in Threads \ HavePulled
      /\ HavePulled' = HavePulled \cup {t}
  BY <1>1 DEF HavePulled, At
<1>5. /\ Cardinality(HavePulled) \in Nat
      /\ Cardinality(HavePulled') = Cardinality(HavePulled) + 1
      /\ Cardinality(HavePulled) + 1 = Cardinality(Threads) <=> HavePulled' = Threads
  BY <1>4, OneMore
<1>6. \A u \in Threads : th'[u].pc # "write"
  BY <1>1, <1>3
<1>7. CASE ctl.bsp.pull_count_ + 1 = ctl.num_local_workers_
  <2>1. ctl' = [ctl EXCEPT !.bsp.pull_count_ = 0, !.bsp.reply_phase_ = FALSE, !.asleep = {}]
    BY <1>7 DEF BSPAfterPull
  <2>2. ctl' \in Controllers /\ ~ctl'.bsp.reply_phase_ /\ ctl'.bsp.pull_count_ = 0
        /\ ctl'.bsp.push_count_ = 0 /\ ctl'.num_local_workers_ = Cardinality(Threads)
    <3> DEFINE b == [ctl.bsp EXCEPT !.pull_count_ = 0, !.reply_phase_ = FALSE]
    <3>1. ctl.bsp \in [push_count_ : Nat, pull_count_ : Nat, reply_phase_ : BOOLEAN]
      BY <1>3 DEF Controllers
    <3>2. /\ b \in [push_count_ : Nat, pull_count_ : Nat, reply_phase_ : BOOLEAN]
          /\ ~b.reply_phase_ /\ b.pull_count_ = 0 /\ b.push_count_ = ctl.bsp.push_count_
      BY <3>1
    <3>3. ctl' = [ctl EXCEPT !.bsp = b, !.asleep = {}]
      BY <1>3, <2>1 DEF Controllers
    <3> HIDE DEF b
    <3>4. ctl' \in Controllers /\ ctl'.bsp = b
          /\ ctl'.num_local_workers_ = ctl.num_local_workers_
      BY <1>3, <3>2, <3>3 DEF Controllers
    <3> QED BY <1>3, <3>2, <3>4
  <2>3. \A u \in Threads : th'[u].pc = "before_push"
    BY <1>3, <1>5, <1>7 DEF HavePulled, At
  <2>4. HavePushed' = {}
    BY <2>3 DEF HavePushed
  <2>5. \A u \in Threads : th'[u].pc \notin Pulling
    BY <2>3, Places
  <2> QED BY <1>3, <2>2, <2>4, <2>5, FS_EmptySet DEF BSPCounts
<1>8. CASE ctl.bsp.pull_count_ + 1 # ctl.num_local_workers_
  <2>1. ctl' = [ctl EXCEPT !.bsp.pull_count_ = @ + 1]
    BY <1>8 DEF BSPAfterPull
  <2>2. ctl' \in Controllers /\ ctl'.bsp.reply_phase_
        /\ ctl'.bsp.pull_count_ = Cardinality(HavePulled')
        /\ ctl'.bsp.push_count_ = 0 /\ ctl'.num_local_workers_ = Cardinality(Threads)
    <3> DEFINE b == [ctl.bsp EXCEPT !.pull_count_ = @ + 1]
    <3>1. ctl.bsp \in [push_count_ : Nat, pull_count_ : Nat, reply_phase_ : BOOLEAN]
      BY <1>3 DEF Controllers
    <3>2. /\ b \in [push_count_ : Nat, pull_count_ : Nat, reply_phase_ : BOOLEAN]
          /\ b.reply_phase_ = ctl.bsp.reply_phase_ /\ b.pull_count_ = ctl.bsp.pull_count_ + 1
          /\ b.push_count_ = ctl.bsp.push_count_
      BY <3>1
    <3>3. ctl' = [ctl EXCEPT !.bsp = b]
      BY <1>3, <2>1 DEF Controllers
    <3> HIDE DEF b
    <3>4. ctl' \in Controllers /\ ctl'.bsp = b
          /\ ctl'.num_local_workers_ = ctl.num_local_workers_
      BY <1>3, <3>2, <3>3 DEF Controllers
    <3> QED BY <1>3, <1>5, <3>2, <3>4
  <2> QED BY <1>3, <1>6, <2>2 DEF BSPCounts, At
<1> QED BY <1>7, <1>8

LEMMA PulledStep ==
  ASSUME Inv, NEW t \in Threads, Pulled(t)
  PROVE  Inv'
<1> DEFINE l == "before_push"
<1>1. TypeOK /\ Together /\ Fresh /\ BSPCounts /\ ctl \in Controllers
  BY DEF Inv, TypeOK
<1>2. /\ th[t].pc = "read" /\ Moves(t, l) /\ UNCHANGED <<table, kind, iter, sent>>
      /\ ctl' = AfterPull(protocol, ctl)
  BY <1>1, Moved DEF Pulled, At, run
<1>3. "read" \in Pulling /\ l \notin Pulling
      /\ l \notin {"add", "write", "sync", "load", "loaded"} /\ "read" # "before_pull"
  BY DEF Pulling, Training
<1>4. /\ "read" \in Training /\ "read" \in Looping /\ "read" \notin Barriers
      /\ l \in Training /\ l \in Looping /\ l \in Labels /\ l \notin Barriers
  BY <1>3, Places
<1>5. Round(l) = Round("read") /\ Round(l) \notin {0, 1}
  BY <1>4, Rounds
<1>6. iter[t] < table.iters
  BY <1>2, <1>4 DEF Inv, Fresh
<1> HIDE DEF l
<1>7. CASE protocol # "BSP"
  <2>1. ctl' = ctl
    BY <1>2, <1>7 DEF AfterPull
  <2> QED BY <1>1, <1>2, <1>3, <1>4, <1>5, <1>6, <1>7, <2>1, Quiet
<1>8. CASE protocol = "BSP"
  <2>1. t \in Workers /\ Leader \in Workers /\ Workers \subseteq Threads
    BY <1>1, <1>2, AWorker, Modes
  <2>2. th[Leader].pc \in Looping
    BY <1>2, <1>4, <2>1, AllLooping
  <2>3. ctl' = BSPAfterPull(ctl)
    BY <1>2, <1>8 DEF AfterPull
  <2>4. ctl' \in Controllers /\ BSPCounts'
    BY <1>1, <1>2, <1>8, <2>2, <2>3, BSPPulled DEF l
  <2>5. TypeOK'
    <3>1. iter' \in [Threads -> Nat] /\ sent' \in SUBSET (Threads \ {Leader})
      BY <1>1, <1>2 DEF TypeOK
    <3> QED BY <1>1, <1>2, <1>4, <2>4, <3>1, TypeKept
  <2>6. Together'
    BY <1>1, <1>2, <1>4, <1>5, <2>1, TogetherKept
  <2>7. Fresh'
    <3>1. th'[Leader].pc \notin {"sync", "load", "loaded"}
      <4>1. th'[Leader].pc \in {l, th[Leader].pc}
        BY <1>2, <2>1 DEF Moves
      <4> QED BY <1>4, <2>2, <4>1, Rounds
    <3>2. \A u \in Threads \ {t} : iter'[u] = iter[u]
      BY <1>2
    <3> QED BY <1>1, <1>2, <1>3, <1>4, <1>5, <1>6, <3>1, <3>2, FreshKept
  <2>8. SSPClocks'
    BY <1>2, <1>8 DEF SSPClocks, protocol
  <2> QED BY <2>4, <2>5, <2>6, <2>7, <2>8 DEF Inv
<1> QED BY <1>7, <1>8

\* The last push of a phase lets the threads pull (BSPConsistencyController::
\* AfterPush).
LEMMA BSPPushed ==
  ASSUME TypeOK, BSPCounts, protocol = "BSP", th[Leader].pc \in Looping,
         NEW t \in Threads, th[t].pc = "write", Moves(t, "idle"),
         UNCHANGED table, iter' = [iter EXCEPT ![t] = @ + 1], ctl' = BSPAfterPush(ctl)
  PROVE  ctl' \in Controllers /\ BSPCounts'
<1>1. \A u \in Threads : th'[u].pc = IF u = t THEN "idle" ELSE th[u].pc
  BY DEF Moves
<1>2. \A u \in Threads : iter[u] \in Nat /\ iter'[u] = IF u = t THEN iter[u] + 1 ELSE iter[u]
  BY DEF TypeOK
<1>3. /\ ctl \in Controllers /\ ctl.num_local_workers_ = Cardinality(Threads)
      /\ ~ctl.bsp.reply_phase_ /\ ctl.bsp.pull_count_ = 0
      /\ ctl.bsp.push_count_ = Cardinality(HavePushed)
      /\ \A u \in Threads : th[u].pc \notin Pulling
      /\ \A u, v \in Threads : (u \in HavePushed <=> v \in HavePushed) => iter[u] = iter[v]
      /\ \A u \in HavePushed, v \in Threads \ HavePushed : iter[u] = iter[v] + 1
  BY DEF TypeOK, BSPCounts, At
<1>4. HavePushed \in SUBSET Threads /\ t \in Threads \ HavePushed
      /\ HavePushed' = HavePushed \cup {t}
  BY <1>1 DEF HavePushed
<1>5. /\ Cardinality(HavePushed) \in Nat
      /\ Cardinality(HavePushed') = Cardinality(HavePushed) + 1
      /\ Cardinality(HavePushed) + 1 = Cardinality(Threads) <=> HavePushed' = Threads
  BY <1>4, OneMore
\* The threads that have pushed, t among them now, are one iteration ahead.
<1>6. \A u \in HavePushed' : iter'[u] = iter[t] + 1
  BY <1>2, <1>3, <1>4
<1>7. \A u \in Threads \ HavePushed' : iter'[u] = iter[t]
  BY <1>2, <1>3, <1>4
<1>8. \A u \in Threads : th'[u].pc \notin Pulling
  BY <1>1, <1>3, Places
<1>9. CASE ctl.bsp.push_count_ + 1 = ctl.num_local_workers_
  <2>1. ctl' = [ctl EXCEPT !.bsp.push_count_ = 0, !.bsp.reply_phase_ = TRUE, !.asleep = {}]
    BY <1>9 DEF BSPAfterPush
  <2>2. ctl' \in Controllers /\ ctl'.bsp.reply_phase_ /\ ctl'.bsp.pull_count_ = 0
        /\ ctl'.bsp.push_count_ = 0 /\ ctl'.num_local_workers_ = Cardinality(Threads)
    <3> DEFINE b == [ctl.bsp EXCEPT !.push_count_ = 0, !.reply_phase_ = TRUE]
    <3>1. ctl.bsp \in [push_count_ : Nat, pull_count_ : Nat, reply_phase_ : BOOLEAN]
      BY <1>3 DEF Controllers
    <3>2. /\ b \in [push_count_ : Nat, pull_count_ : Nat, reply_phase_ : BOOLEAN]
          /\ b.reply_phase_ /\ b.push_count_ = 0 /\ b.pull_count_ = ctl.bsp.pull_count_
      BY <3>1
    <3>3. ctl' = [ctl EXCEPT !.bsp = b, !.asleep = {}]
      BY <1>3, <2>1 DEF Controllers
    <3> HIDE DEF b
    <3>4. ctl' \in Controllers /\ ctl'.bsp = b
          /\ ctl'.num_local_workers_ = ctl.num_local_workers_
      BY <1>3, <3>2, <3>3 DEF Controllers
    <3> QED BY <1>3, <3>2, <3>4
  <2>3. HavePushed' = Threads
    BY <1>3, <1>5, <1>9
  <2>4. \A u \in Threads : th'[u].pc \in {"idle", "before_pull", "finished"}
    BY <2>3 DEF HavePushed
  <2>5. HavePulled' = {} /\ \A u \in Threads : th'[u].pc # "write"
    BY <2>4 DEF HavePulled, At
  <2>6. \A u, v \in Threads : iter'[u] = iter'[v]
    BY <1>6, <2>3
  <2> QED BY <2>2, <2>5, <2>6, FS_EmptySet DEF BSPCounts, At
<1>10. CASE ctl.bsp.push_count_ + 1 # ctl.num_local_workers_
  <2>1. ctl' = [ctl EXCEPT !.bsp.push_count_ = @ + 1]
    BY <1>10 DEF BSPAfterPush
  <2>2. ctl' \in Controllers /\ ~ctl'.bsp.reply_phase_
        /\ ctl'.bsp.push_count_ = Cardinality(HavePushed')
        /\ ctl'.bsp.pull_count_ = 0 /\ ctl'.num_local_workers_ = Cardinality(Threads)
    <3> DEFINE b == [ctl.bsp EXCEPT !.push_count_ = @ + 1]
    <3>1. ctl.bsp \in [push_count_ : Nat, pull_count_ : Nat, reply_phase_ : BOOLEAN]
      BY <1>3 DEF Controllers
    <3>2. /\ b \in [push_count_ : Nat, pull_count_ : Nat, reply_phase_ : BOOLEAN]
          /\ b.push_count_ = ctl.bsp.push_count_ + 1 /\ b.pull_count_ = ctl.bsp.pull_count_
          /\ b.reply_phase_ = ctl.bsp.reply_phase_
      BY <3>1
    <3>3. ctl' = [ctl EXCEPT !.bsp = b]
      BY <1>3, <2>1 DEF Controllers
    <3> HIDE DEF b
    <3>4. ctl' \in Controllers /\ ctl'.bsp = b
          /\ ctl'.num_local_workers_ = ctl.num_local_workers_
      BY <1>3, <3>2, <3>3 DEF Controllers
    <3> QED BY <1>3, <1>5, <3>2, <3>4
  <2>3. \A u, v \in Threads : (u \in HavePushed' <=> v \in HavePushed') => iter'[u] = iter'[v]
    BY <1>6, <1>7
  <2>4. \A u \in HavePushed', v \in Threads \ HavePushed' : iter'[u] = iter'[v] + 1
    BY <1>6, <1>7
  <2> QED BY <1>8, <2>2, <2>3, <2>4 DEF BSPCounts
<1> QED BY <1>9, <1>10

\* min_clock_ moves when the last thread leaves it behind
\* (SSPConsistencyController::AfterPush).
LEMMA SSPPushed ==
  ASSUME TypeOK, SSPClocks, protocol = "SSP", th[Leader].pc \in Looping,
         NEW t \in Threads, Moves(t, "idle"), iter[t] <= MaxIter,
         UNCHANGED table, iter' = [iter EXCEPT ![t] = @ + 1], ctl' = SSPAfterPush(ctl, t)
  PROVE  ctl' \in Controllers /\ SSPClocks'
<1> DEFINE n == iter[t]
           m == ctl.ssp.min_clock_
           count == ctl.ssp.clock_count_
           full == n = m /\ count[n] + 1 = ctl.num_local_workers_
           Ahead(k) == {u \in Threads : iter[u] > k}
<1>1. \A u \in Threads : th'[u].pc = IF u = t THEN "idle" ELSE th[u].pc
  BY DEF Moves
<1>2. \A u \in Threads : iter[u] \in Nat /\ iter'[u] = IF u = t THEN n + 1 ELSE iter[u]
  BY DEF TypeOK
<1>3. n \in 0 .. MaxIter /\ MaxIter \in Nat /\ n \in Nat
  BY <1>2, ThreadsAssumption
<1>4. /\ ctl \in Controllers /\ ctl.num_local_workers_ = Cardinality(Threads)
      /\ ctl.ssp.worker_progress_ = iter
      /\ \A k \in 0 .. MaxIter : count[k] = Cardinality(Ahead(k))
      /\ \A u \in Threads : m <= iter[u]
      /\ \A u \in Threads : th[u].pc \in Training \ {"before_pull"} => iter[u] <= m + staleness_
  BY DEF TypeOK, SSPClocks
<1>5. m \in Nat /\ count \in [0 .. MaxIter -> Nat]
  BY <1>4 DEF Controllers
<1>6. PICK m2 : m2 = IF full THEN m + 1 ELSE m
  OBVIOUS
<1>7. ctl' = [ctl EXCEPT !.ssp.clock_count_[n] = @ + 1,
                         !.ssp.worker_progress_[t] = @ + 1,
                         !.ssp.min_clock_ = IF full THEN @ + 1 ELSE @,
                         !.asleep = IF full THEN {} ELSE @]
  BY <1>4 DEF SSPAfterPush
<1>8. /\ ctl' \in Controllers /\ ctl'.num_local_workers_ = Cardinality(Threads)
      /\ ctl'.ssp.worker_progress_ = iter'
      /\ ctl'.ssp.clock_count_ = [count EXCEPT ![n] = @ + 1]
      /\ ctl'.ssp.min_clock_ = m2
  <2> DEFINE S == [worker_progress_ : [Threads -> Nat], clock_count_ : [0 .. MaxIter -> Nat],
                   min_clock_ : Nat]
             s == [worker_progress_ |-> iter', clock_count_ |-> [count EXCEPT ![n] = @ + 1],
                   min_clock_ |-> m2]
  <2>1. ctl.ssp \in S
    BY <1>4 DEF Controllers
  <2>2. ctl.ssp = [worker_progress_ |-> iter, clock_count_ |-> count, min_clock_ |-> m]
    BY <1>4, <2>1
  <2>3. [ctl.ssp EXCEPT !.clock_count_[n] = @ + 1, !.worker_progress_[t] = @ + 1,
                        !.min_clock_ = IF full THEN @ + 1 ELSE @] = s
    <3>1. PICK p : p = ctl.ssp
      OBVIOUS
    <3>2. p = [worker_progress_ |-> iter, clock_count_ |-> count, min_clock_ |-> m]
      BY <2>2, <3>1
    <3>3. p.worker_progress_ = iter /\ p.clock_count_ = count /\ p.min_clock_ = m
      BY <3>2
    <3> HIDE DEF count, m, full
    <3>4. [p EXCEPT !.clock_count_[n] = @ + 1, !.worker_progress_[t] = @ + 1,
                    !.min_clock_ = IF full THEN @ + 1 ELSE @]
          = [worker_progress_ |-> [iter EXCEPT ![t] = @ + 1],
             clock_count_ |-> [count EXCEPT ![n] = @ + 1],
             min_clock_ |-> IF full THEN m + 1 ELSE m]
      <4>1. DOMAIN p = {"worker_progress_", "clock_count_", "min_clock_"}
        BY <3>2
      <4> HIDE DEF n
      <4>2. PICK c2, w2, k : /\ c2 = [count EXCEPT ![n] = @ + 1]
                             /\ w2 = [iter EXCEPT ![t] = @ + 1]
                             /\ k = IF full THEN m + 1 ELSE m
        OBVIOUS
      <4>3. [p EXCEPT !.clock_count_[n] = @ + 1, !.worker_progress_[t] = @ + 1,
                      !.min_clock_ = IF full THEN @ + 1 ELSE @]
            = [p EXCEPT !.clock_count_ = c2, !.worker_progress_ = w2, !.min_clock_ = k]
        BY <3>3, <4>2
      <4>4. PICK q : q = [p EXCEPT !.clock_count_ = c2, !.worker_progress_ = w2, !.min_clock_ = k]
        OBVIOUS
      <4>5. q.worker_progress_ = w2 /\ q.clock_count_ = c2 /\ q.min_clock_ = k
        BY <4>1, <4>4
      <4>6. q = [x \in {"worker_progress_", "clock_count_", "min_clock_"} |-> q[x]]
        BY <4>1, <4>4
      <4>7. q = [worker_progress_ |-> w2, clock_count_ |-> c2, min_clock_ |-> k]
        BY <4>5, <4>6
      <4> QED BY <4>2, <4>3, <4>4, <4>7
    <3> QED BY <1>6, <3>1, <3>4
  <2>4. iter' \in [Threads -> Nat] /\ [count EXCEPT ![n] = @ + 1] \in [0 .. MaxIter -> Nat]
        /\ m2 \in Nat
    <3>1. iter' \in [Threads -> Nat]
      BY <1>3 DEF TypeOK
    <3>2. [count EXCEPT ![n] = @ + 1] \in [0 .. MaxIter -> Nat]
      <4> HIDE DEF n, count
      <4> QED BY <1>3, <1>5
    <3>3. m2 \in Nat
      BY <1>5, <1>6
    <3> QED BY <3>1, <3>2, <3>3
  <2>5. s \in S
    BY <2>4
  <2>6. PICK a : a = IF full THEN {} ELSE ctl.asleep
    OBVIOUS
  <2>7. ctl' = [ctl EXCEPT !.ssp = s, !.asleep = a]
    <3>1. ctl' = [ctl EXCEPT !.ssp = [ctl.ssp EXCEPT !.clock_count_[n] = @ + 1,
                                        !.worker_progress_[t] = @ + 1,
                                        !.min_clock_ = IF full THEN @ + 1 ELSE @],
                             !.asleep = a]
      BY <1>4, <1>7, <2>6 DEF Controllers
    <3> QED BY <2>3, <3>1
  <2>8. a \in SUBSET Threads
    BY <1>4, <2>6 DEF Controllers
  <2>9. s.worker_progress_ = iter' /\ s.clock_count_ = [count EXCEPT ![n] = @ + 1]
        /\ s.min_clock_ = m2
    OBVIOUS
  <2> HIDE DEF s
  <2>10. ctl' \in Controllers /\ ctl'.ssp = s
         /\ ctl'.num_local_workers_ = ctl.num_local_workers_
    BY <1>4, <2>5, <2>7, <2>8 DEF Controllers
  <2> QED BY <1>4, <2>9, <2>10
<1>9. \A k \in Nat : {u \in Threads : iter'[u] > k} = IF k = n THEN Ahead(k) \cup {t} ELSE Ahead(k)
  BY <1>2
<1>10. Ahead(n) \in SUBSET Threads /\ t \in Threads \ Ahead(n)
  BY <1>2
<1>11. \A k \in 0 .. MaxIter :
         ctl'.ssp.clock_count_[k] = Cardinality({u \in Threads : iter'[u] > k})
  <2> SUFFICES ASSUME NEW k \in 0 .. MaxIter
               PROVE  ctl'.ssp.clock_count_[k] = Cardinality({u \in Threads : iter'[u] > k})
    OBVIOUS
  <2>1. k \in Nat /\ count[k] = Cardinality(Ahead(k))
    BY <1>3, <1>4
  <2>2. ctl'.ssp.clock_count_[k] = IF k = n THEN count[k] + 1 ELSE count[k]
    BY <1>5, <1>8
  <2> HIDE DEF Ahead, n, count
  <2>3. CASE k = n
    BY <1>9, <1>10, <2>1, <2>2, <2>3, OneMore
  <2>4. CASE k # n
    BY <1>9, <2>1, <2>2, <2>4
  <2> QED BY <2>3, <2>4
<1>12. \A u \in Threads : m2 <= iter'[u]
  <2>1. CASE full
    <3>1. count[n] = Cardinality(Ahead(n)) /\ count[n] + 1 = Cardinality(Threads) /\ m2 = n + 1
      BY <1>3, <1>4, <1>6, <2>1
    <3> HIDE DEF Ahead, n, count, full
    <3>2. Ahead(n) \cup {t} = Threads
      BY <1>10, <3>1, OneMore
    <3>3. \A u \in Threads : iter'[u] > n
      BY <1>3, <1>9, <3>2
    <3> QED BY <1>2, <1>3, <3>1, <3>3
  <2>2. CASE ~full
    <3>1. m2 = m
      BY <1>6, <2>2
    <3> QED BY <1>2, <1>3, <1>4, <1>5, <3>1
  <2> QED BY <2>1, <2>2
<1>13. \A u \in Threads : th'[u].pc \in Training \ {"before_pull"} => iter'[u] <= m2 + staleness_
  <2> SUFFICES ASSUME NEW u \in Threads, th'[u].pc \in Training \ {"before_pull"}
               PROVE  iter'[u] <= m2 + staleness_
    OBVIOUS
  <2>1. u # t
    BY <1>1, Places
  <2>2. iter'[u] = iter[u] /\ iter[u] <= m + staleness_
    BY <1>1, <1>2, <1>4, <2>1
  <2>3. m2 \in Nat /\ m <= m2
    BY <1>5, <1>6
  <2> QED BY <1>2, <1>5, <2>2, <2>3 DEF staleness_
<1> QED BY <1>8, <1>11, <1>12, <1>13 DEF SSPClocks

LEMMA PushedStep ==
  ASSUME Inv, NEW t \in Threads, Pushed(t)
  PROVE  Inv'
<1> DEFINE l == "idle"
<1>1. TypeOK /\ Together /\ Fresh /\ BSPCounts /\ SSPClocks /\ ctl \in Controllers
  BY DEF Inv, TypeOK
<1>2. /\ th[t].pc = "write" /\ th' = [th EXCEPT ![t] = NewLocals(l)]
      /\ UNCHANGED <<table, kind, sent>> /\ iter' = [iter EXCEPT ![t] = @ + 1]
      /\ ctl' = AfterPush(protocol, ctl, t)
  BY DEF Pushed, At, run
<1>3. Moves(t, l)
  BY <1>1, <1>2, Locals, Assigned
<1>4. /\ "write" \in Training /\ "write" \in Looping /\ "write" \notin Barriers
      /\ l \notin Training /\ l \in Looping /\ l \in Labels /\ l \notin Barriers
      /\ l # "add"
  BY Places DEF Barriers
<1>5. Round(l) = Round("write") /\ Round(l) \notin {0, 1}
  BY <1>4, Rounds
<1>6. iter[t] < table.iters /\ iter[t] \in Nat
  BY <1>1, <1>2, <1>4 DEF Fresh, TypeOK
<1>7. iter[t] <= MaxIter
  BY <1>1, <1>6, Modes
<1>8. t \in Workers /\ Leader \in Workers /\ Workers \subseteq Threads
  BY <1>1, <1>2, AWorker, Modes
<1>9. th[Leader].pc \in Looping
  BY <1>2, <1>4, <1>8, AllLooping
<1>10. ctl' \in Controllers /\ BSPCounts' /\ SSPClocks'
  <2>1. CASE protocol = "BSP"
    <3>1. ctl' = BSPAfterPush(ctl)
      BY <1>2, <2>1 DEF AfterPush
    <3>2. SSPClocks'
      BY <1>2, <2>1 DEF SSPClocks, protocol
    <3> QED BY <1>1, <1>2, <1>3, <1>9, <2>1, <3>1, <3>2, BSPPushed
  <2>2. CASE protocol = "SSP"
    <3>1. ctl' = SSPAfterPush(ctl, t)
      BY <1>2, <2>2 DEF AfterPush
    <3>2. BSPCounts'
      BY <1>2, <2>2 DEF BSPCounts, protocol
    <3> QED BY <1>1, <1>2, <1>3, <1>7, <1>9, <2>2, <3>1, <3>2, SSPPushed
  <2>3. CASE protocol \notin {"BSP", "SSP"}
    BY <1>1, <1>2, <2>3 DEF AfterPush, BSPCounts, SSPClocks, protocol
  <2> QED BY <2>1, <2>2, <2>3
<1> HIDE DEF l
<1>11. TypeOK'
  <2>1. iter' \in [Threads -> Nat] /\ sent' \in SUBSET (Threads \ {Leader})
    BY <1>1, <1>2, <1>6 DEF TypeOK
  <2> QED BY <1>1, <1>2, <1>3, <1>4, <1>10, <2>1, TypeKept
<1>12. Together'
  BY <1>1, <1>2, <1>3, <1>4, <1>5, <1>8, TogetherKept
<1>13. Fresh'
  <2>1. th'[Leader].pc \notin {"sync", "load", "loaded"}
    <3>1. th'[Leader].pc \in {l, th[Leader].pc}
      BY <1>3, <1>8 DEF Moves
    <3> QED BY <1>4, <1>9, <3>1, Rounds
  <2>2. \A u \in Threads \ {t} : iter'[u] = iter[u]
    BY <1>1, <1>2 DEF TypeOK
  <2> QED BY <1>1, <1>2, <1>3, <1>4, <1>5, <2>1, <2>2, FreshKept
<1> QED BY <1>10, <1>11, <1>12, <1>13 DEF Inv

------------------------------------------------------------------------------
(* The barrier, the next epoch, and the theorems.                          *)

\* When the leader has collected as many messages as there are other threads,
\* every thread is at the leader's barrier.
LEMMA AllAtBarrier ==
  ASSUME Inv, Barrier
  PROVE  /\ Workers = Threads /\ table.mode_type # "Single"
         /\ th[Leader].pc \in Barriers
         /\ \A t \in Threads : th[t].pc = th[Leader].pc
         /\ sent \cup {Leader} = Threads
<1>1. TypeOK /\ Together /\ th[Leader].pc \in Barriers
  BY DEF Inv, Barrier
<1>2. table.mode_type # "Single" /\ Workers = Threads /\ Leader \in Threads
  BY <1>1, Modes DEF Together
<1>3. IsFiniteSet(Threads)
  BY ThreadsAssumption
<1>4. Cardinality(Threads \ {Leader}) = Cardinality(Threads) - 1 /\ IsFiniteSet(Threads \ {Leader})
  BY <1>2, <1>3, FS_RemoveElement
<1>5. Cardinality(sent) = Cardinality(Threads \ {Leader})
  BY <1>2, <1>4 DEF Barrier, CollectedAll
<1>6. sent \in SUBSET (Threads \ {Leader})
  BY <1>1 DEF TypeOK
<1>7. sent = Threads \ {Leader}
  BY <1>4, <1>5, <1>6, FS_Subset
<1>8. \A t \in Threads : th[t].pc \in Barriers
  BY <1>1, <1>7 DEF Together
<1>9. \A t \in Threads : Round(th[t].pc) = Round(th[Leader].pc)
  BY <1>1, <1>2 DEF Together
<1>10. \A b, c \in Barriers : Round(b) = Round(c) => b = c
  <2>1. Round("sync") = 0 /\ Round("loaded") = 1 /\ Round("finished") = 2
        /\ Round("dumped") = 3 /\ Round("leave") = 4
    BY Rounds, Places
  <2> QED BY <2>1 DEF Barriers
<1> QED BY <1>1, <1>2, <1>7, <1>8, <1>9, <1>10

\* A controller nobody has used yet agrees with threads that have done nothing.
LEMMA FreshCounts ==
  ASSUME iter' \in [Threads -> Nat], Workers' = Threads, ctl' = NewController(Workers)',
         \A t \in Threads : th'[t].pc = "idle" /\ iter'[t] = 0
  PROVE  BSPCounts' /\ SSPClocks'
<1>1. /\ ctl'.num_local_workers_ = Cardinality(Threads)
      /\ ctl'.bsp = BSPFields /\ ctl'.ssp = SSPFields
  BY DEF NewController, BSPFields, SSPFields
<1>2. HavePulled' = {}
  BY DEF HavePulled, At
<1>3. "idle" \notin Training
  BY Places
<1>4. BSPCounts'
  BY <1>1, <1>2, FS_EmptySet DEF BSPCounts, BSPFields, At
<1>5. iter' = [t \in Threads |-> 0]
  OBVIOUS
<1>6. ctl'.ssp.worker_progress_ = iter' /\ ctl'.ssp.min_clock_ = 0
      /\ \A k \in 0 .. MaxIter : ctl'.ssp.clock_count_[k] = 0
  BY <1>1, <1>5 DEF SSPFields
<1>7. \A k \in 0 .. MaxIter :
        ctl'.ssp.clock_count_[k] = Cardinality({t \in Threads : iter'[t] > k})
  <2> SUFFICES ASSUME NEW k \in 0 .. MaxIter
               PROVE  ctl'.ssp.clock_count_[k] = Cardinality({t \in Threads : iter'[t] > k})
    OBVIOUS
  <2>1. k \in Nat
    BY ThreadsAssumption
  <2>2. \A t \in Threads : ~(iter'[t] > k)
    BY <2>1
  <2>3. {t \in Threads : iter'[t] > k} = {}
    BY <2>2
  <2> QED BY <1>6, <2>3, FS_EmptySet
<1>8. SSPClocks'
  BY <1>1, <1>3, <1>6, <1>7 DEF SSPClocks
<1> QED BY <1>4, <1>8

LEMMA BarrierStep ==
  ASSUME Inv, Barrier
  PROVE  Inv'
<1>1. PICK b \in Barriers : b = th[Leader].pc
  BY AllAtBarrier
<1>2. /\ Workers = Threads /\ table.mode_type # "Single" /\ sent \cup {Leader} = Threads
      /\ \A t \in Threads : th[t].pc = b
  BY <1>1, AllAtBarrier
<1>3. sent' = {} /\ UNCHANGED <<table, kind, ctl, iter>>
      /\ th' = [t \in Threads |-> IF t \in sent \cup {Leader}
                                  THEN [th[t] EXCEPT !.pc = After(t, @)] ELSE th[t]]
  BY DEF Barrier, run
<1>4. TypeOK /\ Fresh
  BY DEF Inv
<1>5. /\ DOMAIN th' = Threads
      /\ \A t \in Threads : DOMAIN th'[t] = Fields /\ th'[t].pc = After(t, b)
  <2>1. "pc" \in Fields /\ \A t \in Threads : DOMAIN th[t] = Fields
    BY <1>4, Locals DEF TypeOK, Fields
  <2>2. \A t \in Threads : th'[t] = [th[t] EXCEPT !.pc = After(t, b)]
    BY <1>2, <1>3
  <2> QED BY <1>3, <2>1, <2>2
<1>6. Leader \in Threads
  BY <1>4, Modes
<1>7. /\ b = "sync" => \A t \in Threads : After(t, b) \in {"load", "loaded"}
      /\ b = "loaded" => \A t \in Threads : After(t, b) = "idle"
      /\ b = "finished" => \A t \in Threads : After(t, b) \in {"dump", "dumped"}
      /\ b = "dumped" => \A t \in Threads : After(t, b) = "leave"
      /\ b = "leave" => \A t \in Threads : After(t, b) \in {"delete", "done"}
  BY DEF After
<1>8. b \in {"sync", "loaded", "finished", "dumped", "leave"}
  BY <1>1 DEF Barriers
<1> HIDE DEF After
<1>9. \A t \in Threads : th'[t].pc \in {"load", "loaded", "idle", "dump", "dumped", "leave",
                                        "delete", "done"}
  BY <1>5, <1>7, <1>8
<1>10. \A t \in Threads : /\ th'[t].pc \in Labels /\ th'[t].pc \notin Training
                          /\ th'[t].pc # "add"
  BY <1>9 DEF Labels, Looping, Training
<1>11. TypeOK'
  BY <1>3, <1>4, <1>5, <1>10 DEF TypeOK, Fields, Leader
<1>12. Workers' = Workers /\ Leader' = Leader /\ NewController(Workers)' = NewController(Workers)
  BY <1>3 DEF Workers, Leader, NewController, BSPFields, SSPFields
<1>13. \A t \in Threads : Round(th'[t].pc) =
         CASE b = "sync" -> 1 [] b = "loaded" -> 2 [] b = "finished" -> 3
           [] b = "dumped" -> 4 [] b = "leave" -> 5
  BY <1>5, <1>7, <1>8, Rounds, Places
<1>14. Together'
  <2>1. \A t, u \in Threads : Round(th'[t].pc) = Round(th'[u].pc)
    BY <1>13
  <2> QED BY <1>2, <1>3, <1>12, <2>1 DEF Together, Round
<1>15. b = "sync" \/ b = "loaded" => (\A t \in Threads : iter[t] = 0) /\ ctl = NewController(Workers)
  BY <1>1, <1>2, <1>4, <1>6, Rounds DEF Fresh
<1>16. Fresh'
  <2>1. \A t \in Threads : Round(th'[t].pc) \in {0, 1} => iter'[t] = 0
    BY <1>3, <1>8, <1>13, <1>15
  <2>2. th'[Leader].pc \in {"sync", "load", "loaded"} => ctl' = NewController(Workers)
    BY <1>3, <1>5, <1>6, <1>7, <1>8, <1>15
  <2> QED BY <1>2, <1>10, <1>12, <2>1, <2>2 DEF Fresh, At, Round
<1>17. BSPCounts' /\ SSPClocks'
  <2>1. CASE b = "loaded"
    <3>1. \A t \in Threads : th'[t].pc = "idle" /\ iter'[t] = 0
      BY <1>3, <1>5, <1>7, <1>15, <2>1
    <3>2. ctl' = NewController(Workers)' /\ Workers' = Threads
      BY <1>2, <1>3, <1>12, <1>15, <2>1
    <3>3. iter' \in [Threads -> Nat]
      BY <1>11 DEF TypeOK
    <3> QED BY <3>1, <3>2, <3>3, FreshCounts
  <2>2. CASE b # "loaded"
    <3>1. Round(th'[Leader].pc) # 2
      BY <1>6, <1>8, <1>13, <2>2
    <3>2. th'[Leader].pc \notin Looping
      BY <3>1, Rounds
    <3> QED BY <3>2 DEF BSPCounts, SSPClocks, Leader
  <2> QED BY <2>1, <2>2
<1> QED BY <1>11, <1>14, <1>16, <1>17 DEF Inv

LEMMA NextEpochStep ==
  ASSUME Inv, NextEpoch
  PROVE  Inv'
<1>1. TypeOK /\ Together /\ Fresh
  BY DEF Inv
<1>2. /\ \A t \in Threads : th[t].pc = "done"
      /\ th' = [t \in Threads |-> IF t \in Workers THEN NewLocals("construct") ELSE th[t]]
      /\ iter' = [t \in Threads |-> 0]
      /\ UNCHANGED <<kind, table, ctl, sent>>
  BY DEF NextEpoch, At
<1>3. Workers \subseteq Threads /\ Leader \in Workers
  BY <1>1, Modes
<1>4. \A t \in Threads : /\ DOMAIN th'[t] = Fields
                         /\ th'[t].pc = IF t \in Workers THEN "construct" ELSE "done"
  BY <1>1, <1>2, Locals DEF TypeOK, Fields
<1>5. /\ {"construct", "done"} \subseteq Labels
      /\ {"construct", "done"} \cap Barriers = {} /\ {"construct", "done"} \cap Training = {}
      /\ "construct" \notin Looping
  BY DEF Labels, Looping, Barriers, Training
<1>6. Workers' = Workers /\ Leader' = Leader /\ sent = {}
  BY <1>1, <1>2, <1>5 DEF Workers, Leader, Together, TypeOK
<1>7. TypeOK'
  BY <1>1, <1>2, <1>4, <1>5 DEF TypeOK, Fields, Leader
<1>8. Together'
  <2>1. \A t, u \in Workers : Round(th'[t].pc) = Round(th'[u].pc)
    BY <1>3, <1>4
  <2>2. \A t \in Threads \ Workers : th'[t].pc = "done"
    BY <1>4
  <2>3. th'[Leader].pc \notin Barriers
    BY <1>3, <1>4, <1>5
  <2> QED BY <1>2, <1>6, <2>1, <2>2, <2>3 DEF Together, At, Round
<1>9. Fresh'
  <2>1. \A t \in Threads : iter'[t] = 0 /\ th'[t].pc \notin Training /\ th'[t].pc # "add"
    BY <1>2, <1>4, <1>5
  <2>2. th'[Leader].pc = "construct"
    BY <1>3, <1>4
  <2> QED BY <1>3, <1>6, <2>1, <2>2 DEF Fresh, At
<1>10. th'[Leader].pc \notin Looping
  BY <1>3, <1>4, <1>5
<1>11. BSPCounts' /\ SSPClocks'
  BY <1>10 DEF BSPCounts, SSPClocks, Leader
<1> QED BY <1>7, <1>8, <1>9, <1>11 DEF Inv

LEMMA Initially ==
  ASSUME Init
  PROVE  Inv
<1>1. /\ table \in Tables /\ kind = ModelOf(table) /\ ctl = NewController(Workers)
      /\ th = [t \in Threads |-> NewLocals(IF t \in Workers THEN "construct" ELSE "done")]
      /\ iter = [t \in Threads |-> 0] /\ sent = {}
  BY DEF Init
<1>2. 0 \in Threads /\ IsFiniteSet(Threads) /\ MaxIter \in Nat
  BY ThreadsAssumption
<1>3. Workers \subseteq Threads /\ Leader \in Workers
  BY <1>2 DEF Workers, Leader
<1>4. \A t \in Threads : /\ DOMAIN th[t] = Fields
                         /\ th[t].pc = IF t \in Workers THEN "construct" ELSE "done"
  BY <1>1, Locals
<1>5. /\ {"construct", "done"} \subseteq Labels
      /\ {"construct", "done"} \cap Barriers = {} /\ {"construct", "done"} \cap Training = {}
      /\ "construct" \notin Looping
  BY DEF Labels, Looping, Barriers, Training
<1>6. ctl \in Controllers
  <2>1. IsFiniteSet(Workers)
    BY <1>2, <1>3, FS_Subset
  <2>2. Cardinality(Workers) \in Nat
    BY <2>1, FS_CardinalityType
  <2> QED BY <1>1, <2>2 DEF NewController, BSPFields, SSPFields, Controllers
<1>7. TypeOK
  BY <1>1, <1>4, <1>5, <1>6 DEF TypeOK, Fields
<1>8. Together
  <2>1. \A t, u \in Workers : th[t].pc = th[u].pc
    BY <1>3, <1>4
  <2> QED BY <1>1, <1>3, <1>4, <1>5, <2>1 DEF Together, At
<1>9. Fresh
  <2>1. \A t \in Threads : iter[t] = 0 /\ th[t].pc \notin Training /\ th[t].pc # "add"
    BY <1>1, <1>4, <1>5
  <2>2. th[Leader].pc = "construct"
    BY <1>3, <1>4
  <2> QED BY <1>3, <2>1, <2>2 DEF Fresh, At
<1>10. th[Leader].pc \notin Looping
  BY <1>3, <1>4, <1>5
<1> QED BY <1>7, <1>8, <1>9, <1>10 DEF Inv, BSPCounts, SSPClocks

\* What the transfer of the model and a stuttering step leave alone.
LEMMA Unmoved ==
  ASSUME Inv, UNCHANGED <<kind, th, table, ctl, iter, sent>>
  PROVE  Inv'
BY DEF Inv, TypeOK, Together, Fresh, BSPCounts, SSPClocks, Workers, Leader, protocol,
       HavePulled, HavePushed, At, Round

\* The rounds of an epoch and the counters of the controllers: the inductive
\* invariant of the threads of ml/mlworker/{spmt,hogwild,single}.hpp, whatever
\* the table, the number of threads and the interleaving.
THEOREM Invariance == Spec => []Inv
<1>1. Init => Inv
  BY Initially
<1>2. Inv /\ [Next]_vars => Inv'
  <2> SUFFICES ASSUME Inv, [Next]_vars PROVE Inv'
    OBVIOUS
  <2>1. ASSUME NEW t \in Threads, Step(t) PROVE Inv'
    BY <2>1, SendStep, ConstructStep, LoadStep, FinishStep, DumpStep, DeleteStep, RequestStep,
       BeforePullStep, WorkStep, PulledStep, BeforePushStep, PushedStep DEF Step
  <2>2. CASE Barrier
    BY <2>2, BarrierStep
  <2>3. CASE NextEpoch
    BY <2>3, NextEpochStep
  <2>4. CASE SendModel
    BY <2>4, Unmoved DEF SendModel, run
  <2>5. CASE Finished \/ UNCHANGED vars
    BY <2>5, Unmoved DEF Finished, vars
  <2> QED BY <2>1, <2>2, <2>3, <2>4, <2>5 DEF Next
<1> QED BY <1>1, <1>2, PTL DEF Spec

\* The leader has the model to itself while it creates, loads, dumps and
\* deletes it, and the controllers of ml/consistency/ pace the threads, for
\* every number of threads and of iterations.
THEOREM KeepInStep == Spec => []InStep
<1>1. Inv => InStep
  <2> SUFFICES ASSUME Inv PROVE LeaderAlone /\ Paced
    BY DEF InStep
  <2>1. TypeOK /\ Together /\ Fresh /\ BSPCounts /\ SSPClocks
    BY DEF Inv
  <2>2. Leader \in Workers /\ Workers \subseteq Threads
        /\ (protocol \in {"BSP", "SSP"} => Workers = Threads /\ table.mode_type = "SPMT")
    BY <2>1, Modes
  <2>3. ASSUME NEW t \in Threads, th[t].pc \in Training
        PROVE  th[Leader].pc \in Looping
    <3>1. th[t].pc \in Looping /\ th[t].pc # "done"
      BY <2>3, Places DEF Training
    <3> QED BY <2>2, <3>1, AWorker, AllLooping
  <2>4. LeaderAlone
    <3> SUFFICES ASSUME NEW t \in Threads, th[t].pc \in Training
                 PROVE  /\ th[Leader].pc \notin {"construct", "sync", "load", "dump",
                                                 "delete", "done"}
                        /\ t \notin sent
      BY DEF LeaderAlone
    <3>1. Round(th[Leader].pc) = 2
      BY <2>3, Rounds
    <3>2. t \notin sent
      BY <2>1, Places DEF Together
    <3> QED BY <3>1, <3>2, Rounds
  <2>5. Paced
    <3> SUFFICES ASSUME NEW t \in Workers, NEW u \in Workers
                 PROVE  /\ protocol = "BSP"
                             /\ th[t].pc \in Training \ {"before_pull", "before_push", "write"}
                             => iter[u] = iter[t] /\ ~At(u, "write")
                        /\ protocol = "SSP" /\ th[t].pc \in Training \ {"before_pull"}
                             => iter[t] <= iter[u] + staleness_
      BY DEF Paced
    <3>1. ASSUME protocol = "BSP",
                 th[t].pc \in Training \ {"before_pull", "before_push", "write"}
          PROVE  iter[u] = iter[t] /\ ~At(u, "write")
      <4>1. th[Leader].pc \in Looping
        BY <2>2, <2>3, <3>1
      <4>2. th[t].pc \in Pulling
        BY <2>1, <2>2, <3>1 DEF Pulling, Fresh, At
      <4>3. ctl.bsp.reply_phase_
        BY <2>1, <2>2, <3>1, <4>1, <4>2 DEF BSPCounts
      <4> QED BY <2>1, <2>2, <3>1, <4>1, <4>3 DEF BSPCounts
    <3>2. ASSUME protocol = "SSP", th[t].pc \in Training \ {"before_pull"}
          PROVE  iter[t] <= iter[u] + staleness_
      <4>1. th[Leader].pc \in Looping
        BY <2>2, <2>3, <3>2
      <4>2. ctl.ssp.min_clock_ <= iter[u] /\ iter[t] <= ctl.ssp.min_clock_ + staleness_
        BY <2>1, <2>2, <3>2, <4>1 DEF SSPClocks
      <4>3. iter[t] \in Nat /\ iter[u] \in Nat /\ ctl.ssp.min_clock_ \in Nat
        BY <2>1, <2>2 DEF TypeOK, Controllers
      <4> QED BY <4>2, <4>3 DEF staleness_
    <3> QED BY <3>1, <3>2
  <2> QED BY <2>4, <2>5
<1> QED BY <1>1, Invariance, PTL

------------------------------------------------------------------------------
(* The model and its cache.  A step of one thread replaces its locals and   *)
(* touches chunks that are free or its own; the lemmas of this section say  *)
(* what then remains to be shown of each part of the invariant.             *)

LEMMA Least ==
  ASSUME NEW S \in SUBSET Nat, S # {}
  PROVE  \E a \in S : \A b \in S : a <= b
<1>1. PICK a \in S : \A b \in S : ~(<<b, a>> \in OpToRel(<, Nat))
  BY NatLessThanWellFounded, WFMin
<1>2. \A b \in S : ~(b < a)
  BY <1>1 DEF OpToRel
<1> QED BY <1>2

\* The chunk a loop visits next is one of those it has yet to visit.
LEMMA NextChunk ==
  ASSUME NEW S \in SUBSET Chunks, S # {}
  PROVE  Min(S) \in S
<1>1. S \in SUBSET Nat
  BY ChunksAssumption
<1>2. \E a \in S : \A b \in S : a <= b
  BY <1>1, Least
<1> QED BY <1>2 DEF Min

\* What no step of a thread in Pull or Push changes.
Same == UNCHANGED <<kind, api, limits, table, kv, order, store, mailbox, epoch, unsaved>>

LEMMA NobodyFree ==
  Free \notin Threads /\ Free = -1 /\ None = -1
BY ThreadsAssumption DEF Free, None

LEMMA Replaced ==
  ASSUME ModelTyped, NEW t \in Threads, NEW l \in LocalState, th' = [th EXCEPT ![t] = l]
  PROVE  /\ th' \in [Threads -> LocalState] /\ th'[t] = l
         /\ \A u \in Threads \ {t} : th'[u] = th[u]
         /\ th \in [Threads -> LocalState]
BY DEF ModelTyped

LEMMA Limited ==
  ASSUME ModelTyped
  PROVE  /\ limits.cache_threshold_ \in Nat /\ limits.num_dumps \in Nat
         /\ limits.num_dumps = table.num_dumps /\ table.request \in Nat \ {0}
<1>1. {table.cache_threshold_, table.num_dumps} \subseteq Nat /\ table.request \in Nat \ {0}
  BY WorkersAssumption DEF ModelTyped
<1> QED BY <1>1 DEF ModelTyped

LEMMA TypedFrame ==
  ASSUME ModelTyped, NEW t \in Threads, NEW l \in LocalState, th' = [th EXCEPT ![t] = l], Same,
         model' \in Models, applied' \in [Chunks -> Nat], Placed(l),
         lost' = lost \/ lost' \subseteq Chunks
  PROVE  ModelTyped'
<1>1. th' \in [Threads -> LocalState] /\ th'[t] = l /\ \A u \in Threads \ {t} : th'[u] = th[u]
  BY Replaced
<1>2. \A u \in Threads : Placed(th[u])
  BY DEF ModelTyped
<1>3. ASSUME NEW u \in Threads PROVE Placed(th[u])'
  <2>1. Placed(th'[u])
    BY <1>1, <1>2
  <2> QED BY <2>1 DEF Placed, Same, Replacing
<1> QED BY <1>1, <1>3 DEF ModelTyped, Same

\* What a step may do to the lock, the flag and the content of a chunk, and to
\* its pins, where its thread t comes to have the locals l.
LockStep(t, l, c) ==
  /\ model.mtx_[c] \notin {Free, t} =>
       /\ model'.mtx_[c] = model.mtx_[c]
       /\ model'.is_cached_[c] = model.is_cached_[c]
       /\ model'.params_[c] # None <=> model.params_[c] # None
  /\ model.mtx_[c] \in {Free, t} => model'.mtx_[c] \in {Free, t}
  /\ model'.mtx_[c] = t <=> c \in Held(l)
  /\ model'.mtx_[c] = t => Fits(model', l, c)
  /\ kind # "Integral" /\ model'.mtx_[c] = Free =>
       (model'.is_cached_[c] <=> model'.params_[c] # None)

PinStep(t, l, c) ==
  model'.prepare_count_[c] =
    IF c \in Passed(l) /\ c \notin Passed(th[t]) THEN model.prepare_count_[c] + 1
    ELSE IF c \notin Passed(l) /\ c \in Passed(th[t]) THEN model.prepare_count_[c] - 1
    ELSE model.prepare_count_[c]

LEMMA LocksFrame ==
  ASSUME ModelTyped, LocksKept, NEW t \in Threads, NEW l \in LocalState,
         th' = [th EXCEPT ![t] = l], model' \in Models, UNCHANGED <<kind, api>>,
         \A c \in Chunks : LockStep(t, l, c)
  PROVE  LocksKept'
<1>1. th' \in [Threads -> LocalState] /\ th'[t] = l /\ \A u \in Threads \ {t} : th'[u] = th[u]
  BY Replaced
<1>2. model \in Models
  BY DEF ModelTyped
<1> SUFFICES ASSUME NEW c \in Chunks
             PROVE  /\ \A u \in Threads : /\ model'.mtx_[c] = u <=> c \in Held(th'[u])
                                          /\ model'.mtx_[c] = u => Fits(model', th'[u], c)
                    /\ kind # "Integral" /\ model'.mtx_[c] = Free =>
                         (model'.is_cached_[c] <=> model'.params_[c] # None)
  BY DEF LocksKept, Held, Missing, Brought, Chosen, Evicted, Fits
<1>3. /\ model.mtx_[c] \in Threads \union {Free} /\ model'.mtx_[c] \in Threads \union {Free}
      /\ Free \notin Threads
  BY <1>2, NobodyFree DEF Models
<1>4. \A u \in Threads : /\ model.mtx_[c] = u <=> c \in Held(th[u])
                         /\ model.mtx_[c] = u => Fits(model, th[u], c)
  BY DEF LocksKept
<1>5. ASSUME NEW u \in Threads, u # t
      PROVE  /\ model'.mtx_[c] = u <=> c \in Held(th'[u])
             /\ model'.mtx_[c] = u => Fits(model', th'[u], c)
  <2>1. th'[u] = th[u]
    BY <1>1, <1>5
  <2>2. model'.mtx_[c] = u <=> model.mtx_[c] = u
    BY <1>3, <1>5 DEF LockStep
  <2>3. model'.mtx_[c] = u => Fits(model', th[u], c)
    BY <1>3, <1>4, <1>5, <2>2 DEF Fits, LockStep
  <2> QED BY <1>4, <2>1, <2>2, <2>3
<1> QED BY <1>1, <1>5 DEF LockStep

LEMMA WantedFrame ==
  ASSUME ModelTyped, Wanted, NEW t \in Threads, NEW l \in LocalState,
         th' = [th EXCEPT ![t] = l], UNCHANGED <<kind, api>>,
         \A c \in Chunks : Ready(c) => \/ Ready(c)'
                                       \/ \A u \in Threads \ {t} : c \notin Passed(th[u]),
         kind # "Integral" => \A c \in Passed(l) :
           \/ Ready(c)'
           \/ c \in Missing(l) \union Brought(l)
           \/ l.pc \in Filling /\ c \in l.check /\ ~Replacing
  PROVE  Wanted'
<1>1. th' \in [Threads -> LocalState] /\ th'[t] = l /\ \A u \in Threads \ {t} : th'[u] = th[u]
  BY Replaced
<1> SUFFICES ASSUME kind # "Integral", NEW u \in Threads, NEW c \in Passed(th'[u])
             PROVE  \/ Ready(c)'
                    \/ c \in Missing(th'[u]) \union Brought(th'[u])
                    \/ th'[u].pc \in Filling /\ c \in th'[u].check /\ ~Replacing
  BY DEF Wanted, Passed, Missing, Brought, Replacing
<1>2. CASE u = t
  BY <1>1, <1>2
<1>3. CASE u # t
  <2>1. th'[u] = th[u]
    BY <1>1, <1>3
  <2>2. \/ Ready(c)
        \/ c \in Missing(th[u]) \union Brought(th[u])
        \/ th[u].pc \in Filling /\ c \in th[u].check /\ ~Replacing
    BY <2>1 DEF Wanted
  <2>3. c \in Chunks
    BY <2>1 DEF ModelTyped, LocalState, Passed
  <2>4. CASE Ready(c)
    BY <1>3, <2>1, <2>3, <2>4
  <2> QED BY <2>1, <2>2, <2>4
<1> QED BY <1>2, <1>3

LEMMA CheckedFrame ==
  ASSUME ModelTyped, Checked, NEW t \in Threads, NEW l \in LocalState,
         th' = [th EXCEPT ![t] = l], UNCHANGED <<kind, api>>,
         ~Replacing => \A c \in Chunks :
           model.is_cached_[c] \/ model.mtx_[c] # Free =>
             model'.is_cached_[c] \/ model'.mtx_[c] # Free,
         ~Replacing => \A c \in l.check : model'.is_cached_[c] \/ model'.mtx_[c] # Free
  PROVE  Checked'
<1>1. th' \in [Threads -> LocalState] /\ th'[t] = l /\ \A u \in Threads \ {t} : th'[u] = th[u]
  BY Replaced
<1> SUFFICES ASSUME NEW u \in Threads, NEW c \in th'[u].check, ~Replacing
             PROVE  model'.is_cached_[c] \/ model'.mtx_[c] # Free
  BY DEF Checked, Replacing
<1>2. CASE u = t
  BY <1>1, <1>2
<1>3. CASE u # t
  <2>1. c \in th[u].check
    BY <1>1, <1>3
  <2>2. c \in Chunks
    BY <2>1 DEF ModelTyped, LocalState
  <2> QED BY <2>1, <2>2 DEF Checked
<1> QED BY <1>2, <1>3

LEMMA PinnedFrame ==
  ASSUME ModelTyped, Pinned, NEW t \in Threads, NEW l \in LocalState,
         th' = [th EXCEPT ![t] = l], UNCHANGED <<kind, api>>,
         Replacing => \A c \in Chunks : PinStep(t, l, c)
  PROVE  Pinned'
<1>1. th' \in [Threads -> LocalState] /\ th'[t] = l /\ \A u \in Threads \ {t} : th'[u] = th[u]
  BY Replaced
<1> DEFINE S(c) == {u \in Threads : c \in Passed(th[u])}
           T(c) == {u \in Threads : c \in Passed(th'[u])}
<1> SUFFICES ASSUME Replacing, NEW c \in Chunks
             PROVE  model'.prepare_count_[c] = Cardinality(T(c))
  BY DEF Pinned, Passed, Replacing
<1>2. model.prepare_count_[c] = Cardinality(S(c))
  BY DEF Pinned
<1>3. T(c) \ {t} = S(c) \ {t}
  BY <1>1
<1>4. t \in S(c) <=> c \in Passed(th[t])
  OBVIOUS
<1>5. t \in T(c) <=> c \in Passed(l)
  BY <1>1
<1>6. S(c) \in SUBSET Threads /\ T(c) \in SUBSET Threads
  OBVIOUS
<1> HIDE DEF S, T
<1>7. CASE t \in T(c) /\ t \notin S(c)
  <2>1. T(c) = S(c) \union {t}
    BY <1>3, <1>7
  <2>2. Cardinality(S(c) \union {t}) = Cardinality(S(c)) + 1
    BY <1>6, <1>7, OneMore
  <2> QED BY <1>2, <1>4, <1>5, <1>7, <2>1, <2>2 DEF PinStep
<1>8. CASE t \notin T(c) /\ t \in S(c)
  <2>1. S(c) = T(c) \union {t}
    BY <1>3, <1>8
  <2>2. Cardinality(T(c) \union {t}) = Cardinality(T(c)) + 1 /\ Cardinality(T(c)) \in Nat
    BY <1>6, <1>8, OneMore
  <2> QED BY <1>2, <1>4, <1>5, <1>8, <2>1, <2>2 DEF PinStep
<1>9. CASE t \in T(c) <=> t \in S(c)
  <2>1. T(c) = S(c)
    BY <1>3, <1>6, <1>9
  <2> QED BY <1>2, <1>4, <1>5, <1>9, <2>1 DEF PinStep
<1> QED BY <1>7, <1>8, <1>9

\* A chunk without pins is one that no thread has passed over.
LEMMA Unpinned ==
  ASSUME Pinned, Replacing, NEW c \in Chunks, model.prepare_count_[c] = 0
  PROVE  \A u \in Threads : c \notin Passed(th[u])
<1> DEFINE S == {u \in Threads : c \in Passed(th[u])}
<1>1. Cardinality(S) = 0
  BY DEF Pinned
<1>2. IsFiniteSet(S)
  BY ThreadsAssumption, FS_Subset
<1>3. S = {}
  BY <1>1, <1>2, FS_EmptySet
<1> QED BY <1>3

LEMMA Exchange ==
  ASSUME NEW S \in SUBSET Chunks, NEW F \in SUBSET Chunks, NEW V \in SUBSET Chunks,
         V \subseteq S, F \intersect S = {}
  PROVE  /\ Cardinality((S \ V) \union F) = Cardinality(S) - Cardinality(V) + Cardinality(F)
         /\ Cardinality(S) \in Nat /\ Cardinality(V) \in Nat /\ Cardinality(F) \in Nat
<1> DEFINE D == S \ V
           U == D \union F
<1>1. IsFiniteSet(S) /\ IsFiniteSet(F) /\ IsFiniteSet(V) /\ IsFiniteSet(D)
  BY ChunksAssumption, FS_Subset
<1>2. S \intersect V = V /\ D \intersect F = {}
  OBVIOUS
<1>3. Cardinality(D) = Cardinality(S) - Cardinality(S \intersect V)
  BY <1>1, FS_Difference
<1> HIDE DEF D
<1>4. Cardinality(U) = Cardinality(D) + Cardinality(F) - Cardinality(D \intersect F)
  BY <1>1, FS_Union
<1> HIDE DEF U
<1>5. Cardinality(S) \in Nat /\ Cardinality(V) \in Nat /\ Cardinality(F) \in Nat
      /\ Cardinality(D) \in Nat
  BY <1>1, FS_CardinalityType
<1>6. Cardinality(D \intersect F) = 0
  BY <1>2, FS_EmptySet
<1>7. Cardinality(S \intersect V) = Cardinality(V)
  BY <1>2
<1>8. Cardinality(U) = Cardinality(S) - Cardinality(V) + Cardinality(F)
  BY <1>3, <1>4, <1>5, <1>6, <1>7
<1> QED BY <1>5, <1>8 DEF U, D

LEMMA CountFrame ==
  ASSUME ModelTyped, NumCached, UNCHANGED <<kind, api, table, limits>>,
         NEW F \in SUBSET Chunks, NEW V \in SUBSET Chunks,
         Replacing =>
           /\ \A c \in Chunks : /\ Counted(c)' <=> c \in F \/ (Counted(c) /\ c \notin V)
                                /\ c \in V => Counted(c)
                                /\ c \in F => ~Counted(c)
           /\ model'.num_cached_ = model.num_cached_ - Cardinality(V) + Cardinality(F)
           /\ Roomy => model'.num_cached_ <= limits.cache_threshold_
  PROVE  NumCached'
<1> DEFINE S == {c \in Chunks : Counted(c)}
           T == {c \in Chunks : Counted(c)'}
<1> SUFFICES ASSUME Replacing
             PROVE  model'.num_cached_ = Cardinality(T)
  BY DEF NumCached, Roomy, Replacing
<1>1. T = (S \ V) \union F /\ V \subseteq S /\ F \intersect S = {} /\ S \in SUBSET Chunks
  OBVIOUS
<1>2. model.num_cached_ = Cardinality(S)
  BY DEF NumCached
<1> HIDE DEF S, T
<1>3. /\ Cardinality((S \ V) \union F) = Cardinality(S) - Cardinality(V) + Cardinality(F)
      /\ Cardinality(S) \in Nat /\ Cardinality(V) \in Nat /\ Cardinality(F) \in Nat
  BY <1>1, Exchange
<1>4. Cardinality(T) = Cardinality(S) - Cardinality(V) + Cardinality(F)
  BY <1>1, <1>3
<1> QED BY <1>2, <1>4

\* The count does not change where it is the same chunks that are counted.
LEMMA SameCount ==
  ASSUME ModelTyped, NumCached, UNCHANGED <<kind, api, table, limits>>,
         Replacing =>
           /\ \A c \in Chunks : Counted(c)' <=> Counted(c)
           /\ model'.num_cached_ = model.num_cached_
  PROVE  NumCached'
<1> DEFINE E == {}
<1>1. Cardinality(E) = 0 /\ E \in SUBSET Chunks /\ \A c : c \notin E
  BY FS_EmptySet
<1> HIDE DEF E
<1>2. Replacing =>
        /\ \A c \in Chunks : /\ Counted(c)' <=> c \in E \/ (Counted(c) /\ c \notin E)
                             /\ c \in E => Counted(c)
                             /\ c \in E => ~Counted(c)
        /\ model'.num_cached_ = model.num_cached_ - Cardinality(E) + Cardinality(E)
        /\ Roomy => model'.num_cached_ <= limits.cache_threshold_
  BY <1>1 DEF NumCached, ModelTyped, Models
<1> QED BY <1>1, <1>2, CountFrame
\* A step that changes neither locks nor flags, nor what its thread holds.
LEMMA LocalStep ==
  ASSUME ModelTyped, FlagsInv, NEW t \in Threads, NEW l \in LocalState,
         th' = [th EXCEPT ![t] = l], Same, model' \in Models,
         model'.mtx_ = model.mtx_, model'.is_cached_ = model.is_cached_,
         model'.prepare_count_ = model.prepare_count_, model'.num_cached_ = model.num_cached_,
         \A c \in Chunks : model'.params_[c] # None <=> model.params_[c] # None,
         Missing(l) = Missing(th[t]), Brought(l) = Brought(th[t]),
         Chosen(l) = Chosen(th[t]), Evicted(l) = Evicted(th[t]),
         l.pc = "scan" <=> th[t].pc = "scan",
         kind # "Integral" => Passed(l) \subseteq Passed(th[t]),
         Replacing => Passed(l) = Passed(th[t]),
         l.check \subseteq th[t].check,
         \A c \in Passed(l) : th[t].pc \in Filling /\ c \in th[t].check /\ ~Replacing =>
                                (l.pc \in Filling /\ c \in l.check) \/ Ready(c)
  PROVE  FlagsInv'
<1>1. LocksKept /\ Wanted /\ Checked /\ Pinned /\ NumCached
  BY DEF FlagsInv
<1>2. kind' = kind /\ UNCHANGED <<kind, api, table, limits>>
  BY DEF Same
<1>3. model \in Models /\ th \in [Threads -> LocalState]
  BY DEF ModelTyped
<1>4. th'[t] = l /\ \A u \in Threads \ {t} : th'[u] = th[u]
  BY Replaced
<1>5. Held(l) = Held(th[t])
  BY DEF Held
<1>6. LocksKept'
  <2>1. ASSUME NEW c \in Chunks
        PROVE  /\ model.mtx_[c] = t <=> c \in Held(th[t])
               /\ model.mtx_[c] = t => Fits(model, th[t], c)
               /\ kind # "Integral" /\ model.mtx_[c] = Free =>
                    (model.is_cached_[c] <=> model.params_[c] # None)
    BY <1>1 DEF LocksKept
  <2>2. ASSUME NEW c \in Chunks
        PROVE  model'.mtx_[c] = t => Fits(model', l, c)
    BY <2>1 DEF Fits
  <2>3. ASSUME NEW c \in Chunks PROVE LockStep(t, l, c)
    BY <1>5, <2>1, <2>2 DEF LockStep
  <2> QED BY <1>1, <1>2, <2>3, LocksFrame
<1>7. \A c : Ready(c)' <=> Ready(c)
  BY DEF Ready
<1>8. Wanted'
  <2>1. ASSUME kind # "Integral", NEW c \in Passed(l)
        PROVE  \/ Ready(c)'
               \/ c \in Missing(l) \union Brought(l)
               \/ l.pc \in Filling /\ c \in l.check /\ ~Replacing
    <3>1. \/ Ready(c)
          \/ c \in Missing(th[t]) \union Brought(th[t])
          \/ th[t].pc \in Filling /\ c \in th[t].check /\ ~Replacing
      BY <1>1, <2>1 DEF Wanted
    <3> QED BY <1>7, <2>1, <3>1
  <2> QED BY <1>1, <1>2, <1>7, <2>1, WantedFrame
<1>9. Checked'
  <2>1. ~Replacing => \A c \in l.check : model'.is_cached_[c] \/ model'.mtx_[c] # Free
    BY <1>1 DEF Checked
  <2> QED BY <1>1, <1>2, <2>1, CheckedFrame
<1>10. Pinned'
  <2>1. Replacing => \A c \in Chunks : PinStep(t, l, c)
    BY DEF PinStep
  <2> QED BY <1>1, <1>2, <2>1, PinnedFrame
<1>11. NumCached'
  <2>1. ASSUME NEW c \in Chunks PROVE Counted(c)' <=> Counted(c)
    <3>1. model.mtx_[c] \in Threads \union {Free}
      BY <1>3 DEF Models
    <3> QED BY <1>4, <3>1 DEF Counted, At
  <2> QED BY <1>1, <1>2, <2>1, SameCount
<1> QED BY <1>6, <1>8, <1>9, <1>10, <1>11 DEF FlagsInv
------------------------------------------------------------------------------
(* The steps of a thread in the model.                                     *)

LEMMA StateOf ==
  ASSUME ModelTyped, NEW t \in Threads
  PROVE  /\ th \in [Threads -> LocalState] /\ th[t] \in LocalState /\ Placed(th[t])
         /\ model \in Models /\ applied \in [Chunks -> Nat] /\ kv \in [Chunks -> Nat]
         /\ lost \subseteq Chunks
BY DEF ModelTyped

Kept == ModelTyped' /\ (Intact' => FlagsInv')

LEMMA LoadWordCache ==
  ASSUME ModelTyped, Intact => FlagsInv, NEW t \in Threads, LoadWord(t), Same,
         UNCHANGED <<applied, lost>>
  PROVE  Kept
<1> DEFINE w == {d \in Word(Min(th[t].todo)) : model.is_cached_[d]}
           l == [th[t] EXCEPT !.pc = IF @ = "mark" THEN "cache" ELSE "uncache", !.word = w]
<1>1. th \in [Threads -> LocalState] /\ th[t] \in LocalState /\ Placed(th[t]) /\ model \in Models
  BY StateOf
<1>2. th' = [th EXCEPT ![t] = l] /\ model' = model /\ th[t].pc \in {"mark", "unmark"}
  BY <1>1 DEF LoadWord
<1>3. w \in SUBSET Chunks
  BY DEF Word
<1> HIDE DEF w
<1>4. /\ l.pc = IF th[t].pc = "mark" THEN "cache" ELSE "uncache"
      /\ l.req = th[t].req /\ l.todo = th[t].todo /\ l.fetch = th[t].fetch
      /\ l.check = th[t].check /\ l.pool = th[t].pool /\ l.val = th[t].val
  BY <1>1 DEF LocalState
<1>5. l \in LocalState
  BY <1>1, <1>3 DEF LocalState, Labels, Looping, Training
<1> HIDE DEF l
<1>6. Placed(l)
  BY <1>1, <1>2, <1>4 DEF Placed, Filling, Evicting, Training
<1>7. ModelTyped'
  BY <1>1, <1>2, <1>5, <1>6, TypedFrame, StateOf
<1>8. /\ Missing(l) = Missing(th[t]) /\ Brought(l) = Brought(th[t])
      /\ Chosen(l) = Chosen(th[t]) /\ Evicted(l) = Evicted(th[t])
      /\ Passed(l) = Passed(th[t]) /\ (l.pc \in Filling <=> th[t].pc \in Filling)
      /\ l.pc # "scan" /\ th[t].pc # "scan"
  BY <1>2, <1>4 DEF Missing, Brought, Chosen, Evicted, Passed, Filling, Evicting
<1>9. Intact => FlagsInv'
  BY <1>1, <1>2, <1>4, <1>5, <1>8, LocalStep
<1> QED BY <1>7, <1>9 DEF Kept, Intact

\* Without a cache a chunk is cached once it is unlocked, and unlocked once it
\* is cached.
LEMMA CheckedReady ==
  ASSUME ModelTyped, FlagsInv, ~Replacing, NEW t \in Threads, NEW c \in th[t].check,
         model.is_cached_[c] \/ model.mtx_[c] = Free
  PROVE  Ready(c)
<1>1. LocksKept /\ Checked
  BY DEF FlagsInv
<1>2. c \in Chunks /\ model.mtx_[c] \in Threads \union {Free}
  BY StateOf DEF LocalState, Models
<1>3. model.is_cached_[c]
  BY <1>1 DEF Checked
<1>4. ASSUME NEW u \in Threads, model.mtx_[c] = u PROVE FALSE
  <2>1. c \in Chosen(th[u]) \union Evicted(th[u])
    BY <1>1, <1>2, <1>3, <1>4 DEF LocksKept, Fits
  <2>2. th[u].pc \in Evicting
    BY <2>1 DEF Chosen, Evicted, Evicting
  <2>3. Placed(th[u])
    BY StateOf
  <2> QED BY <2>2, <2>3 DEF Placed
<1> QED BY <1>2, <1>3, <1>4 DEF Ready

\* What has been passed over is cached by the time it is copied.
LEMMA CopyCache ==
  ASSUME ModelTyped, Intact => FlagsInv, NEW t \in Threads,
         th[t].pc \in {"check", "await"}, th' = [th EXCEPT ![t] = Copy(th[t])],
         \A c \in th[t].check : model.is_cached_[c] \/ model.mtx_[c] = Free,
         model' = model, Same, UNCHANGED <<applied, lost>>
  PROVE  Kept
<1> DEFINE l == Copy(th[t])
<1>1. th \in [Threads -> LocalState] /\ th[t] \in LocalState /\ Placed(th[t]) /\ model \in Models
  BY StateOf
<1>2. /\ l.pc = "read" /\ l.req = th[t].req /\ l.todo = th[t].req /\ l.fetch = {}
      /\ l.check = {} /\ l.pool = {} /\ l.val = th[t].val
  BY <1>1 DEF LocalState, Copy
<1>3. l \in LocalState
  BY <1>1 DEF LocalState, Labels, Looping, Training, Copy
<1> HIDE DEF l
<1>4. Placed(l)
  BY <1>1, <1>2 DEF Placed, Filling, Evicting, Training
<1>5. ModelTyped'
  BY <1>1, <1>3, <1>4, TypedFrame, StateOf DEF l
<1>6. /\ Missing(l) = Missing(th[t]) /\ Brought(l) = Brought(th[t])
      /\ Chosen(l) = Chosen(th[t]) /\ Evicted(l) = Evicted(th[t])
      /\ Passed(l) = Passed(th[t]) /\ th[t].pc # "scan" /\ l.pc # "scan"
  BY <1>2 DEF Missing, Brought, Chosen, Evicted, Passed, Evicting
<1>7. ASSUME Intact, NEW c \in th[t].check, ~Replacing
      PROVE  Ready(c)
  BY <1>7, CheckedReady
<1>8. Intact => FlagsInv'
  BY <1>1, <1>2, <1>3, <1>6, <1>7, LocalStep DEF l
<1> QED BY <1>5, <1>8 DEF Kept, Intact

LEMMA RecheckCache ==
  ASSUME ModelTyped, Intact => FlagsInv, NEW t \in Threads, Recheck(t), Same,
         UNCHANGED <<applied, lost>>
  PROVE  Kept
<1> DEFINE left == {c \in th[t].check : ~model.is_cached_[c]}
           l == [th[t] EXCEPT !.check = left, !.pc = "await"]
<1>1. th \in [Threads -> LocalState] /\ th[t] \in LocalState /\ Placed(th[t]) /\ model \in Models
  BY StateOf
<1>2. th[t].pc = "check" /\ model' = model
  BY DEF Recheck, At
<1>3. CASE left = {}
  <2>1. th' = [th EXCEPT ![t] = Copy(th[t])]
    BY <1>1, <1>3 DEF Recheck
  <2> QED BY <1>2, <1>3, <2>1, CopyCache
<1>4. CASE left # {}
  <2>1. th' = [th EXCEPT ![t] = l]
    BY <1>1, <1>4 DEF Recheck
  <2>2. /\ l.pc = "await" /\ l.req = th[t].req /\ l.todo = th[t].todo /\ l.fetch = th[t].fetch
        /\ l.check = left /\ l.pool = th[t].pool /\ l.val = th[t].val
    BY <1>1 DEF LocalState
  <2>3. left \in SUBSET Chunks
    BY <1>1 DEF LocalState
  <2>4. \A c \in th[t].check : c \notin left => model.is_cached_[c]
    OBVIOUS
  <2>5. left \subseteq th[t].check
    OBVIOUS
  <2> HIDE DEF left
  <2>6. l \in LocalState
    BY <1>1, <2>3 DEF LocalState, Labels, Looping, Training
  <2> HIDE DEF l
  <2>7. Placed(l)
    BY <1>1, <1>2, <1>4, <2>2, <2>5 DEF Placed, Filling, Evicting, Training, Caching
  <2>8. ModelTyped'
    BY <1>1, <1>2, <2>1, <2>6, <2>7, TypedFrame, StateOf
  <2>9. /\ Missing(l) = Missing(th[t]) /\ Brought(l) = Brought(th[t])
        /\ Chosen(l) = Chosen(th[t]) /\ Evicted(l) = Evicted(th[t])
        /\ Passed(l) = Passed(th[t]) /\ l.pc \in Filling
        /\ l.pc # "scan" /\ th[t].pc # "scan"
    BY <1>2, <2>2 DEF Missing, Brought, Chosen, Evicted, Passed, Filling, Evicting
  <2>10. Intact => FlagsInv'
    BY <1>1, <1>2, <2>1, <2>2, <2>4, <2>5, <2>6, <2>9, LocalStep, CheckedReady
  <2> QED BY <2>8, <2>10 DEF Kept, Intact
<1> QED BY <1>3, <1>4

LEMMA AwaitCache ==
  ASSUME ModelTyped, Intact => FlagsInv, NEW t \in Threads, Await(t), Same,
         UNCHANGED <<applied, lost>>
  PROVE  Kept
<1> DEFINE left == th[t].check \ {Min(th[t].check)}
           l == [th[t] EXCEPT !.check = left]
<1>1. th \in [Threads -> LocalState] /\ th[t] \in LocalState /\ Placed(th[t]) /\ model \in Models
  BY StateOf
<1>2. th[t].pc = "await" /\ model' = model
  BY DEF Await, At
<1>3. \A c \in th[t].check : c \notin left => model.mtx_[c] = Free
  BY DEF Await
<1>4. left \subseteq th[t].check
  OBVIOUS
<1>5. th' = [th EXCEPT ![t] = IF left = {} THEN Copy(th[t]) ELSE l]
  BY <1>1 DEF Await
<1> HIDE DEF left
<1>6. CASE left = {}
  BY <1>2, <1>3, <1>5, <1>6, CopyCache
<1>7. CASE left # {}
  <2>1. th' = [th EXCEPT ![t] = l]
    BY <1>5, <1>7
  <2>2. /\ l.pc = "await" /\ l.req = th[t].req /\ l.todo = th[t].todo /\ l.fetch = th[t].fetch
        /\ l.check = left /\ l.pool = th[t].pool /\ l.val = th[t].val
    BY <1>1, <1>2 DEF LocalState
  <2>3. l \in LocalState
    BY <1>1, <1>4 DEF LocalState, Labels, Looping, Training
  <2> HIDE DEF l
  <2>4. Placed(l)
    BY <1>1, <1>2, <1>4, <1>7, <2>2 DEF Placed, Filling, Evicting, Training
  <2>5. ModelTyped'
    BY <1>1, <1>2, <2>1, <2>3, <2>4, TypedFrame, StateOf
  <2>6. /\ Missing(l) = Missing(th[t]) /\ Brought(l) = Brought(th[t])
        /\ Chosen(l) = Chosen(th[t]) /\ Evicted(l) = Evicted(th[t])
        /\ Passed(l) = Passed(th[t]) /\ l.pc \in Filling
        /\ l.pc # "scan" /\ th[t].pc # "scan"
    BY <1>2, <2>2 DEF Missing, Brought, Chosen, Evicted, Passed, Filling, Evicting
  <2>7. Intact => FlagsInv'
    BY <1>1, <1>2, <1>3, <1>4, <2>1, <2>2, <2>3, <2>6, LocalStep, CheckedReady
  <2> QED BY <2>5, <2>7 DEF Kept, Intact
<1> QED BY <1>6, <1>7

LEMMA CopyChunkCache ==
  ASSUME ModelTyped, Intact => FlagsInv, NEW t \in Threads, CopyChunk(t), Same, UNCHANGED lost
  PROVE  Kept
<1> DEFINE l == [th[t] EXCEPT !.todo = @ \ {Min(@)}]
<1>1. th \in [Threads -> LocalState] /\ th[t] \in LocalState /\ Placed(th[t]) /\ model \in Models
  BY StateOf
<1>2. th' = [th EXCEPT ![t] = l] /\ model' = model /\ th[t].pc = "read" /\ UNCHANGED applied
  BY <1>1 DEF CopyChunk, At
<1>3. /\ l.pc = "read" /\ l.req = th[t].req /\ l.fetch = th[t].fetch
      /\ l.check = th[t].check /\ l.pool = th[t].pool /\ l.val = th[t].val
  BY <1>1, <1>2 DEF LocalState
<1>4. l \in LocalState
  BY <1>1 DEF LocalState, Labels, Looping, Training
<1> HIDE DEF l
<1>5. Placed(l)
  BY <1>1, <1>2, <1>3 DEF Placed, Filling, Evicting, Training
<1>6. ModelTyped'
  BY <1>1, <1>2, <1>4, <1>5, TypedFrame, StateOf
<1>7. /\ Missing(l) = Missing(th[t]) /\ Brought(l) = Brought(th[t])
      /\ Chosen(l) = Chosen(th[t]) /\ Evicted(l) = Evicted(th[t])
      /\ Passed(l) = Passed(th[t]) /\ th[t].pc \notin Filling
      /\ l.pc # "scan" /\ th[t].pc # "scan"
  BY <1>2, <1>3 DEF Missing, Brought, Chosen, Evicted, Passed, Filling, Evicting
<1>8. Intact => FlagsInv'
  BY <1>1, <1>2, <1>3, <1>4, <1>7, LocalStep
<1> QED BY <1>6, <1>8 DEF Kept, Intact

LEMMA RacyLoadCache ==
  ASSUME ModelTyped, Intact => FlagsInv, NEW t \in Threads, RacyLoad(t), Same, UNCHANGED lost
  PROVE  Kept
<1> DEFINE v == model.params_[Min(th[t].todo)]
           l == [th[t] EXCEPT !.pc = "add", !.val = v]
<1>1. th \in [Threads -> LocalState] /\ th[t] \in LocalState /\ Placed(th[t]) /\ model \in Models
  BY StateOf
<1>2. /\ th' = [th EXCEPT ![t] = l] /\ model' = model /\ th[t].pc = "write" /\ UNCHANGED applied
      /\ kind \in {"MT", "Integral"} /\ th[t].todo # {}
  BY <1>1 DEF RacyLoad, At
<1>3. v \in Amount
  BY <1>1, <1>2, NextChunk DEF Models, LocalState
<1> HIDE DEF v
<1>4. /\ l.pc = "add" /\ l.req = th[t].req /\ l.todo = th[t].todo /\ l.fetch = th[t].fetch
      /\ l.check = th[t].check /\ l.pool = th[t].pool
  BY <1>1, <1>2 DEF LocalState
<1>5. l \in LocalState
  BY <1>1, <1>3 DEF LocalState, Labels, Looping, Training
<1> HIDE DEF l
<1>6. Placed(l)
  BY <1>1, <1>2, <1>4 DEF Placed, Filling, Evicting, Training
<1>7. ModelTyped'
  BY <1>1, <1>2, <1>5, <1>6, TypedFrame, StateOf
<1>8. /\ Missing(l) = Missing(th[t]) /\ Brought(l) = Brought(th[t])
      /\ Chosen(l) = Chosen(th[t]) /\ Evicted(l) = Evicted(th[t])
      /\ Passed(l) = Passed(th[t]) /\ th[t].pc \notin Filling
      /\ l.pc # "scan" /\ th[t].pc # "scan"
  BY <1>2, <1>4 DEF Missing, Brought, Chosen, Evicted, Passed, Filling, Evicting
<1>9. Intact => FlagsInv'
  BY <1>1, <1>2, <1>4, <1>5, <1>8, LocalStep
<1> QED BY <1>7, <1>9 DEF Kept, Intact

LEMMA RacyStoreCache ==
  ASSUME ModelTyped, Intact => FlagsInv, NEW t \in Threads, RacyStore(t), Same, UNCHANGED lost,
         kind = "Integral" => Whole(model.params_)
  PROVE  Kept
<1> DEFINE c == Min(th[t].todo)
           l == [th[t] EXCEPT !.pc = "write", !.todo = @ \ {c}, !.val = 0]
<1>1. /\ th \in [Threads -> LocalState] /\ th[t] \in LocalState /\ Placed(th[t])
      /\ model \in Models /\ applied \in [Chunks -> Nat]
  BY StateOf
<1>2. /\ th' = [th EXCEPT ![t] = l] /\ th[t].pc = "add"
      /\ model' = [model EXCEPT !.params_[c] = th[t].val + 1]
      /\ applied' = [applied EXCEPT ![c] = @ + 1]
  BY <1>1 DEF RacyStore, At
<1>3. c \in th[t].todo /\ c \in Chunks /\ kind \in {"MT", "Integral"}
  BY <1>1, <1>2, NextChunk DEF LocalState, Placed
<1> HIDE DEF c
<1>4. /\ l.pc = "write" /\ l.req = th[t].req /\ l.todo = th[t].todo \ {c}
      /\ l.fetch = th[t].fetch /\ l.check = th[t].check /\ l.pool = th[t].pool
  BY <1>1, <1>2 DEF LocalState
<1>5. l \in LocalState
  BY <1>1 DEF LocalState, Labels, Looping, Training, Amount
<1> HIDE DEF l
<1>6. Placed(l)
  BY <1>1, <1>2, <1>4 DEF Placed, Filling, Evicting, Training
<1>7. th[t].val + 1 \in Nat
  BY <1>1, NobodyFree DEF LocalState, Amount
<1>8. /\ model' \in Models /\ applied' \in [Chunks -> Nat]
      /\ model'.mtx_ = model.mtx_ /\ model'.is_cached_ = model.is_cached_
      /\ model'.prepare_count_ = model.prepare_count_ /\ model'.num_cached_ = model.num_cached_
      /\ \A d \in Chunks : model'.params_[d] = IF d = c THEN th[t].val + 1 ELSE model.params_[d]
  BY <1>1, <1>2, <1>3, <1>7 DEF Models, Amount
<1>9. ModelTyped'
  BY <1>1, <1>2, <1>5, <1>6, <1>8, TypedFrame
<1>10. /\ Missing(l) = Missing(th[t]) /\ Brought(l) = Brought(th[t])
       /\ Chosen(l) = Chosen(th[t]) /\ Evicted(l) = Evicted(th[t])
       /\ Passed(l) \subseteq Passed(th[t]) /\ th[t].pc \notin Filling
       /\ l.pc # "scan" /\ th[t].pc # "scan" /\ c \in Passed(th[t])
  BY <1>2, <1>3, <1>4 DEF Missing, Brought, Chosen, Evicted, Passed, Filling, Evicting
<1>11. ASSUME Intact PROVE FlagsInv'
  <2>1. FlagsInv
    BY <1>11
  <2>2. model.params_[c] # None
    <3>1. CASE kind = "Integral"
      BY <1>3, <3>1 DEF Whole
    <3>2. CASE kind # "Integral"
      <4>1. c \notin Missing(th[t]) \union Brought(th[t])
        BY <1>2 DEF Missing, Brought, Evicting
      <4>2. Ready(c)
        BY <1>10, <2>1, <3>2, <4>1 DEF FlagsInv, Wanted
      <4> QED BY <1>3, <2>1, <3>2, <4>2 DEF FlagsInv, LocksKept, Ready
    <3> QED BY <3>1, <3>2
  <2>3. \A d \in Chunks : model'.params_[d] # None <=> model.params_[d] # None
    BY <1>7, <1>8, <2>2, NobodyFree
  <2>4. ~Replacing
    BY <1>3 DEF Caching, Replacing
  <2> QED BY <1>1, <1>2, <1>4, <1>5, <1>8, <1>10, <2>1, <2>3, <2>4, LocalStep
<1> QED BY <1>9, <1>11 DEF Kept, Intact

\* One thread prepares, and nobody locks.
LEMMA ChunkPrepareCache ==
  ASSUME ModelTyped, Intact => FlagsInv, NEW t \in Threads, ChunkPrepare(t), Same,
         UNCHANGED <<applied, lost>>
  PROVE  Kept
<1> DEFINE l == Copy(th[t])
<1>1. /\ th \in [Threads -> LocalState] /\ th[t] \in LocalState /\ Placed(th[t])
      /\ model \in Models /\ applied \in [Chunks -> Nat] /\ kv \in [Chunks -> Nat]
  BY StateOf
<1>2. th' = [th EXCEPT ![t] = l] /\ th[t].pc = "prepare" /\ kind = "Chunk"
  BY <1>1 DEF ChunkPrepare, At, Placed
<1>3. /\ l.pc = "read" /\ l.req = th[t].req /\ l.todo = th[t].req /\ l.fetch = {}
      /\ l.check = {} /\ l.pool = {} /\ l.val = th[t].val
  BY <1>1 DEF LocalState, Copy
<1>4. l \in LocalState
  BY <1>1 DEF LocalState, Labels, Looping, Training, Copy
<1> HIDE DEF l
<1>5. Placed(l)
  BY <1>1, <1>2, <1>3 DEF Placed, Filling, Evicting, Training
<1>6. \A c \in Chunks : Fetched(c) \in Nat
  BY <1>1, NobodyFree DEF Fetched, Models, Amount
<1>7. /\ model' \in Models /\ model'.mtx_ = model.mtx_
      /\ model'.prepare_count_ = model.prepare_count_ /\ model'.num_cached_ = model.num_cached_
      /\ \A c \in Chunks :
           /\ model'.params_[c] = IF c \in th[t].req /\ ~model.is_cached_[c] THEN Fetched(c)
                                  ELSE model.params_[c]
           /\ model'.is_cached_[c] <=> c \in th[t].req \/ model.is_cached_[c]
  BY <1>1, <1>2, <1>6 DEF ChunkPrepare, Models, Amount
<1>8. ModelTyped'
  BY <1>1, <1>2, <1>4, <1>5, <1>7, TypedFrame
<1>9. ASSUME Intact PROVE FlagsInv'
  <2>1. LocksKept /\ Wanted /\ Checked /\ Pinned /\ NumCached
    BY <1>9 DEF FlagsInv
  <2>2. kind' = kind /\ UNCHANGED <<kind, api, table, limits>> /\ ~Replacing
    BY <1>2 DEF Same, Caching, Replacing
  <2>3. ASSUME NEW u \in Threads PROVE Held(th[u]) = {}
    <3>1. Placed(th[u])
      BY StateOf
    <3> QED BY <1>2, <3>1 DEF Placed, Held, Missing, Brought, Chosen, Evicted, Evicting, Caching,
                              Replacing
  <2>4. \A c \in Chunks : model.mtx_[c] = Free
    BY <1>1, <2>1, <2>3 DEF LocksKept, Models
  <2>5. Held(l) = {} /\ Missing(l) = {} /\ Brought(l) = {} /\ Passed(l) = th[t].req
    BY <1>3 DEF Held, Missing, Brought, Chosen, Evicted, Passed, Evicting
  <2>6. \A c \in Chunks : model.is_cached_[c] <=> model.params_[c] # None
    BY <1>2, <2>1, <2>4 DEF LocksKept
  <2>7. ASSUME NEW c \in Chunks
        PROVE  /\ model'.mtx_[c] = Free
               /\ model'.is_cached_[c] <=> model'.params_[c] # None
    BY <1>6, <1>7, <2>4, <2>6, NobodyFree
  <2>8. LocksKept'
    <3>1. ASSUME NEW c \in Chunks PROVE LockStep(t, l, c)
      BY <2>4, <2>5, <2>7, NobodyFree DEF LockStep
    <3> QED BY <1>2, <1>4, <1>7, <2>1, <2>2, <3>1, LocksFrame
  <2>9. \A c \in Chunks : Ready(c) => Ready(c)'
    BY <1>7, <2>7 DEF Ready
  <2>10. \A c \in Passed(l) : Ready(c)'
    BY <1>1, <1>7, <2>5, <2>7 DEF Ready, LocalState
  <2>11. Wanted'
    BY <1>2, <1>4, <2>1, <2>2, <2>9, <2>10, WantedFrame
  <2>12. Checked'
    BY <1>2, <1>3, <1>4, <1>7, <2>1, <2>2, CheckedFrame
  <2>13. Pinned'
    BY <2>2 DEF Pinned, Replacing
  <2>14. NumCached'
    BY <2>2 DEF NumCached, Replacing
  <2> QED BY <2>8, <2>11, <2>12, <2>13, <2>14 DEF FlagsInv
<1> QED BY <1>8, <1>9 DEF Kept, Intact
\* Without a cache no flag is cleared, so a chunk that is cached is unlocked.
LEMMA CachedFree ==
  ASSUME ModelTyped, LocksKept, ~Replacing, NEW c \in Chunks, model.is_cached_[c]
  PROVE  model.mtx_[c] = Free
<1>1. model.mtx_[c] \in Threads \union {Free}
  BY DEF ModelTyped, Models
<1>2. ASSUME NEW u \in Threads, model.mtx_[c] = u PROVE FALSE
  <2>1. c \in Chosen(th[u]) \union Evicted(th[u])
    BY <1>2 DEF LocksKept, Fits
  <2>2. th[u].pc \in Evicting
    BY <2>1 DEF Chosen, Evicted, Evicting
  <2> QED BY <2>2, StateOf DEF Placed
<1> QED BY <1>1, <1>2

LEMMA CollectCache ==
  ASSUME ModelTyped, Intact => FlagsInv, NEW t \in Threads, Collect(t), Same,
         UNCHANGED <<applied, lost>>
  PROVE  Kept
<1> DEFINE c == Min(th[t].todo)
           mine == ~model.is_cached_[c] /\ model.mtx_[c] = Free
           others == ~model.is_cached_[c] /\ model.mtx_[c] # Free
           l == [th[t] EXCEPT !.todo = @ \ {c},
                   !.fetch = IF mine THEN @ \union {c} ELSE @,
                   !.check = IF others THEN @ \union {c} ELSE @]
<1>1. /\ th \in [Threads -> LocalState] /\ th[t] \in LocalState /\ Placed(th[t])
      /\ model \in Models /\ applied \in [Chunks -> Nat]
  BY StateOf
<1>2. /\ th' = [th EXCEPT ![t] = l] /\ th[t].pc = "collect" /\ th[t].todo # {}
      /\ model' = [model EXCEPT !.mtx_[c] = IF mine THEN t ELSE @]
  BY <1>1 DEF Collect, At
<1>3. c \in th[t].todo /\ c \in Chunks
  BY <1>1, <1>2, NextChunk DEF LocalState
<1> HIDE DEF c
<1>4. kind \in {"MT", "MTLock"} \union Caching /\ ~Replacing /\ kind # "Integral"
  BY <1>1, <1>2 DEF Placed, Caching
<1>5. /\ l.pc = "collect" /\ l.req = th[t].req /\ l.todo = th[t].todo \ {c}
      /\ l.pool = th[t].pool /\ l.val = th[t].val
      /\ l.fetch = IF mine THEN th[t].fetch \union {c} ELSE th[t].fetch
      /\ l.check = IF others THEN th[t].check \union {c} ELSE th[t].check
  BY <1>1, <1>2 DEF LocalState
<1>6. l \in LocalState
  BY <1>1, <1>3 DEF LocalState
<1> HIDE DEF l
<1>7. Placed(l)
  BY <1>1, <1>2, <1>4, <1>5 DEF Placed, Filling, Evicting, Training
<1>8. /\ model' \in Models
      /\ model'.params_ = model.params_ /\ model'.is_cached_ = model.is_cached_
      /\ \A d \in Chunks : model'.mtx_[d] = IF d = c /\ mine THEN t ELSE model.mtx_[d]
  BY <1>1, <1>2, <1>3 DEF Models
<1>9. ModelTyped'
  BY <1>1, <1>2, <1>6, <1>7, <1>8, TypedFrame
<1>10. ASSUME Intact PROVE FlagsInv'
  <2>1. LocksKept /\ Wanted /\ Checked /\ Pinned /\ NumCached
    BY <1>10 DEF FlagsInv
  <2>2. UNCHANGED <<kind, api>>
    BY DEF Same
  <2>3. /\ Held(l) = l.fetch /\ Held(th[t]) = th[t].fetch
        /\ Missing(l) = l.fetch /\ Missing(th[t]) = th[t].fetch
        /\ Brought(l) = {} /\ Brought(th[t]) = {}
        /\ Chosen(l) = {} /\ Chosen(th[t]) = {} /\ Evicted(l) = {} /\ Evicted(th[t]) = {}
        /\ Passed(l) \subseteq Passed(th[t]) \union {c}
    BY <1>2, <1>5 DEF Held, Missing, Brought, Chosen, Evicted, Passed
  <2>4. ASSUME NEW d \in Chunks PROVE LockStep(t, l, d)
    <3>1. /\ model.mtx_[d] = t <=> d \in th[t].fetch
          /\ model.mtx_[d] = t => ~model.is_cached_[d] /\ model.params_[d] = None
          /\ model.mtx_[d] = Free => (model.is_cached_[d] <=> model.params_[d] # None)
      BY <1>4, <2>1, <2>3 DEF LocksKept, Fits
    <3>2. model'.mtx_[d] = t => ~model'.is_cached_[d] /\ model'.params_[d] = None
      BY <1>8, <3>1
    <3>3. model'.mtx_[d] = t <=> d \in l.fetch
      BY <1>5, <1>8, <3>1
    <3>4. model'.mtx_[d] = t => Fits(model', l, d)
      BY <2>3, <3>2, <3>3 DEF Fits
    <3> QED BY <1>8, <2>3, <3>1, <3>3, <3>4, NobodyFree DEF LockStep
  <2>5. LocksKept'
    BY <1>2, <1>6, <1>8, <2>1, <2>2, <2>4, LocksFrame
  <2>6. ASSUME NEW d \in Chunks, Ready(d) PROVE Ready(d)'
    BY <1>8, <2>6 DEF Ready
  <2>7. ASSUME NEW d \in Passed(l)
        PROVE  \/ Ready(d)'
               \/ d \in Missing(l) \union Brought(l)
               \/ l.pc \in Filling /\ d \in l.check /\ ~Replacing
    <3>1. CASE d = c
      <4>1. CASE model.is_cached_[c]
        <5>1. Ready(c)
          BY <1>3, <1>4, <2>1, <4>1, CachedFree DEF Ready
        <5> QED BY <1>3, <2>6, <3>1, <5>1
      <4>2. CASE mine
        BY <1>5, <2>3, <3>1, <4>2
      <4>3. CASE others
        BY <1>4, <1>5, <3>1, <4>3 DEF Filling
      <4> QED BY <4>1, <4>2, <4>3
    <3>2. CASE d # c
      <4>1. d \in Passed(th[t]) /\ d \in Chunks
        BY <1>1, <1>2, <2>3, <3>2 DEF Passed, LocalState
      <4>2. \/ Ready(d)
            \/ d \in Missing(th[t]) \union Brought(th[t])
            \/ th[t].pc \in Filling /\ d \in th[t].check /\ ~Replacing
        BY <1>4, <2>1, <4>1 DEF Wanted
      <4>3. th[t].fetch \subseteq l.fetch /\ th[t].check \subseteq l.check
        BY <1>5
      <4> QED BY <1>5, <2>3, <2>6, <4>1, <4>2, <4>3 DEF Filling
    <3> QED BY <3>1, <3>2
  <2>8. Wanted'
    BY <1>2, <1>6, <2>1, <2>2, <2>6, <2>7, WantedFrame
  <2>9. \A d \in Chunks : model.is_cached_[d] \/ model.mtx_[d] # Free =>
                            model'.is_cached_[d] \/ model'.mtx_[d] # Free
    BY <1>8, NobodyFree
  <2>10. ASSUME NEW d \in l.check PROVE model'.is_cached_[d] \/ model'.mtx_[d] # Free
    <3>1. CASE d \in th[t].check
      <4>1. d \in Chunks /\ (model.is_cached_[d] \/ model.mtx_[d] # Free)
        BY <1>1, <1>4, <2>1, <3>1 DEF Checked, LocalState
      <4> QED BY <2>9, <4>1
    <3>2. CASE d \notin th[t].check
      BY <1>3, <1>5, <1>8, <3>2
    <3> QED BY <3>1, <3>2
  <2>11. Checked'
    BY <1>2, <1>6, <2>1, <2>2, <2>9, <2>10, CheckedFrame
  <2>12. Pinned' /\ NumCached'
    BY <1>4, <2>2 DEF Pinned, NumCached, Replacing
  <2> QED BY <2>5, <2>8, <2>11, <2>12 DEF FlagsInv
<1> QED BY <1>9, <1>10 DEF Kept, Intact

LEMMA FetchChunksCache ==
  ASSUME ModelTyped, Intact => FlagsInv, NEW t \in Threads, FetchChunks(t), Same,
         UNCHANGED <<applied, lost>>
  PROVE  Kept
<1> DEFINE f == th[t].fetch
           l == [th[t] EXCEPT !.pc = IF f = {} THEN "check" ELSE "mark", !.todo = f]
<1>1. /\ th \in [Threads -> LocalState] /\ th[t] \in LocalState /\ Placed(th[t])
      /\ model \in Models /\ applied \in [Chunks -> Nat] /\ kv \in [Chunks -> Nat]
  BY StateOf
<1>2. /\ th' = [th EXCEPT ![t] = l]
      /\ th[t].pc = "fetch" \/ (th[t].pc = "collect" /\ th[t].todo = {})
      /\ model' = [model EXCEPT !.params_ =
           [c \in Chunks |-> IF c \in f THEN Fetched(c) ELSE @[c]]]
  BY <1>1 DEF FetchChunks, At
<1>3. /\ l.pc = IF f = {} THEN "check" ELSE "mark"
      /\ l.req = th[t].req /\ l.todo = f /\ l.fetch = f
      /\ l.check = th[t].check /\ l.pool = th[t].pool /\ l.val = th[t].val
  BY <1>1 DEF LocalState
<1>4. l \in LocalState
  BY <1>1 DEF LocalState, Labels, Looping, Training
<1> HIDE DEF l
<1>5. /\ Missing(th[t]) = f /\ Brought(th[t]) = {} /\ Missing(l) = {} /\ Brought(l) = f
      /\ Chosen(th[t]) = {} /\ Evicted(th[t]) = {} /\ Chosen(l) = {} /\ Evicted(l) = {}
      /\ Held(th[t]) = f /\ Held(l) = f /\ Passed(l) = Passed(th[t])
      /\ l.pc \in Filling /\ l.pc # "scan" /\ th[t].pc # "scan"
  BY <1>1, <1>2, <1>3
     DEF Held, Missing, Brought, Chosen, Evicted, Passed, Evicting, Filling, LocalState
<1>6. Placed(l)
  BY <1>1, <1>2, <1>3 DEF Placed, Filling, Evicting, Training, Replacing
<1>7. \A c \in Chunks : Fetched(c) \in Nat
  BY <1>1, NobodyFree DEF Fetched, Models, Amount
<1>8. /\ model' \in Models /\ model'.mtx_ = model.mtx_ /\ model'.is_cached_ = model.is_cached_
      /\ model'.prepare_count_ = model.prepare_count_ /\ model'.num_cached_ = model.num_cached_
      /\ \A c \in Chunks : model'.params_[c] = IF c \in f THEN Fetched(c) ELSE model.params_[c]
  BY <1>1, <1>2, <1>7 DEF Models, Amount
<1>9. ModelTyped'
  BY <1>1, <1>2, <1>4, <1>6, <1>8, TypedFrame
<1>10. ASSUME Intact PROVE FlagsInv'
  <2>1. LocksKept /\ Wanted /\ Checked /\ Pinned /\ NumCached
    BY <1>10 DEF FlagsInv
  <2>2. kind' = kind /\ UNCHANGED <<kind, api, table, limits>>
    BY DEF Same
  <2>3. ASSUME NEW c \in Chunks PROVE LockStep(t, l, c)
    <3>1. /\ model.mtx_[c] = t <=> c \in f
          /\ model.mtx_[c] = t => ~model.is_cached_[c]
          /\ kind # "Integral" /\ model.mtx_[c] = Free =>
               (model.is_cached_[c] <=> model.params_[c] # None)
      BY <1>5, <2>1 DEF LocksKept, Fits
    <3>2. model'.mtx_[c] = t => ~model'.is_cached_[c] /\ model'.params_[c] # None /\ c \in f
      BY <1>7, <1>8, <3>1, NobodyFree
    <3>3. model'.mtx_[c] = t => Fits(model', l, c)
      BY <1>5, <3>2 DEF Fits
    <3> QED BY <1>5, <1>8, <3>1, <3>3, NobodyFree DEF LockStep
  <2>4. LocksKept'
    BY <1>2, <1>4, <1>8, <2>1, <2>2, <2>3, LocksFrame
  <2>5. \A c : Ready(c)' <=> Ready(c)
    BY <1>8 DEF Ready
  <2>6. ASSUME kind # "Integral", NEW c \in Passed(l)
        PROVE  \/ Ready(c)'
               \/ c \in Missing(l) \union Brought(l)
               \/ l.pc \in Filling /\ c \in l.check /\ ~Replacing
    <3>1. \/ Ready(c)
          \/ c \in Missing(th[t]) \union Brought(th[t])
          \/ th[t].pc \in Filling /\ c \in th[t].check /\ ~Replacing
      BY <1>5, <2>1, <2>6 DEF Wanted
    <3> QED BY <1>3, <1>5, <2>5, <3>1
  <2>7. Wanted'
    BY <1>2, <1>4, <2>1, <2>2, <2>5, <2>6, WantedFrame
  <2>8. ~Replacing => \A c \in l.check : model'.is_cached_[c] \/ model'.mtx_[c] # Free
    BY <1>3, <1>8, <2>1 DEF Checked
  <2>9. Checked'
    BY <1>2, <1>4, <1>8, <2>1, <2>2, <2>8, CheckedFrame
  <2>10. Pinned'
    <3>1. Replacing => \A c \in Chunks : PinStep(t, l, c)
      BY <1>5, <1>8 DEF PinStep
    <3> QED BY <1>2, <1>4, <2>1, <2>2, <3>1, PinnedFrame
  <2>11. NumCached'
    <3>1. ASSUME NEW c \in Chunks PROVE Counted(c)' <=> Counted(c)
      <4>1. model.mtx_[c] \in Threads \union {Free}
        BY <1>1 DEF Models
      <4>2. th'[t] = l /\ \A u \in Threads \ {t} : th'[u] = th[u]
        BY <1>2, <1>4, Replaced
      <4> QED BY <1>5, <1>8, <4>1, <4>2 DEF Counted, At
    <3> QED BY <1>8, <2>1, <2>2, <3>1, SameCount
  <2> QED BY <2>4, <2>7, <2>9, <2>10, <2>11 DEF FlagsInv
<1> QED BY <1>9, <1>10 DEF Kept, Intact
\* A flag is set, or cleared, and the chunk unlocked.
LEMMA StoreWordCache ==
  ASSUME ModelTyped, Intact => FlagsInv, NEW t \in Threads, StoreWord(t), Same,
         UNCHANGED applied
  PROVE  Kept
<1> DEFINE c == Min(th[t].todo)
           up == th[t].pc = "cache"
           set == IF up THEN th[t].word \union {c} ELSE th[t].word \ {c}
           rest == th[t].todo \ {c}
           next == IF up THEN (IF rest # {} THEN "mark" ELSE "check")
                         ELSE (IF rest # {} THEN "unmark" ELSE "fetch")
           l == [th[t] EXCEPT !.todo = rest, !.word = {}, !.pc = next]
<1>1. /\ th \in [Threads -> LocalState] /\ th[t] \in LocalState /\ Placed(th[t])
      /\ model \in Models /\ applied \in [Chunks -> Nat]
  BY StateOf
<1>2. /\ th' = [th EXCEPT ![t] = l] /\ th[t].pc \in {"cache", "uncache"}
      /\ model' = [model EXCEPT
           !.is_cached_ = [d \in Chunks |-> IF d \in Word(c) THEN d \in set ELSE @[d]],
           !.mtx_[c] = Free]
      /\ lost' = lost \union {d \in Word(c) \ {c} : d \in th[t].word <=> ~model.is_cached_[d]}
  BY <1>1 DEF StoreWord, At
<1>3. c \in th[t].todo /\ c \in Chunks
  BY <1>1, <1>2, NextChunk DEF LocalState, Placed
<1> HIDE DEF c
<1>4. /\ l.pc = next /\ l.req = th[t].req /\ l.todo = rest /\ l.fetch = th[t].fetch
      /\ l.check = th[t].check /\ l.pool = th[t].pool /\ l.val = th[t].val
  BY <1>1 DEF LocalState
<1>5. l \in LocalState
  BY <1>1 DEF LocalState, Labels, Looping, Training
<1> HIDE DEF l
<1>6. Placed(l)
  BY <1>1, <1>2, <1>4 DEF Placed, Filling, Evicting, Training
<1>7. /\ model' \in Models /\ model'.params_ = model.params_
      /\ model'.prepare_count_ = model.prepare_count_ /\ model'.num_cached_ = model.num_cached_
      /\ \A d \in Chunks :
           /\ model'.mtx_[d] = IF d = c THEN Free ELSE model.mtx_[d]
           /\ model'.is_cached_[d] = IF d \in Word(c) THEN d \in set ELSE model.is_cached_[d]
  <2> DEFINE flags == [d \in Chunks |-> IF d \in Word(c) THEN d \in set
                                                     ELSE model.is_cached_[d]]
  <2>1. /\ flags \in [Chunks -> BOOLEAN]
        /\ \A d \in Chunks : flags[d] = IF d \in Word(c) THEN d \in set ELSE model.is_cached_[d]
    <3>1. \A d \in Chunks : model.is_cached_[d] \in BOOLEAN
      BY <1>1 DEF Models
    <3> HIDE DEF set
    <3>2. ASSUME NEW d \in Chunks
          PROVE  (IF d \in Word(c) THEN d \in set ELSE model.is_cached_[d]) \in BOOLEAN
      <4>1. CASE d \in Word(c)
        <5>1. (d \in set) \in BOOLEAN
          OBVIOUS
        <5> QED BY <4>1, <5>1, Zenon
      <4>2. CASE d \notin Word(c)
        BY <3>1, <4>2, Zenon
      <4> QED BY <4>1, <4>2
    <3>3. flags \in [Chunks -> BOOLEAN]
      BY <3>2, Zenon
    <3> QED BY <3>3, Zenon
  <2>2. model' = [model EXCEPT !.is_cached_ = flags, !.mtx_[c] = Free]
    BY <1>2
  <2> HIDE DEF flags
  <2> QED BY <1>1, <1>3, <2>1, <2>2 DEF Models
<1>8. ModelTyped'
  <2>1. lost' \subseteq Chunks
    BY <1>2, StateOf DEF Word
  <2> QED BY <1>1, <1>2, <1>5, <1>6, <1>7, <2>1, TypedFrame
<1>9. ASSUME Intact' PROVE FlagsInv'
  <2>0. /\ Intact
        /\ \A d \in Word(c) \ {c} : d \in th[t].word <=> model.is_cached_[d]
    BY <1>2, <1>9 DEF Intact
  <2>1. LocksKept /\ Wanted /\ Checked /\ Pinned /\ NumCached
    BY <2>0 DEF FlagsInv
  <2>2. kind' = kind /\ UNCHANGED <<kind, api, table, limits>>
    BY DEF Same
  <2>3. kind \notin {"Integral", "Chunk"} /\ (up \/ Replacing)
    BY <1>1, <1>2 DEF Placed, Caching, Evicting, Replacing
  <2>4. \A d \in Chunks : model'.is_cached_[d] <=> IF d = c THEN up ELSE model.is_cached_[d]
    <3>1. c \in Word(c)
      BY <1>3 DEF Word
    <3>2. c \in set <=> up
      OBVIOUS
    <3>3. \A d \in Word(c) \ {c} : d \in set <=> model.is_cached_[d]
      BY <2>0
    <3> HIDE DEF set, up
    <3> QED BY <1>7, <3>1, <3>2, <3>3
  <2>5. /\ Missing(l) = Missing(th[t]) /\ Chosen(l) = {} /\ Chosen(th[t]) = {}
        /\ Brought(th[t]) = IF up THEN th[t].todo ELSE {}
        /\ Brought(l) = IF up THEN rest ELSE {}
        /\ Evicted(th[t]) = IF up THEN {} ELSE th[t].todo
        /\ Evicted(l) = IF up THEN {} ELSE rest
        /\ Passed(l) = Passed(th[t])
        /\ (th[t].pc \in Filling => l.pc \in Filling)
        /\ l.pc # "scan" /\ th[t].pc # "scan"
        /\ up => Missing(th[t]) = {}
    BY <1>2, <1>4 DEF Missing, Brought, Chosen, Evicted, Passed, Evicting, Filling
  <2> DEFINE m == Missing(th[t])
             todo == th[t].todo
  <2>6. Held(th[t]) = m \union todo /\ Held(l) = m \union rest
    BY <2>5 DEF Held
  <2>7. rest = todo \ {c} /\ c \in todo
    BY <1>3
  <2> HIDE DEF m, todo, rest
  <2>8. ASSUME NEW d \in Chunks
        PROVE  /\ model.mtx_[d] = t <=> d \in m \union todo
               /\ model.mtx_[d] = t =>
                    /\ d \in m <=> d \notin todo
                    /\ model.is_cached_[d] <=> (~up /\ d \in todo)
                    /\ model.params_[d] # None <=> (up /\ d \in todo)
               /\ model.mtx_[d] = Free => (model.is_cached_[d] <=> model.params_[d] # None)
    <3>1. /\ model.mtx_[d] = t <=> d \in Held(th[t])
          /\ model.mtx_[d] = t => Fits(model, th[t], d)
          /\ model.mtx_[d] = Free => (model.is_cached_[d] <=> model.params_[d] # None)
      BY <2>1, <2>3 DEF LocksKept
    <3>2. Fits(model, th[t], d) => 
            /\ model.is_cached_[d] <=> (~up /\ d \in todo)
            /\ model.is_cached_[d] <=> d \notin m \union (IF up THEN todo ELSE {})
            /\ model.params_[d] # None <=> (up /\ d \in todo)
      BY <2>5 DEF Fits, m, todo
    <3>3. up => m = {}
      BY <2>5 DEF m
    <3> QED BY <2>6, <3>1, <3>2, <3>3
  <2>9. ASSUME NEW d \in Chunks PROVE LockStep(t, l, d)
    <3>1. model.mtx_[c] = t /\ c \notin m
      BY <1>3, <2>7, <2>8
    <3>2. CASE d = c
      <4>1. model'.mtx_[d] = Free /\ d \notin Held(l)
        BY <1>7, <2>6, <2>7, <3>1, <3>2
      <4>2. model'.is_cached_[d] <=> model'.params_[d] # None
        BY <1>7, <2>4, <2>7, <2>8, <3>1, <3>2
      <4> QED BY <3>1, <3>2, <4>1, <4>2, NobodyFree DEF LockStep
    <3>3. CASE d # c
      <4>1. /\ model'.mtx_[d] = model.mtx_[d] /\ model'.params_[d] = model.params_[d]
            /\ model'.is_cached_[d] <=> model.is_cached_[d]
            /\ model'.is_cached_[d] \in BOOLEAN /\ model.is_cached_[d] \in BOOLEAN
        BY <1>1, <1>7, <2>4, <3>3 DEF Models
      <4>2. d \in rest <=> d \in todo
        BY <2>7, <3>3
      <4>3. model'.mtx_[d] = t => Fits(model', l, d)
        <5>1. SUFFICES ASSUME model'.mtx_[d] = t PROVE Fits(model', l, d)
          OBVIOUS
        <5>2. /\ model'.is_cached_[d] <=> (~up /\ d \in rest)
              /\ model'.is_cached_[d] <=> d \notin m \union (IF up THEN rest ELSE {})
              /\ model'.params_[d] # None <=> (up /\ d \in rest)
          BY <2>8, <4>1, <4>2, <5>1
        <5> QED BY <2>5, <5>2 DEF Fits, m
      <4> QED BY <2>6, <2>8, <4>1, <4>2, <4>3, NobodyFree DEF LockStep
    <3> QED BY <3>2, <3>3
  <2>10. LocksKept'
    BY <1>2, <1>5, <1>7, <2>1, <2>2, <2>9, LocksFrame
  <2>11. model.mtx_[c] = t /\ t # Free /\ c \notin m
    BY <1>3, <2>7, <2>8, NobodyFree
  <2>12. \A d \in Chunks : Ready(d) => Ready(d)'
    BY <1>7, <2>4, <2>11 DEF Ready
  <2>13. ASSUME NEW d \in Passed(l)
         PROVE  \/ Ready(d)'
                \/ d \in Missing(l) \union Brought(l)
                \/ l.pc \in Filling /\ d \in l.check /\ ~Replacing
    <3>1. \/ Ready(d)
          \/ d \in Missing(th[t]) \union Brought(th[t])
          \/ th[t].pc \in Filling /\ d \in th[t].check /\ ~Replacing
      BY <2>1, <2>3, <2>5 DEF Wanted
    <3>2. d \in Chunks
      BY <1>5 DEF LocalState, Passed
    <3>3. CASE d = c /\ up
      BY <1>3, <1>7, <2>4, <3>3 DEF Ready
    <3>4. CASE d = c /\ ~up
      BY <1>4, <2>5, <2>11, <2>12, <3>1, <3>2, <3>4 DEF m
    <3>5. CASE d # c
      BY <1>4, <2>5, <2>7, <2>12, <3>1, <3>2, <3>5 DEF todo
    <3> QED BY <3>3, <3>4, <3>5
  <2>14. Wanted'
    BY <1>2, <1>5, <2>1, <2>2, <2>12, <2>13, WantedFrame
  <2>15. ~Replacing => \A d \in Chunks :
           model.is_cached_[d] \/ model.mtx_[d] # Free =>
             model'.is_cached_[d] \/ model'.mtx_[d] # Free
    BY <1>7, <2>3, <2>4
  <2>16. ~Replacing => \A d \in l.check : model'.is_cached_[d] \/ model'.mtx_[d] # Free
    BY <1>1, <1>4, <2>1, <2>15 DEF Checked, LocalState
  <2>17. Checked'
    BY <1>2, <1>5, <2>1, <2>2, <2>15, <2>16, CheckedFrame
  <2>18. Pinned'
    <3>1. Replacing => \A d \in Chunks : PinStep(t, l, d)
      BY <1>7, <2>5 DEF PinStep
    <3> QED BY <1>2, <1>5, <2>1, <2>2, <3>1, PinnedFrame
  <2>19. NumCached'
    <3>1. ASSUME NEW d \in Chunks PROVE Counted(d)' <=> Counted(d)
      <4>1. model.mtx_[d] \in Threads \union {Free}
        BY <1>1 DEF Models
      <4>2. th'[t] = l /\ \A u \in Threads \ {t} : th'[u] = th[u]
        BY <1>2, <1>5, Replaced
      <4>3. CASE d = c
        BY <1>7, <2>4, <2>5, <2>7, <2>8, <2>11, <4>2, <4>3 DEF Counted, At
      <4>4. CASE d # c
        BY <1>7, <2>4, <2>5, <4>1, <4>2, <4>4 DEF Counted, At
      <4> QED BY <4>3, <4>4
    <3> QED BY <1>7, <2>1, <2>2, <3>1, SameCount
  <2> QED BY <2>10, <2>14, <2>17, <2>18, <2>19 DEF FlagsInv
<1> QED BY <1>8, <1>9 DEF Kept, Intact

LEMMA FlushToDiskCache ==
  ASSUME ModelTyped, Intact => FlagsInv, NEW t \in Threads, FlushToDisk(t), Same,
         UNCHANGED <<applied, lost>>
  PROVE  Kept
<1> DEFINE p == th[t].pool
           l == [th[t] EXCEPT !.pc = "unmark", !.todo = p]
<1>1. /\ th \in [Threads -> LocalState] /\ th[t] \in LocalState /\ Placed(th[t])
      /\ model \in Models /\ applied \in [Chunks -> Nat]
  BY StateOf
<1>2. /\ th' = [th EXCEPT ![t] = l] /\ th[t].pc = "flush"
      /\ model' = [model EXCEPT
           !.disk = [c \in Chunks |-> IF c \in p THEN model.params_[c] ELSE @[c]],
           !.params_ = [c \in Chunks |-> IF c \in p THEN None ELSE @[c]]]
  BY <1>1 DEF FlushToDisk, At
<1>3. /\ l.pc = "unmark" /\ l.req = th[t].req /\ l.todo = p /\ l.fetch = th[t].fetch
      /\ l.check = th[t].check /\ l.pool = p /\ l.val = th[t].val
  BY <1>1 DEF LocalState
<1>4. l \in LocalState
  BY <1>1 DEF LocalState, Labels, Looping, Training
<1> HIDE DEF l
<1>5. Placed(l) /\ Replacing
  BY <1>1, <1>2, <1>3 DEF Placed, Filling, Evicting, Training
<1>6. /\ Missing(th[t]) = th[t].fetch /\ Missing(l) = th[t].fetch
      /\ Brought(th[t]) = {} /\ Brought(l) = {} /\ Chosen(th[t]) = p /\ Chosen(l) = {}
      /\ Evicted(th[t]) = {} /\ Evicted(l) = p /\ Held(l) = Held(th[t])
      /\ Passed(l) = Passed(th[t]) /\ l.pc # "scan" /\ th[t].pc # "scan"
  BY <1>2, <1>3 DEF Held, Missing, Brought, Chosen, Evicted, Passed, Evicting
<1>7. /\ model' \in Models /\ model'.mtx_ = model.mtx_ /\ model'.is_cached_ = model.is_cached_
      /\ model'.prepare_count_ = model.prepare_count_ /\ model'.num_cached_ = model.num_cached_
      /\ \A c \in Chunks : model'.params_[c] = IF c \in p THEN None ELSE model.params_[c]
  BY <1>1, <1>2 DEF Models, Amount
<1>8. ModelTyped'
  BY <1>1, <1>2, <1>4, <1>5, <1>7, TypedFrame
<1>9. ASSUME Intact PROVE FlagsInv'
  <2>1. LocksKept /\ Wanted /\ Checked /\ Pinned /\ NumCached
    BY <1>9 DEF FlagsInv
  <2>2. kind' = kind /\ UNCHANGED <<kind, api, table, limits>>
    BY DEF Same
  <2>3. ASSUME NEW c \in Chunks PROVE LockStep(t, l, c)
    <3>1. /\ model.mtx_[c] = t <=> c \in Held(th[t])
          /\ model.mtx_[c] = t => Fits(model, th[t], c)
          /\ kind # "Integral" /\ model.mtx_[c] = Free =>
               (model.is_cached_[c] <=> model.params_[c] # None)
          /\ c \in p => c \in Held(th[t])
      BY <1>6, <2>1 DEF LocksKept, Held
    <3>2. model'.mtx_[c] = t => Fits(model', l, c)
      BY <1>6, <1>7, <3>1 DEF Fits
    <3> QED BY <1>6, <1>7, <3>1, <3>2, NobodyFree DEF LockStep
  <2>4. LocksKept'
    BY <1>2, <1>4, <1>7, <2>1, <2>2, <2>3, LocksFrame
  <2>5. \A c : Ready(c)' <=> Ready(c)
    BY <1>7 DEF Ready
  <2>6. ASSUME kind # "Integral", NEW c \in Passed(l)
        PROVE  \/ Ready(c)'
               \/ c \in Missing(l) \union Brought(l)
               \/ l.pc \in Filling /\ c \in l.check /\ ~Replacing
    BY <1>5, <1>6, <2>1, <2>5, <2>6 DEF Wanted
  <2>7. Wanted'
    BY <1>2, <1>4, <2>1, <2>2, <2>5, <2>6, WantedFrame
  <2>8. Checked'
    BY <1>5, <2>2 DEF Checked, Replacing
  <2>9. Pinned'
    <3>1. Replacing => \A c \in Chunks : PinStep(t, l, c)
      BY <1>6, <1>7 DEF PinStep
    <3> QED BY <1>2, <1>4, <2>1, <2>2, <3>1, PinnedFrame
  <2>10. NumCached'
    <3>1. ASSUME NEW c \in Chunks PROVE Counted(c)' <=> Counted(c)
      <4>1. model.mtx_[c] \in Threads \union {Free}
        BY <1>1 DEF Models
      <4>2. th'[t] = l /\ \A u \in Threads \ {t} : th'[u] = th[u]
        BY <1>2, <1>4, Replaced
      <4> QED BY <1>6, <1>7, <4>1, <4>2 DEF Counted, At
    <3> QED BY <1>7, <2>1, <2>2, <3>1, SameCount
  <2> QED BY <2>4, <2>7, <2>8, <2>9, <2>10 DEF FlagsInv
<1> QED BY <1>8, <1>9 DEF Kept, Intact

LEMMA Touched ==
  ASSUME model \in Models, NEW c \in Chunks
  PROVE  /\ touch(c) \in Models /\ touch(c).mtx_ = model.mtx_
         /\ touch(c).is_cached_ = model.is_cached_ /\ touch(c).num_cached_ = model.num_cached_
         /\ touch(c).params_ = model.params_ /\ touch(c).disk = model.disk
         /\ touch(c).prepare_count_ = model.prepare_count_
<1>1. CASE kind = "LRU"
  <2>1. touch(c) = LRUTouch(c)
    BY <1>1 DEF touch
  <2>2. PICK r : r = [model.rank_ EXCEPT ![c] = model.access_count_ + 1]
    OBVIOUS
  <2>3. touch(c) = [model EXCEPT !.rank_ = r, !.access_count_ = model.access_count_ + 1]
    BY <2>1, <2>2 DEF LRUTouch, Models
  <2>4. r \in [Chunks -> Int] /\ model.access_count_ + 1 \in Int
    BY <2>2 DEF Models
  <2> QED BY <2>3, <2>4 DEF Models
<1>2. CASE kind = "LFU"
  <2>1. touch(c) = LFUTouch(c)
    BY <1>2 DEF touch
  <2> QED BY <2>1 DEF LFUTouch, Models
<1>3. CASE kind \notin {"LRU", "LFU"}
  BY <1>3 DEF touch
<1> QED BY <1>1, <1>2, <1>3

\* An update to a chunk, which the thread no longer needs afterwards.
LEMMA AddChunkCache ==
  ASSUME ModelTyped, Intact => FlagsInv, NEW t \in Threads, AddChunk(t), Same, UNCHANGED lost
  PROVE  Kept
<1> DEFINE c == Min(th[t].todo)
           l == [th[t] EXCEPT !.todo = @ \ {c}]
<1>1. /\ th \in [Threads -> LocalState] /\ th[t] \in LocalState /\ Placed(th[t])
      /\ model \in Models /\ applied \in [Chunks -> Nat]
  BY StateOf
<1>2. /\ th' = [th EXCEPT ![t] = l] /\ th[t].pc = "write" /\ th[t].todo # {}
      /\ kind \notin {"MT", "Integral"} /\ model.mtx_[c] = Free
      /\ model' = IF Replacing THEN CachePush(c) ELSE [model EXCEPT !.params_[c] = Add(@)]
      /\ applied' = [applied EXCEPT ![c] = @ + 1]
  BY <1>1 DEF AddChunk, At
<1>3. c \in th[t].todo /\ c \in Chunks
  BY <1>1, <1>2, NextChunk DEF LocalState
<1> HIDE DEF c
<1>4. /\ l.pc = "write" /\ l.req = th[t].req /\ l.todo = th[t].todo \ {c}
      /\ l.fetch = th[t].fetch /\ l.check = th[t].check /\ l.pool = th[t].pool
      /\ l.val = th[t].val
  BY <1>1, <1>2 DEF LocalState
<1>5. l \in LocalState
  BY <1>1 DEF LocalState
<1> HIDE DEF l
<1>6. Placed(l)
  BY <1>1, <1>2, <1>4 DEF Placed, Filling, Evicting, Training
<1>7. /\ Missing(th[t]) = {} /\ Missing(l) = {} /\ Brought(th[t]) = {} /\ Brought(l) = {}
      /\ Chosen(th[t]) = {} /\ Chosen(l) = {} /\ Evicted(th[t]) = {} /\ Evicted(l) = {}
      /\ Held(th[t]) = {} /\ Held(l) = {}
      /\ Passed(th[t]) = th[t].todo /\ Passed(l) = th[t].todo \ {c}
      /\ th[t].pc # "scan" /\ l.pc # "scan" /\ th[t].pc \notin Filling
  BY <1>2, <1>4 DEF Held, Missing, Brought, Chosen, Evicted, Passed, Evicting, Filling
<1>8. Add(model.params_[c]) \in Amount /\ (Add(model.params_[c]) = None <=> model.params_[c] = None)
  BY <1>1, <1>3, NobodyFree DEF Models, Amount, Add
<1>9. /\ model' \in Models /\ applied' \in [Chunks -> Nat]
      /\ model'.mtx_ = model.mtx_ /\ model'.is_cached_ = model.is_cached_
      /\ model'.num_cached_ = model.num_cached_
      /\ \A d \in Chunks :
           /\ model'.params_[d] = IF d = c THEN Add(model.params_[d]) ELSE model.params_[d]
           /\ Replacing =>
                model'.prepare_count_[d] = IF d = c THEN model.prepare_count_[d] - 1
                                           ELSE model.prepare_count_[d]
  <2>1. CASE Replacing
    <3>1. PICK m : m = touch(c)
      OBVIOUS
    <3>2. /\ m \in Models /\ m.mtx_ = model.mtx_ /\ m.is_cached_ = model.is_cached_
          /\ m.num_cached_ = model.num_cached_ /\ m.params_ = model.params_
          /\ m.prepare_count_ = model.prepare_count_
      BY <1>1, <1>3, <3>1, Touched
    <3>3. PICK p : p = [model.params_ EXCEPT ![c] = Add(@)]
      OBVIOUS
    <3>4. PICK n : n = [model.prepare_count_ EXCEPT ![c] = @ - 1]
      OBVIOUS
    <3>5. model' = [m EXCEPT !.params_[c] = Add(@), !.prepare_count_[c] = @ - 1]
      BY <1>2, <2>1, <3>1 DEF CachePush
    <3>6. model' = [m EXCEPT !.params_ = p, !.prepare_count_ = n]
      BY <3>2, <3>3, <3>4, <3>5 DEF Models
    <3>7. /\ p \in [Chunks -> Amount] /\ n \in [Chunks -> Int]
          /\ \A d \in Chunks :
               /\ p[d] = IF d = c THEN Add(model.params_[d]) ELSE model.params_[d]
               /\ n[d] = IF d = c THEN model.prepare_count_[d] - 1 ELSE model.prepare_count_[d]
      BY <1>1, <1>3, <1>8, <3>3, <3>4 DEF Models, Amount
    <3>8. applied' \in [Chunks -> Nat]
      BY <1>1, <1>2, <1>3
    <3> QED BY <1>1, <3>2, <3>6, <3>7, <3>8 DEF Models
  <2>2. CASE ~Replacing
    BY <1>1, <1>2, <1>3, <1>8, <2>2 DEF Models, Amount
  <2> QED BY <2>1, <2>2
<1>10. ModelTyped'
  BY <1>1, <1>2, <1>5, <1>6, <1>9, TypedFrame
<1>11. ASSUME Intact PROVE FlagsInv'
  <2>1. LocksKept /\ Wanted /\ Checked /\ Pinned /\ NumCached
    BY <1>11 DEF FlagsInv
  <2>2. kind' = kind /\ UNCHANGED <<kind, api, table, limits>>
    BY DEF Same
  <2>3. model.params_[c] # None
    <3>1. Ready(c)
      BY <1>2, <1>3, <1>7, <2>1 DEF Wanted
    <3> QED BY <1>2, <1>3, <2>1, <3>1 DEF LocksKept, Ready
  <2>4. \A d \in Chunks : model'.params_[d] # None <=> model.params_[d] # None
    BY <1>8, <1>9, <2>3, NobodyFree
  <2>5. ASSUME NEW d \in Chunks PROVE LockStep(t, l, d)
    <3>1. /\ model.mtx_[d] = t <=> d \in Held(th[t])
          /\ kind # "Integral" /\ model.mtx_[d] = Free =>
               (model.is_cached_[d] <=> model.params_[d] # None)
      BY <2>1 DEF LocksKept
    <3> QED BY <1>7, <1>9, <2>4, <3>1, NobodyFree DEF LockStep
  <2>6. LocksKept'
    BY <1>2, <1>5, <1>9, <2>1, <2>2, <2>5, LocksFrame
  <2>7. \A d : Ready(d)' <=> Ready(d)
    BY <1>9 DEF Ready
  <2>8. ASSUME kind # "Integral", NEW d \in Passed(l)
        PROVE  \/ Ready(d)'
               \/ d \in Missing(l) \union Brought(l)
               \/ l.pc \in Filling /\ d \in l.check /\ ~Replacing
    <3>1. d \in Passed(th[t])
      BY <1>7
    <3> QED BY <1>7, <2>1, <2>7, <2>8, <3>1 DEF Wanted
  <2>9. Wanted'
    BY <1>2, <1>5, <2>1, <2>2, <2>7, <2>8, WantedFrame
  <2>10. ~Replacing => \A d \in l.check : model'.is_cached_[d] \/ model'.mtx_[d] # Free
    BY <1>4, <1>9, <2>1 DEF Checked
  <2>11. Checked'
    BY <1>2, <1>5, <1>9, <2>1, <2>2, <2>10, CheckedFrame
  <2>12. Pinned'
    <3>1. Replacing => \A d \in Chunks : PinStep(t, l, d)
      BY <1>3, <1>7, <1>9 DEF PinStep
    <3> QED BY <1>2, <1>5, <2>1, <2>2, <3>1, PinnedFrame
  <2>13. NumCached'
    <3>1. ASSUME NEW d \in Chunks PROVE Counted(d)' <=> Counted(d)
      <4>1. model.mtx_[d] \in Threads \union {Free}
        BY <1>1 DEF Models
      <4>2. th'[t] = l /\ \A u \in Threads \ {t} : th'[u] = th[u]
        BY <1>2, <1>5, Replaced
      <4> QED BY <1>7, <1>9, <4>1, <4>2 DEF Counted, At
    <3> QED BY <1>9, <2>1, <2>2, <3>1, SameCount
  <2> QED BY <2>6, <2>9, <2>11, <2>12, <2>13 DEF FlagsInv
<1> QED BY <1>10, <1>11 DEF Kept, Intact
\* A pass over the chunks locks those that nobody needs.
LEMMA ScanOn ==
  ASSUME ModelTyped, Intact => FlagsInv, NEW t \in Threads, th[t].pc = "scan",
         NEW todo \in SUBSET Chunks, th' = [th EXCEPT ![t] = [th[t] EXCEPT !.todo = todo]],
         model' = model, Same, UNCHANGED <<applied, lost>>
  PROVE  Kept
<1> DEFINE l == [th[t] EXCEPT !.todo = todo]
<1>1. th \in [Threads -> LocalState] /\ th[t] \in LocalState /\ Placed(th[t]) /\ model \in Models
  BY StateOf
<1>2. /\ l.pc = "scan" /\ l.req = th[t].req /\ l.todo = todo /\ l.fetch = th[t].fetch
      /\ l.check = th[t].check /\ l.pool = th[t].pool /\ l.val = th[t].val
  BY <1>1 DEF LocalState
<1>3. l \in LocalState
  BY <1>1 DEF LocalState
<1>4. th' = [th EXCEPT ![t] = l]
  OBVIOUS
<1> HIDE DEF l
<1>5. Placed(l)
  BY <1>1, <1>2 DEF Placed, Filling, Evicting, Training
<1>6. ModelTyped'
  BY <1>1, <1>3, <1>4, <1>5, TypedFrame, StateOf
<1>7. /\ Missing(l) = Missing(th[t]) /\ Brought(l) = Brought(th[t])
      /\ Chosen(l) = Chosen(th[t]) /\ Evicted(l) = Evicted(th[t])
      /\ Passed(l) = Passed(th[t]) /\ th[t].pc \notin Filling
  BY <1>2 DEF Missing, Brought, Chosen, Evicted, Passed, Evicting, Filling
<1>8. Intact => FlagsInv'
  BY <1>1, <1>2, <1>3, <1>4, <1>7, LocalStep
<1> QED BY <1>6, <1>8 DEF Kept, Intact

LEMMA ScanLock ==
  ASSUME ModelTyped, Intact => FlagsInv, NEW t \in Threads, th[t].pc = "scan",
         NEW todo \in SUBSET Chunks, NEW c \in Chunks, Unprotected(c),
         th' = [th EXCEPT ![t] = [th[t] EXCEPT !.pool = th[t].pool \union {c}, !.todo = todo]],
         model' = [model EXCEPT !.mtx_[c] = t], Same, UNCHANGED <<applied, lost>>
  PROVE  Kept
<1> DEFINE p == th[t].pool
           l == [th[t] EXCEPT !.pool = p \union {c}, !.todo = todo]
<1>1. /\ th \in [Threads -> LocalState] /\ th[t] \in LocalState /\ Placed(th[t])
      /\ model \in Models /\ applied \in [Chunks -> Nat]
  BY StateOf
<1>2. /\ l.pc = "scan" /\ l.req = th[t].req /\ l.todo = todo /\ l.fetch = th[t].fetch
      /\ l.check = th[t].check /\ l.pool = p \union {c} /\ l.val = th[t].val
  BY <1>1 DEF LocalState
<1>3. l \in LocalState
  BY <1>1 DEF LocalState
<1>4. th' = [th EXCEPT ![t] = l]
  OBVIOUS
<1> HIDE DEF l
<1>5. Placed(l) /\ Replacing /\ kind # "Integral"
  BY <1>1, <1>2 DEF Placed, Filling, Evicting, Training, Caching, Replacing
<1>6. /\ Missing(l) = th[t].fetch /\ Missing(th[t]) = th[t].fetch
      /\ Brought(l) = {} /\ Brought(th[t]) = {} /\ Chosen(l) = p \union {c} /\ Chosen(th[t]) = p
      /\ Evicted(l) = {} /\ Evicted(th[t]) = {} /\ Passed(l) = Passed(th[t])
      /\ Held(th[t]) = th[t].fetch \union p /\ Held(l) = th[t].fetch \union p \union {c}
  BY <1>2 DEF Held, Missing, Brought, Chosen, Evicted, Passed, Evicting
<1>7. /\ model' \in Models /\ model'.params_ = model.params_
      /\ model'.is_cached_ = model.is_cached_ /\ model'.num_cached_ = model.num_cached_
      /\ model'.prepare_count_ = model.prepare_count_
      /\ \A d \in Chunks : model'.mtx_[d] = IF d = c THEN t ELSE model.mtx_[d]
  BY <1>1 DEF Models
<1>8. ModelTyped'
  BY <1>1, <1>3, <1>4, <1>5, <1>7, TypedFrame
<1>9. ASSUME Intact PROVE FlagsInv'
  <2>1. LocksKept /\ Wanted /\ Checked /\ Pinned /\ NumCached
    BY <1>9 DEF FlagsInv
  <2>2. kind' = kind /\ UNCHANGED <<kind, api, table, limits>>
    BY DEF Same
  <2>3. /\ model.is_cached_[c] /\ model.mtx_[c] = Free /\ model.params_[c] # None
        /\ \A u \in Threads : c \notin Passed(th[u])
    BY <1>5, <2>1, Unpinned DEF Unprotected, LocksKept
  <2>4. ASSUME NEW d \in Chunks PROVE LockStep(t, l, d)
    <3>1. /\ model.mtx_[d] = t <=> d \in Held(th[t])
          /\ model.mtx_[d] = t => Fits(model, th[t], d)
          /\ model.mtx_[d] = Free => (model.is_cached_[d] <=> model.params_[d] # None)
      BY <1>5, <2>1 DEF LocksKept
    <3>2. CASE d = c
      <4>1. d \notin Held(th[t]) /\ model'.mtx_[d] = t
        BY <1>7, <2>3, <3>1, <3>2, NobodyFree
      <4>2. Fits(model', l, d)
        BY <1>6, <1>7, <2>3, <3>2, <4>1 DEF Fits
      <4> QED BY <1>6, <2>3, <3>2, <4>1, <4>2, NobodyFree DEF LockStep
    <3>3. CASE d # c
      <4>1. model.mtx_[d] = t => Fits(model', l, d)
        BY <1>6, <1>7, <3>1, <3>3 DEF Fits
      <4> QED BY <1>6, <1>7, <3>1, <3>3, <4>1, NobodyFree DEF LockStep
    <3> QED BY <3>2, <3>3
  <2>5. LocksKept'
    BY <1>3, <1>4, <1>7, <2>1, <2>2, <2>4, LocksFrame
  <2>6. ASSUME NEW d \in Chunks, Ready(d), d # c PROVE Ready(d)'
    BY <1>7, <2>6 DEF Ready
  <2>7. ASSUME kind # "Integral", NEW d \in Passed(l)
        PROVE  \/ Ready(d)'
               \/ d \in Missing(l) \union Brought(l)
               \/ l.pc \in Filling /\ d \in l.check /\ ~Replacing
    <3>1. d # c /\ d \in Chunks
      BY <1>1, <1>6, <2>3 DEF Passed, LocalState
    <3> QED BY <1>5, <1>6, <2>1, <2>6, <2>7, <3>1 DEF Wanted
  <2>8. Wanted'
    <3>1. \A d \in Chunks : Ready(d) => \/ Ready(d)'
                                        \/ \A u \in Threads \ {t} : d \notin Passed(th[u])
      BY <2>3, <2>6
    <3> QED BY <1>3, <1>4, <2>1, <2>2, <2>7, <3>1, WantedFrame
  <2>9. Checked'
    BY <1>5, <2>2 DEF Checked, Replacing
  <2>10. Pinned'
    <3>1. Replacing => \A d \in Chunks : PinStep(t, l, d)
      BY <1>6, <1>7 DEF PinStep
    <3> QED BY <1>3, <1>4, <2>1, <2>2, <3>1, PinnedFrame
  <2>11. NumCached'
    <3>1. ASSUME NEW d \in Chunks PROVE Counted(d)' <=> Counted(d)
      <4>1. model.mtx_[d] \in Threads \union {Free}
        BY <1>1 DEF Models
      <4>2. th'[t] = l /\ \A u \in Threads \ {t} : th'[u] = th[u]
        BY <1>3, <1>4, Replaced
      <4>3. CASE d = c
        BY <1>2, <1>7, <2>3, <4>2, <4>3 DEF Counted, At
      <4>4. CASE d # c
        BY <1>2, <1>7, <4>1, <4>2, <4>4 DEF Counted, At
      <4> QED BY <4>3, <4>4
    <3> QED BY <1>7, <2>1, <2>2, <3>1, SameCount
  <2> QED BY <2>5, <2>8, <2>9, <2>10, <2>11 DEF FlagsInv
<1> QED BY <1>8, <1>9 DEF Kept, Intact

LEMMA ScanCache ==
  ASSUME ModelTyped, Intact => FlagsInv, NEW t \in Threads, Scan(t), Same,
         UNCHANGED <<applied, lost>>
  PROVE  Kept
<1>1. /\ th \in [Threads -> LocalState] /\ th[t] \in LocalState /\ Placed(th[t])
      /\ model \in Models /\ applied \in [Chunks -> Nat]
  BY StateOf
<1>2. th[t].pc = "scan"
  BY DEF Scan, At
<1>3. CASE th[t].todo = {}
  <2>1. th' = [th EXCEPT ![t] = [th[t] EXCEPT !.todo = Chunks]] /\ model' = model
    BY <1>1, <1>3 DEF Scan
  <2> QED BY <1>2, <2>1, ScanOn
<1>4. CASE th[t].todo # {}
  <2> DEFINE c == Min(th[t].todo)
             pool == IF Unprotected(c) THEN th[t].pool \union {c} ELSE th[t].pool
             stop == kind = "Random" /\ Cardinality(pool) = limits.num_dumps
             todo == IF stop THEN {} ELSE th[t].todo \ {c}
  <2>1. /\ th' = [th EXCEPT ![t] = [th[t] EXCEPT !.pool = pool, !.todo = todo]]
        /\ model' = [model EXCEPT !.mtx_[c] = IF Unprotected(c) THEN t ELSE @]
    BY <1>1, <1>4 DEF Scan
  <2>2. c \in Chunks
    BY <1>1, <1>4, NextChunk DEF LocalState
  <2>3. todo \in SUBSET Chunks
    BY <1>1 DEF LocalState
  <2> HIDE DEF c, todo
  <2>4. CASE Unprotected(c)
    BY <1>2, <2>1, <2>2, <2>3, <2>4, ScanLock
  <2>5. CASE ~Unprotected(c)
    <3>1. [th[t] EXCEPT !.pool = pool, !.todo = todo] = [th[t] EXCEPT !.todo = todo]
      BY <1>1, <2>5 DEF LocalState
    <3>2. model' = model
      BY <1>1, <2>1, <2>2, <2>5 DEF Models
    <3>3. th' = [th EXCEPT ![t] = [th[t] EXCEPT !.todo = todo]]
      BY <2>1, <3>1
    <3> QED BY <1>2, <2>3, <3>2, <3>3, ScanOn
  <2> QED BY <2>4, <2>5
<1> QED BY <1>3, <1>4
\* The chunks asked for are pinned, and those not in memory locked.
LEMMA LockChunksCache ==
  ASSUME ModelTyped, Intact => FlagsInv, NEW t \in Threads, LockChunks(t), Same,
         UNCHANGED <<applied, lost>>
  PROVE  Kept
<1> DEFINE req == th[t].req
           need == {c \in req : ~model.is_cached_[c]}
           full == Overflow(Cardinality(need))
           l == IF need = {} THEN Copy(th[t])
                ELSE [th[t] EXCEPT !.fetch = need, !.todo = {}, !.pc = IF full THEN "scan"
                                                                      ELSE "fetch"]
           g == IF need # {} /\ full THEN t ELSE Free
           n == IF full THEN model.num_cached_ ELSE model.num_cached_ + Cardinality(need)
<1>1. /\ th \in [Threads -> LocalState] /\ th[t] \in LocalState /\ Placed(th[t])
      /\ model \in Models /\ applied \in [Chunks -> Nat]
  BY StateOf
<1>2. /\ th' = [th EXCEPT ![t] = l] /\ th[t].pc = "lock"
      /\ \A c \in req : model.mtx_[c] = Free
      /\ model' = [model EXCEPT
          !.prepare_count_ = [c \in Chunks |-> IF c \in req THEN @[c] + 1 ELSE @[c]],
          !.mtx_ = [c \in Chunks |-> IF c \in need THEN t ELSE @[c]],
          !.global_mtx_ = g, !.num_cached_ = n]
  BY <1>1 DEF LockChunks, At
<1>3. need \in SUBSET Chunks /\ need \subseteq req /\ req \in SUBSET Chunks
      /\ \A c \in req : c \in need <=> ~model.is_cached_[c]
  BY <1>1 DEF LocalState
<1>4. Cardinality(need) \in Nat /\ g \in Threads \union {Free}
  BY <1>3, ChunksAssumption, FS_Subset, FS_CardinalityType
<1> HIDE DEF need
<1>5. n \in Int
  BY <1>1, <1>4 DEF Models
<1>6. /\ l.pc = IF need = {} THEN "read" ELSE IF full THEN "scan" ELSE "fetch"
      /\ l.req = req /\ l.fetch = need /\ l.check = {} /\ l.pool = {}
  BY <1>1, <1>2 DEF LocalState, Copy, Placed, Filling, Evicting
<1>7. l \in LocalState
  BY <1>1, <1>3 DEF LocalState, Labels, Looping, Training, Copy
<1> HIDE DEF l, g, n, full
<1>8. Replacing /\ kind # "Integral"
  BY <1>1, <1>2 DEF Placed, Caching, Replacing
<1>9. Placed(l)
  BY <1>1, <1>2, <1>3, <1>6, <1>8 DEF Placed, Filling, Evicting, Training
<1>10. /\ Missing(th[t]) = {} /\ Brought(th[t]) = {} /\ Chosen(th[t]) = {} /\ Evicted(th[t]) = {}
       /\ Missing(l) = need /\ Brought(l) = {} /\ Chosen(l) = {} /\ Evicted(l) = {}
       /\ Held(th[t]) = {} /\ Held(l) = need /\ Passed(th[t]) = {} /\ Passed(l) = req
  BY <1>2, <1>6 DEF Held, Missing, Brought, Chosen, Evicted, Passed, Evicting
<1>11. /\ model' \in Models /\ model'.params_ = model.params_
       /\ model'.is_cached_ = model.is_cached_ /\ model'.num_cached_ = n
       /\ \A c \in Chunks :
            /\ model'.mtx_[c] = IF c \in need THEN t ELSE model.mtx_[c]
            /\ model'.prepare_count_[c] = IF c \in req THEN model.prepare_count_[c] + 1
                                          ELSE model.prepare_count_[c]
  <2>1. PICK p : p = [c \in Chunks |-> IF c \in req THEN model.prepare_count_[c] + 1
                                       ELSE model.prepare_count_[c]]
    OBVIOUS
  <2>2. PICK m : m = [c \in Chunks |-> IF c \in need THEN t ELSE model.mtx_[c]]
    OBVIOUS
  <2>3. model' = [model EXCEPT !.prepare_count_ = p, !.mtx_ = m, !.global_mtx_ = g,
                               !.num_cached_ = n]
    BY <1>2, <2>1, <2>2
  <2>4. p \in [Chunks -> Int] /\ m \in [Chunks -> Threads \union {Free}]
    BY <1>1, <2>1, <2>2 DEF Models
  <2>5. /\ model' \in Models /\ model'.params_ = model.params_
        /\ model'.is_cached_ = model.is_cached_ /\ model'.num_cached_ = n
        /\ model'.mtx_ = m /\ model'.prepare_count_ = p
    BY <1>1, <1>4, <1>5, <2>3, <2>4 DEF Models
  <2> QED BY <2>1, <2>2, <2>5
<1>12. ModelTyped'
  BY <1>1, <1>2, <1>7, <1>9, <1>11, TypedFrame
<1>13. ASSUME Intact PROVE FlagsInv'
  <2>1. LocksKept /\ Wanted /\ Checked /\ Pinned /\ NumCached
    BY <1>13 DEF FlagsInv
  <2>2. kind' = kind /\ UNCHANGED <<kind, api, table, limits>>
    BY DEF Same
  <2>3. ASSUME NEW c \in Chunks
        PROVE  /\ model.mtx_[c] # t
               /\ model.mtx_[c] = Free => (model.is_cached_[c] <=> model.params_[c] # None)
    BY <1>8, <1>10, <2>1 DEF LocksKept
  <2>4. ASSUME NEW c \in need
        PROVE  ~model.is_cached_[c] /\ model.mtx_[c] = Free /\ model.params_[c] = None
    BY <1>2, <1>3, <2>3
  <2>5. ASSUME NEW c \in Chunks PROVE LockStep(t, l, c)
    <3>1. CASE c \in need
      <4>1. Fits(model', l, c)
        BY <1>10, <1>11, <2>4, <3>1 DEF Fits
      <4> QED BY <1>10, <1>11, <2>4, <3>1, <4>1, NobodyFree DEF LockStep
    <3>2. CASE c \notin need
      BY <1>10, <1>11, <2>3, <3>2, NobodyFree DEF LockStep
    <3> QED BY <3>1, <3>2
  <2>6. LocksKept'
    BY <1>2, <1>7, <1>11, <2>1, <2>2, <2>5, LocksFrame
  <2>7. ASSUME NEW c \in Chunks, Ready(c) PROVE Ready(c)'
    BY <1>11, <2>4, <2>7 DEF Ready
  <2>8. ASSUME kind # "Integral", NEW c \in Passed(l)
        PROVE  \/ Ready(c)'
               \/ c \in Missing(l) \union Brought(l)
               \/ l.pc \in Filling /\ c \in l.check /\ ~Replacing
    <3>1. CASE c \in need
      BY <1>10, <3>1
    <3>2. CASE c \notin need
      <4>1. Ready(c) /\ c \in Chunks
        BY <1>2, <1>3, <1>10, <3>2 DEF Ready
      <4> QED BY <2>7, <4>1
    <3> QED BY <3>1, <3>2
  <2>9. Wanted'
    BY <1>2, <1>7, <2>1, <2>2, <2>7, <2>8, WantedFrame
  <2>10. Checked'
    BY <1>8, <2>2 DEF Checked, Replacing
  <2>11. Pinned'
    <3>1. Replacing => \A c \in Chunks : PinStep(t, l, c)
      BY <1>10, <1>11 DEF PinStep
    <3> QED BY <1>2, <1>7, <2>1, <2>2, <3>1, PinnedFrame
  <2>12. th'[t] = l /\ \A u \in Threads \ {t} : th'[u] = th[u]
    BY <1>2, <1>7, Replaced
  <2>13. ASSUME NEW c \in Chunks, c \notin need PROVE Counted(c)' <=> Counted(c)
    <3>1. model.mtx_[c] \in Threads \union {Free}
      BY <1>1 DEF Models
    <3>2. model'.mtx_[c] = model.mtx_[c] /\ model.mtx_[c] # t
      BY <1>11, <2>3, <2>13
    <3> QED BY <1>11, <2>12, <3>1, <3>2 DEF Counted, At
  <2>14. ASSUME NEW c \in need PROVE ~Counted(c) /\ (Counted(c)' <=> ~full)
    <3>1. model'.mtx_[c] = t /\ ~model'.is_cached_[c] /\ t # Free
      BY <1>3, <1>11, <2>4, NobodyFree
    <3>2. th'[t].pc = "scan" <=> full
      BY <1>6, <2>12
    <3> QED BY <2>4, <3>1, <3>2 DEF Counted, At
  <2>15. NumCached'
    <3>1. CASE full
      <4>1. model'.num_cached_ = model.num_cached_
        BY <1>11, <3>1 DEF n
      <4>2. \A c \in Chunks : Counted(c)' <=> Counted(c)
        BY <2>13, <2>14, <3>1
      <4> QED BY <2>1, <2>2, <4>1, <4>2, SameCount
    <3>2. CASE ~full
      <4> DEFINE E == {}
      <4>1. Cardinality(E) = 0 /\ E \in SUBSET Chunks /\ \A c : c \notin E
        BY FS_EmptySet
      <4> HIDE DEF E
      <4>2. model'.num_cached_ = model.num_cached_ - Cardinality(E) + Cardinality(need)
        BY <1>1, <1>4, <1>11, <3>2, <4>1 DEF n, Models
      <4>3. model'.num_cached_ <= limits.cache_threshold_
        <5>1. limits.cache_threshold_ \in Nat
          BY Limited
        <5> QED BY <1>1, <1>4, <1>11, <3>2, <5>1 DEF n, full, Overflow, Models
      <4>4. \A c \in Chunks : /\ Counted(c)' <=> c \in need \/ (Counted(c) /\ c \notin E)
                              /\ c \in E => Counted(c)
                              /\ c \in need => ~Counted(c)
        BY <2>13, <2>14, <3>2, <4>1
      <4> QED BY <1>3, <2>1, <2>2, <4>1, <4>2, <4>3, <4>4, CountFrame
    <3> QED BY <3>1, <3>2
  <2> QED BY <2>6, <2>9, <2>10, <2>11, <2>15 DEF FlagsInv
<1> QED BY <1>12, <1>13 DEF Kept, Intact
\* What is replaced makes room for what is to be fetched.
LEMMA ReplaceCache ==
  ASSUME ModelTyped, Intact => FlagsInv, NEW t \in Threads, Replace(t), Same,
         UNCHANGED <<applied, lost>>
  PROVE  Kept
<1> DEFINE p == th[t].pool
           f == th[t].fetch
<1>1. /\ th \in [Threads -> LocalState] /\ th[t] \in LocalState /\ Placed(th[t])
      /\ model \in Models /\ applied \in [Chunks -> Nat]
  BY StateOf
<1>2. PICK v \in Victims(p) :
        /\ model' = [model EXCEPT
             !.mtx_ = Unlock(@, p \ v), !.global_mtx_ = Free,
             !.num_cached_ = @ + Cardinality(f) - Cardinality(v), !.rank_ = LFUReset(v)]
        /\ th' = [th EXCEPT ![t].pool = v, ![t].pc = IF v = {} THEN "fetch" ELSE "flush"]
  BY DEF Replace
<1>3. th[t].pc = "scan" /\ th[t].todo = {} /\ Cardinality(p) >= limits.num_dumps
  BY DEF Replace, At
<1>4. Replacing /\ kind # "Integral" /\ f \subseteq th[t].req
      /\ Cardinality(th[t].req) <= table.request
  BY <1>1, <1>3 DEF Placed, Caching, Evicting, Training, Replacing
<1>5. v \subseteq p /\ Cardinality(v) >= limits.num_dumps
  <2>1. CASE kind = "Random"
    BY <1>3, <2>1 DEF Victims, RandomVictims
  <2>2. CASE kind # "Random"
    <3>1. v \in kSubset(limits.num_dumps, p)
      BY <2>2 DEF Victims, LeastRanked
    <3>2. v \subseteq p /\ Cardinality(v) = limits.num_dumps
      BY <3>1 DEF kSubset
    <3> QED BY <3>2, Limited
  <2> QED BY <2>1, <2>2
<1>6. f \in SUBSET Chunks /\ v \in SUBSET Chunks /\ p \in SUBSET Chunks
      /\ th[t].req \in SUBSET Chunks
  BY <1>1, <1>5 DEF LocalState
<1>7. /\ Cardinality(f) \in Nat /\ Cardinality(v) \in Nat /\ Cardinality(th[t].req) \in Nat
      /\ Cardinality(f) <= Cardinality(th[t].req)
  <2>1. IsFiniteSet(f) /\ IsFiniteSet(v) /\ IsFiniteSet(th[t].req)
    BY <1>6, ChunksAssumption, FS_Subset
  <2> QED BY <1>4, <2>1, FS_CardinalityType, FS_Subset
<1> DEFINE l == [th[t] EXCEPT !.pool = v, !.pc = IF v = {} THEN "fetch" ELSE "flush"]
<1>8. th' = [th EXCEPT ![t] = l]
  BY <1>1, <1>2
<1>9. /\ l.pc = IF v = {} THEN "fetch" ELSE "flush"
      /\ l.req = th[t].req /\ l.fetch = f /\ l.check = th[t].check /\ l.pool = v
  BY <1>1 DEF LocalState
<1>10. l \in LocalState
  BY <1>1, <1>6 DEF LocalState, Labels, Looping, Training
<1> HIDE DEF l, p, f
<1>11. Placed(l)
  BY <1>1, <1>3, <1>4, <1>9 DEF Placed, Filling, Evicting, Training, f
<1>12. /\ Missing(th[t]) = f /\ Brought(th[t]) = {} /\ Chosen(th[t]) = p /\ Evicted(th[t]) = {}
       /\ Missing(l) = f /\ Brought(l) = {} /\ Chosen(l) = v /\ Evicted(l) = {}
       /\ Held(th[t]) = f \union p /\ Held(l) = f \union v /\ Passed(l) = Passed(th[t])
       /\ l.pc # "scan"
  BY <1>3, <1>9 DEF Held, Missing, Brought, Chosen, Evicted, Passed, Evicting, p, f
<1>13. /\ model' \in Models /\ model'.params_ = model.params_
       /\ model'.is_cached_ = model.is_cached_ /\ model'.prepare_count_ = model.prepare_count_
       /\ model'.num_cached_ = model.num_cached_ + Cardinality(f) - Cardinality(v)
       /\ \A c \in Chunks : model'.mtx_[c] = IF c \in p \ v THEN Free ELSE model.mtx_[c]
  <2>1. PICK m : m = Unlock(model.mtx_, p \ v)
    OBVIOUS
  <2>2. PICK r : r = LFUReset(v)
    OBVIOUS
  <2>3. PICK n : n = model.num_cached_ + Cardinality(f) - Cardinality(v)
    OBVIOUS
  <2>4. model' = [model EXCEPT !.mtx_ = m, !.global_mtx_ = Free, !.num_cached_ = n, !.rank_ = r]
    BY <1>2, <2>1, <2>2, <2>3 
  <2>5. m \in [Chunks -> Threads \union {Free}] /\ r \in [Chunks -> Int] /\ n \in Int
    BY <1>1, <1>7, <2>1, <2>2, <2>3 DEF Models, Unlock, LFUReset
  <2>6. /\ model' \in Models /\ model'.params_ = model.params_
        /\ model'.is_cached_ = model.is_cached_ /\ model'.prepare_count_ = model.prepare_count_
        /\ model'.num_cached_ = n /\ model'.mtx_ = m
    BY <1>1, <2>4, <2>5 DEF Models
  <2> QED BY <2>1, <2>3, <2>6 DEF Unlock
<1>14. ModelTyped'
  BY <1>1, <1>8, <1>10, <1>11, <1>13, TypedFrame
<1>15. ASSUME Intact PROVE FlagsInv'
  <2>1. LocksKept /\ Wanted /\ Checked /\ Pinned /\ NumCached
    BY <1>15 DEF FlagsInv
  <2>2. kind' = kind /\ UNCHANGED <<kind, api, table, limits>>
    BY DEF Same
  <2>3. ASSUME NEW c \in Chunks
        PROVE  /\ model.mtx_[c] = t <=> c \in f \union p
               /\ c \in p => c \notin f /\ model.is_cached_[c] /\ model.params_[c] # None
               /\ c \in f => ~model.is_cached_[c] /\ model.params_[c] = None
               /\ model.mtx_[c] = Free => (model.is_cached_[c] <=> model.params_[c] # None)
    <3>1. /\ model.mtx_[c] = t <=> c \in Held(th[t])
          /\ model.mtx_[c] = t => Fits(model, th[t], c)
          /\ model.mtx_[c] = Free => (model.is_cached_[c] <=> model.params_[c] # None)
      BY <1>4, <2>1 DEF LocksKept
    <3> QED BY <1>12, <3>1 DEF Fits
  <2>4. ASSUME NEW c \in Chunks PROVE LockStep(t, l, c)
    <3>1. CASE c \in p \ v
      BY <1>5, <1>12, <1>13, <2>3, <3>1, NobodyFree DEF LockStep
    <3>2. CASE c \notin p \ v
      <4>1. model'.mtx_[c] = model.mtx_[c]
        BY <1>13, <3>2
      <4>2. model.mtx_[c] = t => Fits(model', l, c)
        BY <1>5, <1>12, <1>13, <2>3, <3>2 DEF Fits
      <4> QED BY <1>5, <1>12, <1>13, <2>3, <3>2, <4>1, <4>2, NobodyFree DEF LockStep
    <3> QED BY <3>1, <3>2
  <2>5. LocksKept'
    BY <1>8, <1>10, <1>13, <2>1, <2>2, <2>4, LocksFrame
  <2>6. ASSUME NEW c \in Chunks, Ready(c) PROVE Ready(c)'
    BY <1>13, <2>6 DEF Ready
  <2>7. ASSUME kind # "Integral", NEW c \in Passed(l)
        PROVE  \/ Ready(c)'
               \/ c \in Missing(l) \union Brought(l)
               \/ l.pc \in Filling /\ c \in l.check /\ ~Replacing
    <3>1. c \in Passed(th[t]) /\ c \in Chunks
      BY <1>10, <1>12 DEF Passed, LocalState
    <3> QED BY <1>4, <1>12, <2>1, <2>6, <2>7, <3>1 DEF Wanted
  <2>8. Wanted'
    BY <1>8, <1>10, <2>1, <2>2, <2>6, <2>7, WantedFrame
  <2>9. Checked'
    BY <1>4, <2>2 DEF Checked, Replacing
  <2>10. Pinned'
    <3>1. Replacing => \A c \in Chunks : PinStep(t, l, c)
      BY <1>12, <1>13 DEF PinStep
    <3> QED BY <1>8, <1>10, <2>1, <2>2, <3>1, PinnedFrame
  <2>11. th'[t] = l /\ \A u \in Threads \ {t} : th'[u] = th[u]
    BY <1>8, <1>10, Replaced
  <2>12. ASSUME NEW c \in Chunks
         PROVE  /\ Counted(c)' <=> c \in f \/ (Counted(c) /\ c \notin v)
                /\ c \in v => Counted(c)
                /\ c \in f => ~Counted(c)
    <3>1. model.mtx_[c] \in Threads \union {Free} /\ t # Free
      BY <1>1, NobodyFree DEF Models
    <3>2. CASE c \in p \ v
      <4>1. c \notin f /\ model'.mtx_[c] = Free /\ model'.is_cached_[c] /\ model.mtx_[c] = t
            /\ model.is_cached_[c]
        BY <1>13, <2>3, <3>2
      <4> QED BY <1>3, <3>2, <4>1 DEF Counted, At
    <3>3. CASE c \in v
      <4>1. c \notin f /\ model'.mtx_[c] = t /\ model'.is_cached_[c] /\ model.mtx_[c] = t
            /\ model.is_cached_[c]
        BY <1>5, <1>13, <2>3, <3>3
      <4> QED BY <1>3, <1>12, <2>11, <3>1, <3>3, <4>1 DEF Counted, At
    <3>4. CASE c \in f
      <4>1. c \notin v /\ model'.mtx_[c] = t /\ ~model'.is_cached_[c] /\ model.mtx_[c] = t
            /\ ~model.is_cached_[c]
        BY <1>5, <1>13, <2>3, <3>4
      <4> QED BY <1>3, <1>12, <2>11, <3>1, <3>4, <4>1 DEF Counted, At
    <3>5. CASE c \notin f \union p
      <4>1. c \notin v /\ model'.mtx_[c] = model.mtx_[c] /\ model.mtx_[c] # t
            /\ model'.is_cached_[c] = model.is_cached_[c]
        BY <1>5, <1>13, <2>3, <3>5
      <4> QED BY <2>11, <3>1, <3>5, <4>1 DEF Counted, At
    <3> QED BY <3>2, <3>3, <3>4, <3>5
  <2>13. model'.num_cached_ = model.num_cached_ - Cardinality(v) + Cardinality(f)
    BY <1>1, <1>7, <1>13 DEF Models, f
  <2>14. Roomy => model'.num_cached_ <= limits.cache_threshold_
    <3>1. SUFFICES ASSUME Roomy PROVE model'.num_cached_ <= limits.cache_threshold_
      OBVIOUS
    <3>2. table.request <= limits.num_dumps
      BY <1>4, <3>1, Limited DEF Roomy
    <3>3. Cardinality(f) <= Cardinality(v)
      BY <1>4, <1>5, <1>7, <3>2, Limited DEF f
    <3>4. model.num_cached_ <= limits.cache_threshold_ /\ model.num_cached_ \in Int
      BY <1>1, <1>4, <2>1, <3>1 DEF NumCached, Models
    <3> QED BY <1>7, <2>13, <3>3, <3>4, Limited DEF f
  <2>15. NumCached'
    BY <1>6, <2>1, <2>2, <2>12, <2>13, <2>14, CountFrame DEF f
  <2> QED BY <2>5, <2>8, <2>9, <2>10, <2>15 DEF FlagsInv
<1> QED BY <1>14, <1>15 DEF Kept, Intact

\* Every step of a thread in the model keeps the model's part of the invariant.
LEMMA ModelCache ==
  ASSUME ModelTyped, Intact => FlagsInv, NEW t \in Threads, ModelStep(t), Same,
         kind = "Integral" => Whole(model.params_)
  PROVE  Kept
<1>1. CASE PrepareStep(t)
  BY <1>1, ChunkPrepareCache, CollectCache, FetchChunksCache, LoadWordCache,
     RecheckCache, AwaitCache, LockChunksCache, ScanCache, ReplaceCache, FlushToDiskCache
     DEF PrepareStep
<1>2. CASE StoreWord(t) /\ UNCHANGED applied
  BY <1>2, StoreWordCache
<1>3. CASE CopyChunk(t)
  BY <1>3, CopyChunkCache DEF CopyChunk
<1>4. CASE AddChunk(t)
  BY <1>4, AddChunkCache DEF AddChunk
<1>5. CASE RacyLoad(t)
  BY <1>5, RacyLoadCache DEF RacyLoad
<1>6. CASE RacyStore(t)
  BY <1>6, RacyStoreCache DEF RacyStore
<1> QED BY <1>1, <1>2, <1>3, <1>4, <1>5, <1>6 DEF ModelStep
------------------------------------------------------------------------------
(* The steps of a thread outside the model.                                *)

LEMMA Kinds ==
  ASSUME TypeOK
  PROVE  /\ kind \in {"Integral", "Chunk", "MT", "MTLock"} \union Caching
         /\ Replacing => kind \in Caching /\ table.chunk /\ table.mode_type = "SPMT"
         /\ ~table.chunk => kind \in {"Integral", "MTLock"}
         /\ kind = "Integral" => ~table.chunk
         /\ kind = "MT" => table.mode_type = "Hogwild"
         /\ kind = "Integral" => table.mode_type \in {"Hogwild", "Single"}
         /\ kind = "Chunk" => table.mode_type = "Single"
         /\ table.transfer => ~table.chunk
         /\ table.epochs \in Nat \ {0}
<1>1. /\ table.mode_type \in {"Single", "Hogwild", "SPMT"}
      /\ table.cache_strategy \in Caching \union {"None"}
      /\ table.chunk \in BOOLEAN /\ table.transfer \in BOOLEAN
      /\ table.chunk => ~table.transfer
      /\ table.epochs \in Nat \ {0}
  BY WorkersAssumption DEF TypeOK
<1>2. kind = ModelOf(table)
  BY DEF TypeOK
<1>3. CASE table.mode_type = "Single"
  BY <1>1, <1>2, <1>3 DEF ModelOf, Caching, Replacing
<1>4. CASE table.mode_type = "Hogwild"
  BY <1>1, <1>2, <1>4 DEF ModelOf, Caching, Replacing
<1>5. CASE table.mode_type = "SPMT"
  <2>1. kind = IF table.chunk /\ table.cache_strategy # "None" THEN table.cache_strategy
               ELSE "MTLock"
    BY <1>2, <1>5 DEF ModelOf
  <2> QED BY <1>1, <1>5, <2>1 DEF Caching, Replacing
<1> QED BY <1>1, <1>3, <1>4, <1>5

\* While one thread is in the loop, the leader is, and the model is nowhere else.
LEMMA LeaderLooping ==
  ASSUME Inv, CacheInv, NEW t \in Threads, th[t].pc \in Looping
  PROVE  /\ th[Leader].pc \in Looping /\ Loaded /\ Idle /\ Leader \in Threads /\ t \in Workers
         /\ th[Leader].pc \notin Start \union End
<1>1. TypeOK
  BY DEF Inv
<1>2. Leader \in Workers /\ Workers \subseteq Threads
  BY <1>1, Modes
<1>3. th[t].pc # "done"
  BY DEF Looping, Training
<1>4. t \in Workers
  BY <1>3, AWorker
<1>5. th[Leader].pc \in Looping
  BY <1>2, <1>4, AllLooping
<1>6. th[Leader].pc \notin Start \union End
  BY <1>5 DEF Start, End, Looping, Training
<1> QED BY <1>2, <1>4, <1>5, <1>6 DEF Loaded, CacheInv, Handed

LEMMA SameContent ==
  ASSUME UNCHANGED <<model, store, mailbox, kv>>
  PROVE  /\ \A c : Content(c)' = Content(c)
         /\ \A c : Outside(c)' = Outside(c)
BY DEF Content, Outside

\* A step between two places of the loop that leaves the model alone.
LEMMA LoopMove ==
  ASSUME Inv, CacheInv, KeptInv, NEW t \in Threads, NEW l \in LocalState,
         th' = [th EXCEPT ![t] = l], Same, UNCHANGED <<model, applied, lost>>,
         th[t].pc \in {"idle", "before_pull", "read", "before_push", "write"},
         l.pc \in {"idle", "before_pull", "prepare", "collect", "lock", "read", "before_push",
                   "write", "finished", "dump"},
         Placed(l), l.fetch = {}, l.check = {}, l.pool = {},
         kind # "Integral" => Passed(l) = Passed(th[t]),
         l.pc = "dump" => t = Leader
  PROVE  CacheInv' /\ KeptInv'
<1>1. /\ ModelTyped /\ Leading /\ WholeLoaded /\ Handed /\ (Intact => FlagsInv)
      /\ model \in Models /\ applied \in [Chunks -> Nat] /\ Placed(th[t])
  BY StateOf DEF CacheInv
<1>2. UNCHANGED <<kind, api, limits, table, kv, order, store, mailbox, epoch, unsaved>>
  BY DEF Same
<1>3. th[t].pc \in Looping
  BY DEF Looping, Training
<1>4. /\ th[Leader].pc \in Looping /\ Loaded /\ Idle /\ Leader \in Threads
      /\ th[Leader].pc \notin Start \union End
  BY <1>3, LeaderLooping
<1>5. th'[t] = l /\ \A u \in Threads \ {t} : th'[u] = th[u]
  BY <1>1, Replaced
<1>6. ModelTyped'
  BY <1>1, TypedFrame
<1>7. th'[Leader].pc \in Looping \union {"dump"}
  <2>1. l.pc \in Looping \union {"dump"}
    BY DEF Looping, Training
  <2> QED BY <1>4, <1>5, <2>1
<1>8. th'[Leader].pc \notin Start \union End
  BY <1>7 DEF Start, End, Looping, Training
<1>9. Leading' /\ WholeLoaded' /\ Handed'
  <2>1. Leading'
    BY <1>1, <1>5 DEF Leading, Leader
  <2>2. WholeLoaded'
    BY <1>1, <1>2, <1>4 DEF WholeLoaded, Loaded, Whole
  <2>3. Handed'
    BY <1>2, <1>4, <1>8 DEF Handed, Idle, NoParams, Leader, Start, End
  <2> QED BY <2>1, <2>2, <2>3
<1>10. Intact' <=> Intact
  BY <1>2 DEF Intact
<1>11. ASSUME Intact PROVE FlagsInv'
  <2>1. /\ Missing(l) = {} /\ Brought(l) = {} /\ Chosen(l) = {} /\ Evicted(l) = {}
        /\ Missing(th[t]) = {} /\ Brought(th[t]) = {} /\ Chosen(th[t]) = {}
        /\ Evicted(th[t]) = {} /\ l.pc # "scan" /\ th[t].pc \notin {"scan"} \union Filling
    BY DEF Missing, Brought, Chosen, Evicted, Evicting, Filling
  <2>2. Replacing => kind # "Integral"
    BY DEF Caching, Replacing
  <2> QED BY <1>1, <1>11, <2>1, <2>2, LocalStep
<1>12. KeptInv'
  <2> SUFFICES ASSUME Intact, table.mode_type # "Hogwild"
               PROVE  /\ \A c \in Chunks \ unsaved : Content(c)' = applied[c]
                      /\ ~Replacing => \A c \in Chunks : model.disk[c] = None
                      /\ \A u \in Threads : th'[u].pc = "add" =>
                                              th'[u].val = model.params_[Min(th'[u].todo)]
    BY <1>2, <1>8, <1>10 DEF KeptInv, At, Leader, Start, End, Replacing
  <2>2. ASSUME NEW u \in Threads, th'[u].pc = "add"
        PROVE  th'[u].val = model.params_[Min(th'[u].todo)]
    <3>1. u # t
      BY <1>5, <2>2
    <3>2. th'[u] = th[u]
      BY <1>5, <3>1
    <3> QED BY <2>2, <3>2 DEF KeptInv, At
  <2> QED BY <1>2, <2>2, SameContent DEF KeptInv
<1> QED BY <1>6, <1>9, <1>10, <1>11, <1>12 DEF CacheInv
\* What a thread has in its hands between two requests.
LEMMA EmptyHands ==
  ASSUME ModelTyped, NEW t \in Threads, th[t].pc \notin Filling \union Evicting
  PROVE  th[t].fetch = {} /\ th[t].check = {} /\ th[t].pool = {}
BY StateOf DEF Placed

LEMMA FinishKept ==
  ASSUME Inv, CacheInv, KeptInv, NEW t \in Threads, Finish(t)
  PROVE  CacheInv' /\ KeptInv'
<1> DEFINE l == [th[t] EXCEPT !.pc = IF table.mode_type = "Single" THEN "dump" ELSE "finished"]
<1>1. /\ ModelTyped /\ TypeOK /\ th \in [Threads -> LocalState] /\ th[t] \in LocalState
      /\ Placed(th[t])
  BY StateOf DEF CacheInv, Inv
<1>2. /\ th[t].pc = "idle" /\ th' = [th EXCEPT ![t] = l] /\ Same /\ UNCHANGED <<model, applied, lost>>
  BY <1>1 DEF Finish, At, move, Same, run, transfer, history
<1>3. /\ l.pc = IF table.mode_type = "Single" THEN "dump" ELSE "finished"
      /\ l.fetch = th[t].fetch /\ l.check = th[t].check /\ l.pool = th[t].pool
  BY <1>1 DEF LocalState
<1>4. l \in LocalState
  BY <1>1 DEF LocalState, Labels, Looping
<1>5. l.fetch = {} /\ l.check = {} /\ l.pool = {}
  BY <1>1, <1>2, <1>3, EmptyHands DEF Filling, Evicting
<1>6. Placed(l)
  BY <1>3, <1>5 DEF Placed, Filling, Evicting, Training
<1>7. Passed(l) = {} /\ Passed(th[t]) = {}
  BY <1>2, <1>3 DEF Passed, Evicting
<1>8. table.mode_type = "Single" => t = Leader
  BY <1>1, <1>2, AWorker, Modes
<1> HIDE DEF l
<1> QED BY <1>2, <1>3, <1>4, <1>5, <1>6, <1>7, <1>8, LoopMove

LEMMA RequestKept ==
  ASSUME Inv, CacheInv, KeptInv, NEW t \in Threads, Request(t)
  PROVE  CacheInv' /\ KeptInv'
<1>1. /\ ModelTyped /\ TypeOK /\ th \in [Threads -> LocalState] /\ th[t] \in LocalState
      /\ Placed(th[t])
  BY StateOf DEF CacheInv, Inv
<1>2. PICK r \in SUBSET table.chunks :
        /\ Cardinality(r) <= table.request
        /\ th' = [th EXCEPT ![t].req = r, ![t].pc = "before_pull"]
  BY DEF Request
<1>3. r \in SUBSET Chunks
  BY <1>1, <1>2, WorkersAssumption DEF TypeOK
<1> DEFINE l == [th[t] EXCEPT !.req = r, !.pc = "before_pull"]
<1>4. /\ th[t].pc = "idle" /\ th' = [th EXCEPT ![t] = l] /\ Same /\ UNCHANGED <<model, applied, lost>>
  BY <1>1, <1>2 DEF Request, At, Same, run, transfer, history
<1>5. /\ l.pc = "before_pull" /\ l.req = r
      /\ l.fetch = th[t].fetch /\ l.check = th[t].check /\ l.pool = th[t].pool
  BY <1>1 DEF LocalState
<1>6. l \in LocalState
  BY <1>1, <1>3 DEF LocalState, Labels, Looping, Training
<1>7. l.fetch = {} /\ l.check = {} /\ l.pool = {}
  BY <1>1, <1>4, <1>5, EmptyHands DEF Filling, Evicting
<1>8. Placed(l)
  BY <1>2, <1>5, <1>7 DEF Placed, Filling, Evicting
<1>9. Passed(l) = {} /\ Passed(th[t]) = {}
  BY <1>4, <1>5 DEF Passed, Evicting
<1> HIDE DEF l
<1> QED BY <1>4, <1>5, <1>6, <1>7, <1>8, <1>9, LoopMove

\* A thread that goes to sleep, or sends a message to the leader.
LEMMA UntouchedKept ==
  ASSUME CacheInv, KeptInv,
         UNCHANGED <<kind, api, limits, model, th, kv, applied, lost, unsaved, table, epoch, order,
                     store, mailbox>>
  PROVE  CacheInv' /\ KeptInv'
<1>1. /\ ModelTyped' /\ Leading' /\ WholeLoaded' /\ Handed' 
  BY DEF CacheInv, ModelTyped, Placed, Replacing, Leading, WholeLoaded, Loaded, Whole, Handed,
         Idle, NoParams, Leader, Start, End
<1>2. Intact' <=> Intact
  BY DEF Intact
<1>3. FlagsInv' <=> FlagsInv
  BY DEF FlagsInv, LocksKept, Held, Missing, Brought, Chosen, Evicted, Fits, Wanted, Passed,
         Ready, Checked, Pinned, NumCached, Counted, At, Roomy, Replacing
<1>4. KeptInv'
  BY <1>2, SameContent DEF KeptInv, At, Leader, Start, End, Replacing
<1> QED BY <1>1, <1>2, <1>3, <1>4 DEF CacheInv

LEMMA BeforePullKept ==
  ASSUME Inv, CacheInv, KeptInv, NEW t \in Threads, BeforePull(t)
  PROVE  CacheInv' /\ KeptInv'
<1>1. /\ ModelTyped /\ TypeOK /\ th \in [Threads -> LocalState] /\ th[t] \in LocalState
      /\ Placed(th[t])
  BY StateOf DEF CacheInv, Inv
<1>2. th[t].pc = "before_pull" /\ Same /\ UNCHANGED <<model, applied, lost>>
  BY DEF BeforePull, At, Same, run, transfer, history
<1>3. CASE MayPull(protocol, ctl, t)
  <2> DEFINE k == CASE kind = "Integral" -> "read"
                    [] kind = "Chunk" -> "prepare"
                    [] Replacing -> "lock"
                    [] OTHER -> "collect"
             l == [th[t] EXCEPT !.pc = k, !.todo = th[t].req]
  <2>1. th' = [th EXCEPT ![t] = l]
    BY <1>3 DEF BeforePull, Prepare
  <2>2. /\ kind = "Integral" => k = "read"
        /\ kind = "Chunk" => k = "prepare"
        /\ Replacing => k = "lock" /\ kind \in Caching
        /\ kind \notin {"Integral", "Chunk"} /\ ~Replacing => k = "collect"
        /\ kind \in {"Integral", "Chunk", "MT", "MTLock"} \union Caching
    BY <1>1, Kinds DEF Caching
  <2> HIDE DEF k
  <2>3. k \in {"read", "prepare", "collect", "lock"}
    BY <2>2
  <2>4. /\ l.pc = k /\ l.req = th[t].req /\ l.todo = th[t].req
        /\ l.fetch = th[t].fetch /\ l.check = th[t].check /\ l.pool = th[t].pool
    BY <1>1 DEF LocalState
  <2>5. l \in LocalState
    BY <1>1, <2>3 DEF LocalState, Labels, Looping, Training
  <2>6. l.fetch = {} /\ l.check = {} /\ l.pool = {}
    BY <1>1, <1>2, <2>4, EmptyHands DEF Filling, Evicting
  <2>7. Placed(l)
    BY <1>1, <1>2, <2>2, <2>3, <2>4, <2>6 DEF Placed, Filling, Evicting, Training, Caching
  <2>8. kind # "Integral" => Passed(l) = {} /\ Passed(th[t]) = {}
    BY <1>2, <2>2, <2>3, <2>4 DEF Passed, Evicting
  <2> HIDE DEF l
  <2> QED BY <1>2, <2>1, <2>3, <2>4, <2>5, <2>6, <2>7, <2>8, LoopMove
<1>4. CASE ~MayPull(protocol, ctl, t)
  BY <1>2, <1>4, UntouchedKept DEF BeforePull, Same
<1> QED BY <1>3, <1>4

LEMMA PulledKept ==
  ASSUME Inv, CacheInv, KeptInv, NEW t \in Threads, Pulled(t)
  PROVE  CacheInv' /\ KeptInv'
<1> DEFINE l == [th[t] EXCEPT !.pc = "before_push"]
<1>1. /\ ModelTyped /\ th \in [Threads -> LocalState] /\ th[t] \in LocalState /\ Placed(th[t])
  BY StateOf DEF CacheInv
<1>2. /\ th[t].pc = "read" /\ th' = [th EXCEPT ![t] = l] /\ Same /\ UNCHANGED <<model, applied, lost>>
  BY <1>1 DEF Pulled, At, move, Same, run, transfer, history
<1>3. /\ l.pc = "before_push" /\ l.req = th[t].req
      /\ l.fetch = th[t].fetch /\ l.check = th[t].check /\ l.pool = th[t].pool
  BY <1>1 DEF LocalState
<1>4. l \in LocalState
  BY <1>1 DEF LocalState, Labels, Looping, Training
<1>5. l.fetch = {} /\ l.check = {} /\ l.pool = {}
  BY <1>1, <1>2, <1>3, EmptyHands DEF Filling, Evicting
<1>6. Placed(l)
  BY <1>1, <1>2, <1>3, <1>5 DEF Placed, Filling, Evicting, Training
<1>7. Passed(l) = th[t].req /\ Passed(th[t]) = th[t].req
  BY <1>2, <1>3 DEF Passed, Evicting
<1> HIDE DEF l
<1> QED BY <1>2, <1>3, <1>4, <1>5, <1>6, <1>7, LoopMove

LEMMA BeforePushKept ==
  ASSUME Inv, CacheInv, KeptInv, NEW t \in Threads, BeforePush(t)
  PROVE  CacheInv' /\ KeptInv'
<1>1. /\ ModelTyped /\ th \in [Threads -> LocalState] /\ th[t] \in LocalState /\ Placed(th[t])
  BY StateOf DEF CacheInv
<1>2. th[t].pc = "before_push" /\ Same /\ UNCHANGED <<model, applied, lost>>
  BY DEF BeforePush, At, Same, run, transfer, history
<1>3. CASE MayPush(protocol, ctl, t)
  <2> DEFINE l == [th[t] EXCEPT !.pc = "write", !.todo = th[t].req]
  <2>1. th' = [th EXCEPT ![t] = l]
    BY <1>1, <1>3 DEF BeforePush
  <2>2. /\ l.pc = "write" /\ l.req = th[t].req /\ l.todo = th[t].req
        /\ l.fetch = th[t].fetch /\ l.check = th[t].check /\ l.pool = th[t].pool
    BY <1>1 DEF LocalState
  <2>3. l \in LocalState
    BY <1>1 DEF LocalState, Labels, Looping, Training
  <2>4. l.fetch = {} /\ l.check = {} /\ l.pool = {}
    BY <1>1, <1>2, <2>2, EmptyHands DEF Filling, Evicting
  <2>5. Placed(l)
    BY <1>1, <1>2, <2>2, <2>4 DEF Placed, Filling, Evicting, Training
  <2>6. Passed(l) = th[t].req /\ Passed(th[t]) = th[t].req
    BY <1>2, <2>2 DEF Passed, Evicting
  <2> HIDE DEF l
  <2> QED BY <1>2, <2>1, <2>2, <2>3, <2>4, <2>5, <2>6, LoopMove
<1>4. CASE ~MayPush(protocol, ctl, t)
  BY <1>2, <1>4, UntouchedKept DEF BeforePush, Same
<1> QED BY <1>3, <1>4

LEMMA PushedKept ==
  ASSUME Inv, CacheInv, KeptInv, NEW t \in Threads, Pushed(t)
  PROVE  CacheInv' /\ KeptInv'
<1> DEFINE l == NewLocals("idle")
<1>1. /\ ModelTyped /\ th \in [Threads -> LocalState] /\ th[t] \in LocalState /\ Placed(th[t])
  BY StateOf DEF CacheInv
<1>2. /\ th[t].pc = "write" /\ th[t].todo = {} /\ th' = [th EXCEPT ![t] = l] /\ Same
      /\ UNCHANGED <<model, applied, lost>>
  BY DEF Pushed, At, Same, run, transfer, history
<1>3. l.pc = "idle" /\ l.fetch = {} /\ l.check = {} /\ l.pool = {}
  BY DEF NewLocals
<1>4. l \in LocalState
  BY DEF NewLocals, LocalState, Labels, Looping, Amount
<1>5. Placed(l)
  BY <1>3 DEF Placed, Filling, Evicting, Training
<1>6. Passed(l) = {} /\ Passed(th[t]) = {}
  BY <1>2, <1>3 DEF Passed, Evicting
<1> HIDE DEF l
<1> QED BY <1>2, <1>3, <1>4, <1>5, <1>6, LoopMove
------------------------------------------------------------------------------
(* The steps around an epoch, when nobody is in the model.                 *)

Outer == {"construct", "sync", "load", "loaded", "idle", "finished", "dump", "dumped", "leave",
          "delete", "done"}

LEMMA HoldsNothing ==
  ASSUME NEW l \in LocalState, Placed(l), l.pc \in Outer
  PROVE  /\ Missing(l) = {} /\ Brought(l) = {} /\ Chosen(l) = {} /\ Evicted(l) = {}
         /\ Held(l) = {} /\ Passed(l) = {} /\ l.check = {}
BY DEF Placed, Outer, Held, Missing, Brought, Chosen, Evicted, Passed, Filling, Evicting

\* Outside the loop one worker is where all are.
LEMMA AllOuter ==
  ASSUME Inv, NEW t \in Workers, th[t].pc \notin Looping
  PROVE  \A u \in Threads : /\ th[u].pc \in Outer /\ th[u].pc \notin Looping
                            /\ u \in Workers => Round(th[u].pc) = Round(th[t].pc)
<1>1. TypeOK /\ Together
  BY DEF Inv
<1>2. Workers \subseteq Threads
  BY <1>1, Modes
<1>3. th[t].pc \in Labels /\ Round(th[t].pc) # 2
  BY <1>1, <1>2, Rounds DEF TypeOK
<1> SUFFICES ASSUME NEW u \in Threads
             PROVE  /\ th[u].pc \in Outer /\ th[u].pc \notin Looping
                    /\ u \in Workers => Round(th[u].pc) = Round(th[t].pc)
  OBVIOUS
<1>4. CASE u \in Workers
  <2>1. Round(th[u].pc) = Round(th[t].pc) /\ th[u].pc \in Labels
    BY <1>1, <1>2, <1>4 DEF Together, TypeOK
  <2>2. th[u].pc \notin Looping
    BY <1>3, <2>1, Rounds
  <2> QED BY <2>1, <2>2 DEF Labels, Outer
<1>5. CASE u \notin Workers
  <2>1. th[u].pc = "done"
    BY <1>1, <1>5 DEF Together, At
  <2> QED BY <1>5, <2>1 DEF Outer, Looping, Training
<1> QED BY <1>4, <1>5

LEMMA OuterMove ==
  ASSUME ModelTyped, NEW t \in Threads, NEW k \in Outer, move(t, k), th[t].pc \in Outer,
         UNCHANGED <<kind, api, table>>
  PROVE  /\ th' \in [Threads -> LocalState] /\ \A u \in Threads : Placed(th'[u])
         /\ th'[t].pc = k /\ \A u \in Threads \ {t} : th'[u] = th[u]
<1> DEFINE l == [th[t] EXCEPT !.pc = k]
<1>1. th \in [Threads -> LocalState] /\ th[t] \in LocalState /\ Placed(th[t])
      /\ \A u \in Threads : Placed(th[u])
  BY StateOf DEF ModelTyped
<1>2. /\ l.pc = k /\ l.fetch = th[t].fetch /\ l.check = th[t].check /\ l.pool = th[t].pool
  BY <1>1 DEF LocalState
<1>3. l \in LocalState
  BY <1>1 DEF LocalState, Labels, Looping, Outer
<1>4. th' = [th EXCEPT ![t] = l]
  BY <1>1 DEF move
<1> HIDE DEF l
<1>5. l.fetch = {} /\ l.check = {} /\ l.pool = {}
  BY <1>2, EmptyHands DEF Outer, Filling, Evicting
<1>6. Placed(l)
  BY <1>2, <1>5 DEF Placed, Outer, Filling, Evicting, Training
<1> QED BY <1>1, <1>2, <1>3, <1>4, <1>6

LEMMA OuterFlags ==
  ASSUME ModelTyped, FlagsInv, UNCHANGED <<kind, api, limits, table>>,
         th' \in [Threads -> LocalState], \A u \in Threads : Placed(th'[u]),
         \A u \in Threads : th[u].pc \in Outer /\ th'[u].pc \in Outer,
         model' \in Models, model'.mtx_ = model.mtx_,
         model'.prepare_count_ = model.prepare_count_, model'.num_cached_ = model.num_cached_,
         kind # "Integral" => \A c \in Chunks : model'.is_cached_[c] <=> model'.params_[c] # None,
         Replacing => model'.is_cached_ = model.is_cached_
  PROVE  FlagsInv'
<1>1. LocksKept /\ Pinned /\ NumCached
  BY DEF FlagsInv
<1>2. \A u \in Threads : /\ Held(th[u]) = {} /\ Passed(th[u]) = {}
                         /\ Held(th'[u]) = {} /\ Passed(th'[u]) = {} /\ th'[u].check = {}
  BY HoldsNothing DEF ModelTyped
<1>3. \A c \in Chunks : model.mtx_[c] = Free
  BY <1>1, <1>2 DEF LocksKept, ModelTyped, Models
<1>4. LocksKept'
  <2> SUFFICES ASSUME NEW c \in Chunks
               PROVE  /\ \A u \in Threads : /\ model'.mtx_[c] = u <=> c \in Held(th'[u])
                                            /\ model'.mtx_[c] = u => Fits(model', th'[u], c)
                      /\ kind # "Integral" /\ model'.mtx_[c] = Free =>
                           (model'.is_cached_[c] <=> model'.params_[c] # None)
    BY DEF LocksKept, Held, Missing, Brought, Chosen, Evicted, Fits
  <2> QED BY <1>2, <1>3, NobodyFree
<1>5. Wanted'
  <2>1. \A u \in Threads : Passed(th[u])' = {}
    BY <1>2 DEF Passed
  <2> QED BY <2>1 DEF Wanted, Replacing
<1>6. Checked'
  BY <1>2 DEF Checked, Replacing
<1>7. Pinned'
  <2> SUFFICES ASSUME Replacing, NEW c \in Chunks
               PROVE  model'.prepare_count_[c] =
                        Cardinality({u \in Threads : c \in Passed(th'[u])})
    BY DEF Pinned, Passed, Replacing
  <2>1. {u \in Threads : c \in Passed(th'[u])} = {u \in Threads : c \in Passed(th[u])}
    BY <1>2
  <2> QED BY <1>1, <2>1 DEF Pinned
<1>8. NumCached'
  <2>1. Replacing => \A c \in Chunks : Counted(c)' <=> Counted(c)
    BY <1>3 DEF Counted
  <2> QED BY <1>1, <2>1, SameCount
<1> QED BY <1>4, <1>5, <1>6, <1>7, <1>8 DEF FlagsInv

\* A new model: nothing is in memory, and nobody needs anything.
LEMMA NewFlags ==
  ASSUME ModelTyped, UNCHANGED <<kind, api, limits, table>>, model' = NewModel,
         th' \in [Threads -> LocalState], \A u \in Threads : Placed(th'[u]),
         \A u \in Threads : th'[u].pc \in Outer
  PROVE  FlagsInv' /\ model' \in Models
<1>1. \A u \in Threads : Held(th'[u]) = {} /\ Passed(th'[u]) = {} /\ th'[u].check = {}
  BY HoldsNothing
<1>2. /\ model' \in Models /\ model'.num_cached_ = 0
      /\ \A c \in Chunks : /\ model'.mtx_[c] = Free /\ ~model'.is_cached_[c]
                           /\ model'.params_[c] = None /\ model'.prepare_count_[c] = 0
  BY DEF NewModel, Models, Amount
<1>3. LocksKept'
  <2> SUFFICES ASSUME NEW c \in Chunks
               PROVE  /\ \A u \in Threads : /\ model'.mtx_[c] = u <=> c \in Held(th'[u])
                                            /\ model'.mtx_[c] = u => Fits(model', th'[u], c)
                      /\ kind # "Integral" /\ model'.mtx_[c] = Free =>
                           (model'.is_cached_[c] <=> model'.params_[c] # None)
    BY DEF LocksKept, Held, Missing, Brought, Chosen, Evicted, Fits
  <2> QED BY <1>1, <1>2, NobodyFree
<1>4. Wanted'
  <2>1. \A u \in Threads : Passed(th[u])' = {}
    BY <1>1 DEF Passed
  <2> QED BY <2>1 DEF Wanted, Replacing
<1>5. Checked'
  BY <1>1 DEF Checked, Replacing
<1>6. Pinned'
  <2> SUFFICES ASSUME NEW c \in Chunks
               PROVE  Cardinality({u \in Threads : c \in Passed(th'[u])}) = 0
    BY <1>2 DEF Pinned, Passed
  <2>1. {u \in Threads : c \in Passed(th'[u])} = {}
    BY <1>1
  <2> QED BY <2>1, FS_EmptySet
<1>7. NumCached'
  <2>1. \A c \in Chunks : ~Counted(c)'
    BY <1>2 DEF Counted
  <2>2. {c \in Chunks : Counted(c)'} = {}
    BY <2>1
  <2>3. Cardinality({c \in Chunks : Counted(c)'}) = 0
    BY <2>2, FS_EmptySet
  <2>4. 0 <= limits.cache_threshold_
    BY Limited
  <2> QED BY <1>2, <2>3, <2>4 DEF NumCached
<1> QED BY <1>2, <1>3, <1>4, <1>5, <1>6, <1>7 DEF FlagsInv

LEMMA NewContent ==
  ASSUME model' = NewModel, UNCHANGED <<store, mailbox, kv>>
  PROVE  \A c \in Chunks : Content(c)' = Outside(c) /\ Outside(c)' = Outside(c)
BY DEF NewModel, Content, Outside

LEMMA ConstructKept ==
  ASSUME Inv, CacheInv, KeptInv, NEW t \in Threads, Construct(t)
  PROVE  CacheInv' /\ KeptInv'
<1> DEFINE k == IF table.mode_type # "Single" THEN "sync"
                ELSE IF table.chunk THEN "idle" ELSE "load"
<1>1. /\ ModelTyped /\ Leading /\ WholeLoaded /\ Handed /\ (Intact => FlagsInv) /\ TypeOK
  BY DEF CacheInv, Inv
<1>2. /\ th[t].pc = "construct" /\ move(t, k)
      /\ UNCHANGED <<kind, api, limits, table, epoch, kv, applied, lost, unsaved, order, store,
                     mailbox>>
      /\ IF t = Leader THEN model' = NewModel ELSE model' = model
  BY DEF Construct, At, run, transfer, history
<1>3. /\ k \in Outer /\ k \notin Looping \ {"idle"}
      /\ "construct" \in Outer /\ "construct" \notin Looping
  BY DEF Outer, Looping, Training
<1>4. t \in Workers /\ Leader \in Workers /\ Leader \in Threads
      /\ (table.mode_type = "Single" => t = Leader)
  BY <1>1, <1>2, AWorker, Modes
<1>5. \A u \in Threads : th[u].pc \in Outer /\ th[u].pc \notin Looping
  BY <1>2, <1>3, <1>4, AllOuter
<1>6. th[Leader].pc \in {"construct", "sync"}
  <2>1. Round(th[Leader].pc) = 0 /\ th[Leader].pc \in Labels
    BY <1>1, <1>2, <1>3, <1>4, AllOuter, Rounds DEF TypeOK
  <2> QED BY <2>1, Rounds
<1>7. /\ th' \in [Threads -> LocalState] /\ \A u \in Threads : Placed(th'[u])
      /\ th'[t].pc = k /\ \A u \in Threads \ {t} : th'[u] = th[u]
  BY <1>1, <1>2, <1>3, OuterMove
<1>8. \A u \in Threads : th'[u].pc \in Outer
  BY <1>3, <1>5, <1>7
<1>9. th'[Leader].pc \in {"construct", "sync"} \/ (th'[Leader].pc = k /\ t = Leader)
  BY <1>4, <1>6, <1>7
<1> HIDE DEF k
<1>10. model' \in Models
  BY <1>1, <1>2, <1>7, <1>8, NewFlags DEF ModelTyped
<1>11. ModelTyped'
  BY <1>1, <1>2, <1>7, <1>10 DEF ModelTyped, Placed, Replacing
<1>12. Leading'
  <2>1. k = "load" => t = Leader
    BY <1>4 DEF k
  <2> QED BY <1>1, <1>7, <2>1 DEF Leading, Leader, k
<1>13. WholeLoaded'
  <2>1. ~table.chunk => th'[Leader].pc \in {"construct", "sync", "load"}
    BY <1>9 DEF k
  <2> QED BY <1>2, <2>1 DEF WholeLoaded, Loaded, Looping, Training, Leader
<1>14. Handed'
  <2>1. CASE th'[Leader].pc \in Start
    BY <1>1, <1>2, <1>6, <2>1 DEF Handed, Start, End, Idle, NoParams, Leader
  <2>2. CASE th'[Leader].pc \notin Start
    <3>1. ~table.transfer
      BY <1>1, <1>9, <2>2, Kinds DEF k, Start
    <3> QED BY <1>1, <1>2, <3>1 DEF Handed, Idle, NoParams
  <2> QED BY <2>1, <2>2
<1>15. Intact' <=> Intact
  BY <1>2 DEF Intact
<1>16. ASSUME Intact PROVE FlagsInv'
  <2>1. CASE t = Leader
    BY <1>1, <1>2, <1>7, <1>8, <2>1, NewFlags
  <2>2. CASE t # Leader
    <3>1. FlagsInv /\ model' = model
      BY <1>1, <1>2, <1>16, <2>2
    <3>2. kind # "Integral" => \A c \in Chunks : model.is_cached_[c] <=> model.params_[c] # None
      <4>1. \A u \in Threads : Held(th[u]) = {}
        BY <1>1, <1>5, HoldsNothing DEF ModelTyped
      <4>2. \A c \in Chunks : model.mtx_[c] = Free
        BY <1>1, <3>1, <4>1 DEF FlagsInv, LocksKept, ModelTyped, Models
      <4> QED BY <3>1, <4>2 DEF FlagsInv, LocksKept
    <3> QED BY <1>1, <1>2, <1>5, <1>7, <1>8, <1>10, <3>1, <3>2, OuterFlags
  <2> QED BY <2>1, <2>2
<1>17. KeptInv'
  <2> SUFFICES ASSUME Intact, table.mode_type # "Hogwild"
               PROVE  /\ \A c \in Chunks \ unsaved : Content(c)' = applied[c]
                      /\ \A c \in Chunks \ unsaved : Outside(c)' = applied[c]
                      /\ ~Replacing => \A c \in Chunks : model'.disk[c] = None
                      /\ \A u \in Threads : th'[u].pc # "add"
                      /\ th'[Leader].pc \in {"sync", "load"} => model' = NewModel
    BY <1>2, <1>15 DEF KeptInv, At, Leader, Replacing
  <2>2. /\ \A c \in Chunks \ unsaved : Content(c) = applied[c] /\ Outside(c) = applied[c]
        /\ ~Replacing => \A c \in Chunks : model.disk[c] = None
        /\ th[Leader].pc \in {"sync", "load"} => model = NewModel
    BY <1>6 DEF KeptInv, Start
  <2>3. \A u \in Threads : th'[u].pc # "add"
    BY <1>8 DEF Outer
  <2>4. CASE t = Leader
    BY <1>2, <2>2, <2>3, <2>4, NewContent DEF NewModel
  <2>5. CASE t # Leader
    BY <1>2, <1>4, <1>7, <2>2, <2>3, <2>5, SameContent
  <2> QED BY <2>4, <2>5
<1> QED BY <1>11, <1>12, <1>13, <1>14, <1>15, <1>16, <1>17 DEF CacheInv

LEMMA DeleteKept ==
  ASSUME Inv, CacheInv, KeptInv, NEW t \in Threads, Delete(t)
  PROVE  CacheInv' /\ KeptInv'
<1>1. /\ ModelTyped /\ Leading /\ WholeLoaded /\ Handed /\ (Intact => FlagsInv) /\ TypeOK
  BY DEF CacheInv, Inv
<1>2. /\ th[t].pc = "delete" /\ move(t, "done") /\ model' = NewModel
      /\ UNCHANGED <<kind, api, limits, table, epoch, kv, applied, lost, unsaved, order, store,
                     mailbox>>
  BY DEF Delete, At, run, transfer, history
<1>3. "done" \in Outer /\ "delete" \in Outer /\ "delete" \notin Looping
  BY DEF Outer, Looping, Training
<1>4. t \in Workers /\ t = Leader
  BY <1>1, <1>2, AWorker DEF Leading
<1>5. \A u \in Threads : th[u].pc \in Outer
  BY <1>2, <1>3, <1>4, AllOuter
<1>6. /\ th' \in [Threads -> LocalState] /\ \A u \in Threads : Placed(th'[u])
      /\ th'[t].pc = "done" /\ \A u \in Threads \ {t} : th'[u] = th[u]
  BY <1>1, <1>2, <1>3, OuterMove
<1>7. \A u \in Threads : th'[u].pc \in Outer
  BY <1>3, <1>5, <1>6
<1>8. FlagsInv' /\ model' \in Models
  BY <1>1, <1>2, <1>6, <1>7, NewFlags
<1>9. ModelTyped'
  BY <1>1, <1>2, <1>6, <1>8 DEF ModelTyped, Placed, Replacing
<1>10. th'[Leader].pc = "done" /\ th[Leader].pc = "delete"
  BY <1>2, <1>4, <1>6
<1>11. Leading' /\ WholeLoaded' /\ Handed'
  <2>1. Leading'
    BY <1>1, <1>6 DEF Leading, Leader
  <2>2. WholeLoaded'
    BY <1>10 DEF WholeLoaded, Loaded, Looping, Training, Leader
  <2>3. Handed'
    BY <1>1, <1>2, <1>10 DEF Handed, Start, End, Idle, NoParams, Leader
  <2> QED BY <2>1, <2>2, <2>3
<1>12. KeptInv'
  <2> SUFFICES ASSUME Intact, table.mode_type # "Hogwild"
               PROVE  /\ \A c \in Chunks \ unsaved : Content(c)' = applied[c]
                      /\ \A c \in Chunks \ unsaved : Outside(c)' = applied[c]
                      /\ \A c \in Chunks : model'.disk[c] = None
                      /\ \A u \in Threads : th'[u].pc # "add"
                      /\ th'[Leader].pc \notin {"sync", "load"}
    BY <1>2 DEF KeptInv, At, Leader, Intact
  <2>2. \A c \in Chunks \ unsaved : Outside(c) = applied[c]
    BY <1>10 DEF KeptInv, End
  <2>3. \A u \in Threads : th'[u].pc # "add"
    BY <1>7 DEF Outer
  <2> QED BY <1>2, <1>10, <2>2, <2>3, NewContent DEF NewModel
<1> QED BY <1>8, <1>9, <1>11, <1>12 DEF CacheInv

LEMMA OuterAgree ==
  ASSUME ModelTyped, FlagsInv, \A u \in Threads : th[u].pc \in Outer, kind # "Integral"
  PROVE  \A c \in Chunks : model.is_cached_[c] <=> model.params_[c] # None
<1>1. \A u \in Threads : Held(th[u]) = {}
  BY HoldsNothing DEF ModelTyped
<1>2. \A c \in Chunks : model.mtx_[c] = Free
  BY <1>1 DEF FlagsInv, LocksKept, ModelTyped, Models
<1> QED BY <1>2 DEF FlagsInv, LocksKept

\* What Load brings into memory: nothing of a model that is fetched on demand,
\* else all of the KV store or of the model sent by the last leader.
LEMMA LoadedModel ==
  ASSUME TypeOK, ModelTyped, Handed, th[Leader].pc = "load", NEW t \in Threads, Load(t)
  PROVE  \/ LoadHint # Transfer /\ table.chunk /\ kind # "Integral" /\ model' = model
         \/ \E p \in [Chunks -> Nat] :
              /\ IF LoadHint = Transfer THEN p = mailbox /\ store = NoParams /\ ~order ELSE p = kv
              /\ ~Replacing
              /\ model' \in Models /\ model'.params_ = p /\ model'.mtx_ = model.mtx_
              /\ model'.prepare_count_ = model.prepare_count_
              /\ model'.num_cached_ = model.num_cached_ /\ model'.disk = model.disk
              /\ kind # "Integral" => \A c \in Chunks : model'.is_cached_[c]
<1>1. /\ model \in Models /\ kv \in [Chunks -> Nat] /\ mailbox \in [Chunks -> Amount]
      /\ epoch \in Nat
  BY DEF ModelTyped
<1>2. model' = LoadModel(LoadHint, mailbox) /\ (LoadHint = Transfer => mailbox # NoParams)
  BY DEF Load
<1>3. /\ Replacing => table.chunk /\ table.mode_type = "SPMT"
      /\ kind = "Integral" => ~table.chunk
      /\ table.transfer => ~table.chunk
  BY Kinds
<1>4. CASE table.chunk /\ table.mode_type # "Single"
  <2>1. LoadHint = Chunks_KV
    BY <1>3, <1>4 DEF LoadHint
  <2>2. LoadModel(Chunks_KV, mailbox) = model
    BY <1>3, <1>4 DEF LoadModel, LoadChunkModel, Chunks_KV, Integral_KV, Transfer
  <2>3. Chunks_KV # Transfer
    BY DEF Chunks_KV, Transfer
  <2> QED BY <1>2, <1>3, <1>4, <2>1, <2>2, <2>3
<1>5. ASSUME ~(table.chunk /\ table.mode_type # "Single"), NEW p \in [Chunks -> Nat],
             model' = IF kind = "Integral" THEN [model EXCEPT !.params_ = p]
                      ELSE [model EXCEPT !.params_ = p, !.is_cached_ = [c \in Chunks |-> TRUE]]
      PROVE  /\ ~Replacing
             /\ model' \in Models /\ model'.params_ = p /\ model'.mtx_ = model.mtx_
             /\ model'.prepare_count_ = model.prepare_count_
             /\ model'.num_cached_ = model.num_cached_ /\ model'.disk = model.disk
             /\ kind # "Integral" => \A c \in Chunks : model'.is_cached_[c]
  BY <1>1, <1>3, <1>5 DEF Models, Amount
<1>6. CASE ~(table.chunk /\ table.mode_type # "Single") /\ ~(table.transfer /\ epoch # 0)
  <2>1. LoadHint = Integral_KV /\ Integral_KV # Transfer
    BY <1>6 DEF LoadHint, Integral_KV, Transfer
  <2>2. LoadModel(Integral_KV, mailbox) =
          IF kind = "Integral" THEN [model EXCEPT !.params_ = kv]
          ELSE [[model EXCEPT !.params_ = kv] EXCEPT !.is_cached_ = [c \in Chunks |-> TRUE]]
    BY DEF LoadModel, LoadIntegralModel, LoadChunkModel, Integral_KV, Chunks_KV, Transfer,
           LoadAllChunksFromKV
  <2>3. model' = IF kind = "Integral" THEN [model EXCEPT !.params_ = kv]
                 ELSE [model EXCEPT !.params_ = kv, !.is_cached_ = [c \in Chunks |-> TRUE]]
    BY <1>1, <1>2, <2>1, <2>2
  <2> QED BY <1>1, <1>5, <1>6, <2>1, <2>3
<1>7. CASE table.transfer /\ epoch # 0
  <2>1. LoadHint = Transfer /\ ~table.chunk
    BY <1>3, <1>7 DEF LoadHint
  <2>2. Whole(mailbox) /\ store = NoParams /\ ~order
    BY <1>1, <1>2, <1>7, <2>1 DEF Handed, Start
  <2>3. mailbox \in [Chunks -> Nat]
    BY <1>1, <2>2 DEF Whole, Amount
  <2>4. LoadModel(Transfer, mailbox) =
          IF kind = "Integral" THEN [model EXCEPT !.params_ = mailbox]
          ELSE [[model EXCEPT !.params_ = mailbox] EXCEPT !.is_cached_ = [c \in Chunks |-> TRUE]]
    BY DEF LoadModel, LoadIntegralModel, LoadChunkModel, Integral_KV, Chunks_KV, Transfer,
           LoadAllChunksFromStore
  <2>5. model' = IF kind = "Integral" THEN [model EXCEPT !.params_ = mailbox]
                 ELSE [model EXCEPT !.params_ = mailbox, !.is_cached_ = [c \in Chunks |-> TRUE]]
    BY <1>1, <1>2, <2>1, <2>4
  <2> QED BY <1>5, <2>1, <2>2, <2>3, <2>5
<1> QED BY <1>4, <1>6, <1>7

LEMMA LoadKept ==
  ASSUME Inv, CacheInv, KeptInv, NEW t \in Threads, Load(t)
  PROVE  CacheInv' /\ KeptInv'
<1> DEFINE k == IF table.mode_type = "Single" THEN "idle" ELSE "loaded"
           A == LoadHint # Transfer /\ table.chunk /\ kind # "Integral" /\ model' = model
           B(p) == /\ IF LoadHint = Transfer THEN p = mailbox /\ store = NoParams /\ ~order
                                            ELSE p = kv
                   /\ ~Replacing
                   /\ model' \in Models /\ model'.params_ = p /\ model'.mtx_ = model.mtx_
                   /\ model'.prepare_count_ = model.prepare_count_
                   /\ model'.num_cached_ = model.num_cached_ /\ model'.disk = model.disk
                   /\ kind # "Integral" => \A c \in Chunks : model'.is_cached_[c]
<1>1. /\ ModelTyped /\ Leading /\ WholeLoaded /\ Handed /\ (Intact => FlagsInv) /\ TypeOK
      /\ model \in Models /\ epoch \in Nat
  BY DEF CacheInv, Inv, ModelTyped
<1>2. /\ th[t].pc = "load" /\ move(t, k) /\ (LoadHint = Transfer => mailbox # NoParams)
      /\ mailbox' = IF LoadHint = Transfer THEN NoParams ELSE mailbox
      /\ UNCHANGED <<kind, api, limits, table, epoch, kv, applied, lost, unsaved, order, store>>
  BY DEF Load, At, run, history
<1>3. k \in Outer /\ "load" \in Outer /\ "load" \notin Looping
      /\ k \notin Start \union End \union {"load", "dump", "delete"}
  BY DEF Outer, Looping, Training, Start, End
<1>4. t \in Workers /\ t = Leader
  BY <1>1, <1>2, AWorker DEF Leading
<1>5. \A u \in Threads : th[u].pc \in Outer
  BY <1>2, <1>3, <1>4, AllOuter
<1>6. /\ th' \in [Threads -> LocalState] /\ \A u \in Threads : Placed(th'[u])
      /\ th'[t].pc = k /\ \A u \in Threads \ {t} : th'[u] = th[u]
  BY <1>1, <1>2, <1>3, OuterMove
<1>7. \A u \in Threads : th'[u].pc \in Outer
  BY <1>3, <1>5, <1>6
<1>8. A \/ \E p \in [Chunks -> Nat] : B(p)
  BY <1>1, <1>2, <1>4, LoadedModel
<1>9. th'[Leader].pc = k /\ th[Leader].pc = "load" /\ Leader \in Threads
  BY <1>2, <1>4, <1>6
<1> HIDE DEF k
<1>10. model' \in Models
  BY <1>1, <1>8
<1>11. NoParams \in [Chunks -> Amount] /\ mailbox' \in [Chunks -> Amount]
  BY <1>1, <1>2 DEF NoParams, Amount, ModelTyped
<1>12. ModelTyped'
  BY <1>1, <1>2, <1>6, <1>10, <1>11 DEF ModelTyped, Placed, Replacing
<1>13. Leading'
  BY <1>1, <1>3, <1>6 DEF Leading, Leader
<1>14. WholeLoaded'
  <2>1. ~table.chunk => Whole(model'.params_)
    BY <1>8, NobodyFree DEF Whole
  <2> QED BY <1>2, <2>1 DEF WholeLoaded, Whole
<1>15. Idle' /\ (LoadHint # Transfer => Idle)
  <2>1. CASE LoadHint = Transfer
    BY <1>2, <1>8, <2>1 DEF Idle, NoParams
  <2>2. CASE LoadHint # Transfer
    <3>1. ~(table.transfer /\ epoch # 0)
      BY <1>1, <2>2, Kinds DEF LoadHint
    <3>2. Idle
      BY <1>1, <1>9, <3>1 DEF Handed, End
    <3> QED BY <1>2, <2>2, <3>2 DEF Idle, NoParams
  <2> QED BY <2>1, <2>2
<1>16. Handed'
  BY <1>3, <1>9, <1>15 DEF Handed, Leader, Start, End
<1>17. Intact' <=> Intact
  BY <1>2 DEF Intact
<1>18. ASSUME Intact PROVE FlagsInv'
  <2>1. FlagsInv
    BY <1>1, <1>18
  <2>2. CASE A
    BY <1>1, <1>2, <1>5, <1>6, <1>7, <2>1, <2>2, OuterFlags, OuterAgree
  <2>3. CASE \E p \in [Chunks -> Nat] : B(p)
    <3>1. kind # "Integral" =>
            \A c \in Chunks : model'.is_cached_[c] <=> model'.params_[c] # None
      BY <2>3, NobodyFree
    <3> QED BY <1>1, <1>2, <1>5, <1>6, <1>7, <2>1, <2>3, <3>1, OuterFlags
  <2> QED BY <1>8, <2>2, <2>3
<1>19. KeptInv'
  <2> SUFFICES ASSUME Intact, table.mode_type # "Hogwild"
               PROVE  /\ \A c \in Chunks \ unsaved : Content(c)' = applied[c]
                      /\ ~Replacing => \A c \in Chunks : model'.disk[c] = None
                      /\ \A u \in Threads : th'[u].pc # "add"
                      /\ th'[Leader].pc \notin {"sync", "load"}
                      /\ th'[Leader].pc \notin Start \union End
    BY <1>2, <1>17 DEF KeptInv, At, Leader, Start, End, Replacing
  <2>2. /\ \A c \in Chunks \ unsaved : Content(c) = applied[c] /\ Outside(c) = applied[c]
        /\ ~Replacing => \A c \in Chunks : model.disk[c] = None
    BY <1>9 DEF KeptInv, Start
  <2>3. \A u \in Threads : th'[u].pc # "add"
    BY <1>7 DEF Outer
  <2>4. th'[Leader].pc \notin {"sync", "load"} \union Start \union End
    BY <1>3, <1>9 DEF Start
  <2>5. CASE A
    <3>1. \A c : Content(c)' = Content(c)
      BY <1>2, <2>5, SameContent
    <3> QED BY <2>2, <2>3, <2>4, <2>5, <3>1
  <2>6. ASSUME NEW p \in [Chunks -> Nat], B(p)
        PROVE  /\ \A c \in Chunks \ unsaved : Content(c)' = applied[c]
               /\ ~Replacing => \A c \in Chunks : model'.disk[c] = None
    <3>1. \A c \in Chunks : Content(c)' = p[c]
      BY <2>6, NobodyFree DEF Content
    <3>2. ASSUME NEW c \in Chunks PROVE Outside(c) = p[c]
      <4>1. CASE LoadHint = Transfer
        BY <2>6, <4>1, NobodyFree DEF Outside, NoParams
      <4>2. CASE LoadHint # Transfer
        BY <1>15, <2>6, <4>2 DEF Outside, NoParams, Idle
      <4> QED BY <4>1, <4>2
    <3> QED BY <2>2, <2>6, <3>1, <3>2
  <2> QED BY <1>8, <2>3, <2>4, <2>5, <2>6
<1> QED BY <1>12, <1>13, <1>14, <1>16, <1>17, <1>18, <1>19 DEF CacheInv
\* A dump leaves in the KV store, or in the ModelTransferStore, whatever is in
\* memory.
LEMMA DumpKept ==
  ASSUME Inv, CacheInv, KeptInv, NEW t \in Threads, Dump(t)
  PROVE  CacheInv' /\ KeptInv'
<1> DEFINE k == IF table.mode_type = "Single" THEN "done" ELSE "dumped"
           on == table.transfer /\ epoch < table.epochs - 1
           D == [c \in Chunks |-> IF model.params_[c] # None THEN model.params_[c] ELSE kv[c]]
<1>1. /\ ModelTyped /\ Leading /\ WholeLoaded /\ Handed /\ (Intact => FlagsInv) /\ TypeOK
      /\ model \in Models /\ epoch \in Nat /\ kv \in [Chunks -> Nat]
      /\ store \in [Chunks -> Amount]
  BY DEF CacheInv, Inv, ModelTyped
<1>2. /\ th[t].pc = "dump" /\ move(t, k)
      /\ store' = IF DumpHint = Transfer THEN DumpToStore(store) ELSE store
      /\ kv' = IF DumpHint = Transfer THEN kv ELSE DumpToKV(DumpHint)
      /\ unsaved' = unsaved \union
                     {c \in Chunks : model.params_[c] = None /\ model.disk[c] # None}
      /\ UNCHANGED <<kind, api, limits, table, epoch, model, applied, lost, order, mailbox>>
  BY DEF Dump, At, run, history
<1>3. k \in Outer /\ "dump" \in Outer /\ "dump" \notin Looping \union Start \union End
      /\ k \notin Start \union {"load", "dump", "delete"} /\ k \in End
  BY DEF Outer, Looping, Training, Start, End
<1>4. t \in Workers /\ t = Leader
  BY <1>1, <1>2, AWorker DEF Leading
<1>5. \A u \in Threads : th[u].pc \in Outer
  BY <1>2, <1>3, <1>4, AllOuter
<1>6. /\ th' \in [Threads -> LocalState] /\ \A u \in Threads : Placed(th'[u])
      /\ th'[t].pc = k /\ \A u \in Threads \ {t} : th'[u] = th[u]
  BY <1>1, <1>2, <1>3, OuterMove
<1>7. \A u \in Threads : th'[u].pc \in Outer
  BY <1>3, <1>5, <1>6
<1>8. th'[Leader].pc = k /\ th[Leader].pc = "dump" /\ Leader \in Threads
  BY <1>2, <1>4, <1>6
<1>9. Idle
  BY <1>1, <1>3, <1>8 DEF Handed
<1>10. DumpHint = Transfer <=> on
  BY <1>1, Kinds DEF DumpHint, Transfer, Chunks_KV, Integral_KV
<1>11. on => store' = model.params_ /\ kv' = kv /\ Whole(model.params_)
  <2>1. \A c \in Chunks : store[c] = None
    BY <1>9 DEF Idle, NoParams
  <2>2. Loaded
    BY <1>8 DEF Loaded
  <2> QED BY <1>1, <1>2, <1>10, <2>1, <2>2, Kinds DEF DumpToStore, WholeLoaded
<1>12. ~on => store' = store /\ kv' = D
  BY <1>2, <1>10 DEF DumpToKV, DumpChunks, DumpAllChunksToKV
<1>13. D \in [Chunks -> Nat] /\ \A c \in Chunks : D[c] = IF model.params_[c] # None
                                                       THEN model.params_[c] ELSE kv[c]
  BY <1>1 DEF Models, Amount
<1> HIDE DEF k, on, D
<1>14. kv' \in [Chunks -> Nat] /\ store' \in [Chunks -> Amount]
  BY <1>1, <1>11, <1>12, <1>13 DEF Models
<1>15. ModelTyped'
  BY <1>1, <1>2, <1>6, <1>14 DEF ModelTyped, Placed, Replacing
<1>16. Leading' /\ WholeLoaded' /\ Handed'
  <2>1. Leading'
    BY <1>1, <1>3, <1>6 DEF Leading, Leader
  <2>2. WholeLoaded'
    <3>1. Loaded
      BY <1>8 DEF Loaded
    <3> QED BY <1>1, <1>2, <3>1 DEF WholeLoaded, Whole
  <2>3. CASE on
    <3>1. ~order' /\ Whole(store)' /\ mailbox' = NoParams
      BY <1>2, <1>9, <1>11, <2>3 DEF Idle, Whole
    <3>2. (table.transfer /\ th[Leader].pc \in End /\ epoch < table.epochs - 1)'
      BY <1>2, <1>3, <1>8, <2>3 DEF on, Leader, End
    <3>3. (th[Leader].pc \notin Start)'
      BY <1>3, <1>8 DEF Leader, Start
    <3> QED BY <2>1, <2>2, <3>1, <3>2, <3>3 DEF Handed, NoParams
  <2>4. CASE ~on
    <3>1. Idle'
      BY <1>2, <1>9, <1>12, <2>4 DEF Idle, NoParams
    <3>2. (th[Leader].pc \notin Start)' /\ ~(table.transfer /\ epoch < table.epochs - 1)'
      BY <1>2, <1>3, <1>8, <2>4 DEF Leader, Start, on
    <3> QED BY <2>1, <2>2, <3>1, <3>2 DEF Handed
  <2> QED BY <2>1, <2>2, <2>3, <2>4
<1>17. Intact' <=> Intact
  BY <1>2 DEF Intact
<1>18. ASSUME Intact PROVE FlagsInv'
  BY <1>1, <1>2, <1>5, <1>6, <1>7, <1>18, OuterFlags, OuterAgree
<1>19. KeptInv'
  <2> SUFFICES ASSUME Intact, table.mode_type # "Hogwild"
               PROVE  /\ \A c \in Chunks \ unsaved' :
                           Content(c)' = applied[c] /\ Outside(c)' = applied[c]
                      /\ ~Replacing => \A c \in Chunks : model.disk[c] = None
                      /\ \A u \in Threads : th'[u].pc # "add"
                      /\ th'[Leader].pc \notin {"sync", "load"}
    BY <1>2, <1>17 DEF KeptInv, At, Leader, Replacing
  <2>1. /\ \A c \in Chunks \ unsaved : Content(c) = applied[c]
        /\ ~Replacing => \A c \in Chunks : model.disk[c] = None
    BY DEF KeptInv
  <2>2. \A u \in Threads : th'[u].pc # "add"
    BY <1>7 DEF Outer
  <2>3. th'[Leader].pc \notin {"sync", "load"}
    BY <1>3, <1>8 DEF Start
  <2>4. ASSUME NEW c \in Chunks, c \notin unsaved'
        PROVE  Content(c)' = applied[c] /\ Outside(c)' = applied[c]
    <3>1. c \notin unsaved /\ (model.params_[c] = None => model.disk[c] = None)
      BY <1>2, <2>4
    <3>2. store[c] = None /\ mailbox[c] = None
      BY <1>9 DEF Idle, NoParams
    <3>3. applied[c] = IF model.params_[c] # None THEN model.params_[c] ELSE kv[c]
      BY <2>1, <3>1, <3>2 DEF Content
    <3>4. CASE on
      <4>1. store'[c] = model.params_[c] /\ model.params_[c] # None /\ kv'[c] = kv[c]
        BY <1>11, <3>4 DEF Whole
      <4> QED BY <1>2, <3>3, <4>1 DEF Content, Outside
    <3>5. CASE ~on
      <4>1. store'[c] = None /\ mailbox'[c] = None /\ kv'[c] = applied[c]
        BY <1>2, <1>12, <1>13, <3>2, <3>3, <3>5
      <4> QED BY <1>2, <3>1, <3>3, <4>1 DEF Content, Outside
    <3> QED BY <3>4, <3>5
  <2> QED BY <2>1, <2>2, <2>3, <2>4
<1> QED BY <1>15, <1>16, <1>17, <1>18, <1>19 DEF CacheInv

LEMMA BarrierKept ==
  ASSUME Inv, CacheInv, KeptInv, Barrier
  PROVE  CacheInv' /\ KeptInv'
<1> DEFINE b == th[Leader].pc
<1>1. /\ ModelTyped /\ Leading /\ WholeLoaded /\ Handed /\ (Intact => FlagsInv) /\ TypeOK
      /\ model \in Models /\ th \in [Threads -> LocalState] /\ Leader \in Threads
  BY Modes DEF CacheInv, Inv, ModelTyped
<1>2. b \in Barriers /\ (\A t \in Threads : th[t].pc = b) /\ sent \cup {Leader} = Threads
  BY AllAtBarrier
<1>3. /\ th' = [t \in Threads |-> [th[t] EXCEPT !.pc = After(t, th[t].pc)]]
      /\ UNCHANGED <<kind, api, limits, table, epoch, model, kv, applied, lost, unsaved, order,
                     store, mailbox>>
  BY <1>2 DEF Barrier, run, transfer, history
<1>4. \A t \in Threads :
        /\ b = "sync" => After(t, b) = IF t = Leader THEN "load" ELSE "loaded"
        /\ b = "loaded" => After(t, b) = "idle"
        /\ b = "finished" => After(t, b) = IF t = Leader THEN "dump" ELSE "dumped"
        /\ b = "dumped" => After(t, b) = "leave"
        /\ b = "leave" => After(t, b) = IF t = Leader THEN "delete" ELSE "done"
  BY DEF After
<1>5. \A t \in Threads :
        /\ After(t, b) \in Outer
        /\ After(t, b) \in {"load", "dump", "delete"} => t = Leader
  BY <1>2, <1>4 DEF Barriers, Outer
<1>6. \A t \in Threads : th[t].pc \in Outer
  BY <1>2 DEF Barriers, Outer
<1>7. ASSUME NEW t \in Threads
      PROVE  th'[t] \in LocalState /\ Placed(th'[t]) /\ th'[t].pc = After(t, b)
  <2> DEFINE k == After(t, b)
             l == [th[t] EXCEPT !.pc = k]
  <2>1. th'[t] = l /\ th[t] \in LocalState
    BY <1>1, <1>2, <1>3
  <2>2. k \in Outer
    BY <1>5
  <2> HIDE DEF k
  <2>3. /\ l.pc = k /\ l.fetch = th[t].fetch /\ l.check = th[t].check /\ l.pool = th[t].pool
    BY <2>1 DEF LocalState
  <2>4. l \in LocalState
    BY <2>1, <2>2 DEF LocalState, Labels, Looping, Outer
  <2> HIDE DEF l
  <2>5. l.fetch = {} /\ l.check = {} /\ l.pool = {}
    BY <1>1, <1>6, <2>3, EmptyHands DEF Outer, Filling, Evicting
  <2>6. Placed(l)
    BY <2>2, <2>3, <2>5 DEF Placed, Outer, Filling, Evicting, Training
  <2> QED BY <2>1, <2>3, <2>4, <2>6 DEF k
<1>8. th' \in [Threads -> LocalState]
  <2>1. DOMAIN th' = Threads /\ th' = [t \in Threads |-> th'[t]]
    BY <1>3
  <2> QED BY <1>7, <2>1
<1>9. ModelTyped'
  BY <1>1, <1>3, <1>7, <1>8 DEF ModelTyped, Placed, Replacing
<1>10. th'[Leader].pc = After(Leader, b)
  BY <1>1, <1>7
<1>11. /\ th'[Leader].pc \in Start <=> b \in Start
       /\ th'[Leader].pc \in End <=> b \in End
       /\ th'[Leader].pc \in {"sync", "load"} => b = "sync"
       /\ Loaded' => Loaded
  BY <1>1, <1>2, <1>4, <1>10 DEF Barriers, Start, End, Loaded, Looping, Training, Leader
<1>12. Leading'
  BY <1>5, <1>7 DEF Leading, Leader
<1>13. WholeLoaded' /\ Handed'
  <2>1. WholeLoaded'
    BY <1>1, <1>3, <1>11 DEF WholeLoaded, Whole
  <2>2. Handed'
    BY <1>1, <1>3, <1>11 DEF Handed, Start, End, Idle, NoParams, Leader
  <2> QED BY <2>1, <2>2
<1>14. Intact' <=> Intact
  BY <1>3 DEF Intact
<1>15. ASSUME Intact PROVE FlagsInv'
  BY <1>1, <1>3, <1>5, <1>6, <1>7, <1>8, <1>15, OuterFlags, OuterAgree
<1>16. KeptInv'
  <2> SUFFICES ASSUME Intact, table.mode_type # "Hogwild"
               PROVE  /\ \A c \in Chunks \ unsaved : Content(c) = applied[c]
                      /\ b \in Start \union End =>
                           \A c \in Chunks \ unsaved : Outside(c) = applied[c]
                      /\ ~Replacing => \A c \in Chunks : model.disk[c] = None
                      /\ \A u \in Threads : th'[u].pc # "add"
                      /\ th'[Leader].pc \in {"sync", "load"} => model = NewModel
    BY <1>3, <1>11, <1>14, SameContent DEF KeptInv, At, Leader, Start, End, NewModel,
                                         Replacing
  <2>2. \A u \in Threads : th'[u].pc # "add"
    BY <1>5, <1>7 DEF Outer
  <2> QED BY <1>11, <2>2 DEF KeptInv
<1> QED BY <1>9, <1>12, <1>13, <1>14, <1>15, <1>16 DEF CacheInv

LEMMA NextEpochKept ==
  ASSUME Inv, CacheInv, KeptInv, NextEpoch
  PROVE  CacheInv' /\ KeptInv'
<1>1. /\ ModelTyped /\ Leading /\ WholeLoaded /\ Handed /\ (Intact => FlagsInv) /\ TypeOK
      /\ model \in Models /\ th \in [Threads -> LocalState] /\ epoch \in Nat
  BY DEF CacheInv, Inv, ModelTyped
<1>2. /\ \A t \in Threads : th[t].pc = "done"
      /\ epoch + 1 < table.epochs /\ epoch' = epoch + 1 /\ order' = table.transfer
      /\ th' = [t \in Threads |-> IF t \in Workers THEN NewLocals("construct") ELSE th[t]]
      /\ UNCHANGED <<kind, api, limits, table, model, kv, applied, lost, unsaved, store, mailbox>>
  BY DEF NextEpoch, At, history
<1>3. Leader \in Workers /\ Leader \in Threads /\ table.epochs \in Nat
      /\ table.transfer \in BOOLEAN
  BY <1>1, Modes, Kinds, WorkersAssumption DEF TypeOK
<1>4. ASSUME NEW t \in Threads
      PROVE  /\ th'[t] \in LocalState /\ Placed(th'[t])
             /\ th'[t].pc = IF t \in Workers THEN "construct" ELSE "done"
  <2> DEFINE l == NewLocals("construct")
  <2>1. /\ l \in LocalState /\ l.pc = "construct" /\ l.fetch = {} /\ l.check = {} /\ l.pool = {}
    BY DEF NewLocals, LocalState, Labels, Amount
  <2> HIDE DEF l
  <2>2. Placed(l)
    BY <2>1 DEF Placed, Filling, Evicting, Training
  <2>3. th'[t] = IF t \in Workers THEN l ELSE th[t]
    BY <1>2 DEF l
  <2> QED BY <1>1, <1>2, <2>1, <2>2, <2>3 DEF ModelTyped
<1>5. th' \in [Threads -> LocalState]
  <2>1. th' = [t \in Threads |-> th'[t]]
    BY <1>2
  <2> QED BY <1>4, <2>1
<1>6. \A t \in Threads : th[t].pc \in Outer /\ th'[t].pc \in Outer
  BY <1>2, <1>4 DEF Outer
<1>7. ModelTyped'
  BY <1>1, <1>2, <1>3, <1>4, <1>5 DEF ModelTyped, Placed, Replacing
<1>8. th'[Leader].pc = "construct" /\ th[Leader].pc = "done"
  BY <1>2, <1>3, <1>4
<1>9. Leading' /\ WholeLoaded' /\ Handed'
  <2>1. Leading'
    BY <1>4 DEF Leading
  <2>2. WholeLoaded'
    BY <1>8 DEF WholeLoaded, Loaded, Looping, Training, Leader
  <2>3. epoch < table.epochs - 1 /\ epoch' > 0
    BY <1>1, <1>2, <1>3
  <2>4. CASE table.transfer
    <3>1. ~order /\ Whole(store) /\ mailbox = NoParams
      BY <1>1, <1>8, <2>3, <2>4 DEF Handed, Start, End
    <3>2. order' /\ Whole(store)' /\ (mailbox = NoParams)'
      BY <1>2, <2>4, <3>1 DEF Whole, NoParams
    <3>3. (table.transfer /\ th[Leader].pc \in Start /\ epoch > 0)'
      BY <1>2, <1>8, <2>3, <2>4 DEF Start, Leader
    <3> QED BY <2>1, <2>2, <3>2, <3>3 DEF Handed
  <2>5. CASE ~table.transfer
    <3>1. Idle
      BY <1>1, <2>5 DEF Handed
    <3>2. Idle'
      BY <1>2, <2>5, <3>1 DEF Idle, NoParams
    <3> QED BY <1>2, <2>1, <2>2, <2>5, <3>2 DEF Handed
  <2> QED BY <2>4, <2>5
<1>10. Intact' <=> Intact
  BY <1>2 DEF Intact
<1>11. ASSUME Intact PROVE FlagsInv'
  BY <1>1, <1>2, <1>4, <1>5, <1>6, <1>11, OuterFlags, OuterAgree
<1>12. KeptInv'
  <2> SUFFICES ASSUME Intact, table.mode_type # "Hogwild"
               PROVE  /\ \A c \in Chunks \ unsaved :
                           Content(c) = applied[c] /\ Outside(c) = applied[c]
                      /\ ~Replacing => \A c \in Chunks : model.disk[c] = None
                      /\ \A u \in Threads : th'[u].pc # "add"
                      /\ th'[Leader].pc \notin {"sync", "load"}
    BY <1>2, <1>10, SameContent DEF KeptInv, At, Leader, Replacing
  <2>2. \A u \in Threads : th'[u].pc # "add"
    BY <1>6 DEF Outer
  <2> QED BY <1>8, <2>2 DEF KeptInv, End
<1> QED BY <1>7, <1>9, <1>10, <1>11, <1>12 DEF CacheInv

\* The model goes from the store to the mailbox whole.
LEMMA SendModelKept ==
  ASSUME Inv, CacheInv, KeptInv, SendModel
  PROVE  CacheInv' /\ KeptInv'
<1>1. /\ ModelTyped /\ Leading /\ WholeLoaded /\ Handed /\ (Intact => FlagsInv)
  BY DEF CacheInv
<1>2. /\ order /\ mailbox' = store /\ store' = NoParams /\ order' = FALSE
      /\ UNCHANGED <<kind, api, limits, table, epoch, model, th, kv, applied, lost, unsaved>>
  BY DEF SendModel, run, history
<1>3. /\ table.transfer /\ th[Leader].pc \in Start /\ epoch > 0
      /\ Whole(store) /\ mailbox = NoParams
  BY <1>1, <1>2 DEF Handed, Idle
<1>4. ModelTyped'
  <2>1. store' \in [Chunks -> Amount] /\ mailbox' \in [Chunks -> Amount] /\ order' \in BOOLEAN
    BY <1>1, <1>2 DEF ModelTyped, NoParams, Amount
  <2> QED BY <1>1, <1>2, <2>1 DEF ModelTyped, Placed, Replacing
<1>5. Leading' /\ WholeLoaded'
  BY <1>1, <1>2 DEF Leading, WholeLoaded, Loaded, Whole, Leader
<1>6. Handed'
  <2>1. ~order' /\ (store = NoParams)' /\ Whole(mailbox)'
    BY <1>2, <1>3 DEF Whole, NoParams
  <2>2. (table.transfer /\ th[Leader].pc \in Start /\ epoch > 0)'
    BY <1>2, <1>3 DEF Start, Leader
  <2> QED BY <2>1, <2>2 DEF Handed
<1>7. Intact' <=> Intact
  BY <1>2 DEF Intact
<1>8. FlagsInv' <=> FlagsInv
  BY <1>2 DEF FlagsInv, LocksKept, Held, Missing, Brought, Chosen, Evicted, Fits, Wanted, Passed,
         Ready, Checked, Pinned, NumCached, Counted, At, Roomy, Replacing
<1>9. \A c \in Chunks : Content(c)' = Content(c) /\ Outside(c)' = Outside(c)
  BY <1>2, <1>3 DEF Content, Outside, Whole, NoParams
<1>10. KeptInv'
  BY <1>2, <1>7, <1>9 DEF KeptInv, At, Leader, Start, End, NewModel, Replacing
<1> QED BY <1>1, <1>4, <1>5, <1>6, <1>7, <1>8, <1>10 DEF CacheInv
------------------------------------------------------------------------------
(* What the steps in the model do to the updates of each chunk.            *)

LEMMA WholeKept ==
  ASSUME ModelTyped, NEW t \in Threads, ModelStep(t), ~Replacing, Whole(model.params_)
  PROVE  Whole(model'.params_)
<1>1. /\ th \in [Threads -> LocalState] /\ th[t] \in LocalState /\ Placed(th[t])
      /\ model \in Models /\ kv \in [Chunks -> Nat]
  BY StateOf
<1>2. \A c \in Chunks : Fetched(c) # None /\ model.params_[c] \in Nat
  BY <1>1, NobodyFree DEF Fetched, Models, Amount, Whole
<1>3. CASE ChunkPrepare(t) \/ FetchChunks(t)
  <2>1. CASE ChunkPrepare(t)
    <3>1. \A c \in Chunks : model'.params_[c] = IF c \in th[t].req /\ ~model.is_cached_[c]
                                                THEN Fetched(c) ELSE model.params_[c]
      BY <1>1, <2>1 DEF ChunkPrepare, Models
    <3> QED BY <1>2, <3>1, NobodyFree DEF Whole
  <2>2. CASE FetchChunks(t)
    <3>1. \A c \in Chunks : model'.params_[c] = IF c \in th[t].fetch
                                                THEN Fetched(c) ELSE model.params_[c]
      BY <1>1, <2>2 DEF FetchChunks, Models
    <3> QED BY <1>2, <3>1, NobodyFree DEF Whole
  <2> QED BY <1>3, <2>1, <2>2
<1>4. CASE Collect(t) \/ LoadWord(t) \/ StoreWord(t) \/ Recheck(t) \/ Await(t) \/ CopyChunk(t)
           \/ RacyLoad(t)
  <2>1. model'.params_ = model.params_
    BY <1>1, <1>4 DEF Collect, LoadWord, StoreWord, Recheck, Await, CopyChunk, RacyLoad, Models
  <2> QED BY <2>1
<1>5. CASE LockChunks(t) \/ Scan(t) \/ Replace(t) \/ FlushToDisk(t)
  BY <1>1, <1>5 DEF LockChunks, Scan, Replace, FlushToDisk, At, Placed, Evicting
<1>6. CASE AddChunk(t)
  <2>1. PICK c : model' = [model EXCEPT !.params_[c] = Add(@)]
    BY <1>6 DEF AddChunk
  <2>2. \A d \in Chunks : model'.params_[d] \in {model.params_[d], Add(model.params_[d])}
    BY <1>1, <2>1 DEF Models
  <2>3. \A d \in Chunks : Add(model.params_[d]) # None
    BY <1>2, NobodyFree DEF Add
  <2> QED BY <1>2, <2>2, <2>3, NobodyFree DEF Whole
<1>7. CASE RacyStore(t)
  <2>1. PICK c : model' = [model EXCEPT !.params_[c] = th[t].val + 1]
    BY <1>7 DEF RacyStore
  <2>2. \A d \in Chunks : model'.params_[d] \in {model.params_[d], th[t].val + 1}
    BY <1>1, <2>1 DEF Models
  <2>3. th[t].val + 1 # None
    BY <1>1, NobodyFree DEF LocalState, Amount
  <2> QED BY <1>2, <2>2, <2>3 DEF Whole
<1> QED BY <1>3, <1>4, <1>5, <1>6, <1>7 DEF ModelStep, PrepareStep

\* While the model is in use its updates are in memory, in the file of the
\* cache or still in the KV store.
LEMMA ContentInUse ==
  ASSUME Idle, NEW c \in Chunks
  PROVE  Content(c) = IF model.params_[c] # None THEN model.params_[c] ELSE Fetched(c)
BY DEF Idle, NoParams, Content, Fetched

LEMMA ContentAfter ==
  ASSUME Idle, Same, NEW c \in Chunks
  PROVE  Content(c)' = IF model'.params_[c] # None THEN model'.params_[c]
                       ELSE IF model'.disk[c] # None THEN model'.disk[c] ELSE kv[c]
BY DEF Idle, NoParams, Content, Same

\* The updates of the chunks are those applied, and outside a cache there is
\* no file.
Accounted == /\ \A c \in Chunks \ unsaved : Content(c) = applied[c]
             /\ ~Replacing => \A c \in Chunks : model.disk[c] = None
Stored(l) == l.pc = "add" => l.val = model.params_[Min(l.todo)]

\* Steps that leave the parameters where they are.
LEMMA StillContent ==
  ASSUME Idle, Same, Accounted, model'.params_ = model.params_, model'.disk = model.disk,
         UNCHANGED applied
  PROVE  Accounted'
<1>1. \A c \in Chunks : Content(c)' = Content(c)
  BY ContentInUse, ContentAfter DEF Fetched
<1> QED BY <1>1 DEF Accounted, Same, Replacing

LEMMA StillSteps ==
  ASSUME ModelTyped, NEW t \in Threads,
         \/ Collect(t) \/ LoadWord(t) \/ StoreWord(t) \/ Recheck(t) \/ Await(t)
         \/ LockChunks(t) \/ Scan(t) \/ Replace(t) \/ CopyChunk(t) \/ RacyLoad(t)
  PROVE  model'.params_ = model.params_ /\ model'.disk = model.disk
<1>1. model \in Models
  BY StateOf
<1>2. CASE Collect(t)
  BY <1>1, <1>2 DEF Collect, Models
<1>3. CASE LoadWord(t) \/ Recheck(t) \/ Await(t) \/ CopyChunk(t) \/ RacyLoad(t)
  BY <1>3 DEF LoadWord, Recheck, Await, CopyChunk, RacyLoad
<1>4. CASE StoreWord(t)
  BY <1>1, <1>4 DEF StoreWord, Models
<1>5. CASE LockChunks(t)
  BY <1>1, <1>5 DEF LockChunks, Models
<1>6. CASE Scan(t)
  BY <1>1, <1>6 DEF Scan, Models
<1>7. CASE Replace(t)
  BY <1>1, <1>7 DEF Replace, Models
<1> QED BY <1>2, <1>3, <1>4, <1>5, <1>6, <1>7

\* What is fetched was not in memory.
LEMMA FetchedContent ==
  ASSUME ModelTyped, Idle, Same, Accounted, UNCHANGED applied,
         NEW F \in SUBSET Chunks, \A c \in F : model.params_[c] = None,
         model'.disk = model.disk,
         \A c \in Chunks : model'.params_[c] = IF c \in F THEN Fetched(c) ELSE model.params_[c]
  PROVE  Accounted'
<1>1. ASSUME NEW c \in Chunks PROVE Content(c)' = Content(c)
  <2>1. CASE c \in F
    <3>1. Content(c) = Fetched(c)
      BY <2>1, ContentInUse
    <3>2. Fetched(c) # None
      BY NobodyFree DEF Fetched, ModelTyped, Models, Amount
    <3> QED BY <2>1, <3>1, <3>2, ContentAfter
  <2>2. CASE c \notin F
    BY <2>2, ContentInUse, ContentAfter DEF Fetched
  <2> QED BY <2>1, <2>2
<1> QED BY <1>1 DEF Accounted, Same, Replacing

LEMMA ChunkPrepareContent ==
  ASSUME ModelTyped, FlagsInv, Idle, Same, Accounted, UNCHANGED applied,
         NEW t \in Threads, ChunkPrepare(t)
  PROVE  Accounted'
<1> DEFINE F == {c \in th[t].req : ~model.is_cached_[c]}
<1>1. /\ th \in [Threads -> LocalState] /\ th[t] \in LocalState /\ Placed(th[t])
      /\ model \in Models
  BY StateOf
<1>2. th[t].pc = "prepare" /\ kind = "Chunk"
  BY <1>1 DEF ChunkPrepare, At, Placed
<1>3. ASSUME NEW u \in Threads PROVE Held(th[u]) = {}
  <2>1. Placed(th[u])
    BY StateOf
  <2> QED BY <1>2, <2>1
          DEF Placed, Held, Missing, Brought, Chosen, Evicted, Evicting, Caching, Replacing
<1>4. \A c \in Chunks : model.mtx_[c] = Free
  BY <1>1, <1>3 DEF FlagsInv, LocksKept, Models
<1>5. F \in SUBSET Chunks /\ \A c \in F : model.params_[c] = None
  BY <1>1, <1>2, <1>4 DEF FlagsInv, LocksKept, LocalState
<1>6. /\ model'.disk = model.disk
      /\ \A c \in Chunks : model'.params_[c] = IF c \in F THEN Fetched(c) ELSE model.params_[c]
  BY <1>1 DEF ChunkPrepare, Models
<1> HIDE DEF F
<1> QED BY <1>5, <1>6, FetchedContent

LEMMA FetchChunksContent ==
  ASSUME ModelTyped, FlagsInv, Idle, Same, Accounted, UNCHANGED applied,
         NEW t \in Threads, FetchChunks(t)
  PROVE  Accounted'
<1> DEFINE F == th[t].fetch
<1>1. /\ th \in [Threads -> LocalState] /\ th[t] \in LocalState /\ Placed(th[t])
      /\ model \in Models
  BY StateOf
<1>2. th[t].pc \in {"fetch", "collect"}
  BY DEF FetchChunks, At
<1>3. /\ Missing(th[t]) = F /\ Brought(th[t]) = {} /\ Chosen(th[t]) = {} /\ Held(th[t]) = F
  BY <1>2 DEF Held, Missing, Brought, Chosen, Evicted, Evicting
<1>4. F \in SUBSET Chunks
  BY <1>1 DEF LocalState
<1>5. \A c \in F : model.params_[c] = None
  BY <1>3, <1>4 DEF FlagsInv, LocksKept, Fits
<1>6. /\ model'.disk = model.disk
      /\ \A c \in Chunks : model'.params_[c] = IF c \in F THEN Fetched(c) ELSE model.params_[c]
  BY <1>1 DEF FetchChunks, Models
<1> HIDE DEF F
<1> QED BY <1>4, <1>5, <1>6, FetchedContent

\* What is evicted goes to the file as it is.
LEMMA FlushContent ==
  ASSUME ModelTyped, FlagsInv, Idle, Same, Accounted, UNCHANGED applied,
         NEW t \in Threads, FlushToDisk(t)
  PROVE  Accounted'
<1> DEFINE P == th[t].pool
<1>1. /\ th \in [Threads -> LocalState] /\ th[t] \in LocalState /\ Placed(th[t])
      /\ model \in Models
  BY StateOf
<1>2. th[t].pc = "flush" /\ Replacing
  BY <1>1 DEF FlushToDisk, At, Placed, Evicting
<1>3. Chosen(th[t]) = P /\ P \subseteq Held(th[t])
  BY <1>2 DEF Held, Chosen
<1>4. P \in SUBSET Chunks
  BY <1>1 DEF LocalState
<1>5. \A c \in P : model.params_[c] # None
  BY <1>3, <1>4 DEF FlagsInv, LocksKept, Fits
<1>6. \A c \in Chunks :
        /\ model'.params_[c] = IF c \in P THEN None ELSE model.params_[c]
        /\ model'.disk[c] = IF c \in P THEN model.params_[c] ELSE model.disk[c]
  BY <1>1 DEF FlushToDisk, Models
<1> HIDE DEF P
<1>7. ASSUME NEW c \in Chunks PROVE Content(c)' = Content(c)
  <2>1. CASE c \in P
    BY <1>5, <1>6, <2>1, ContentInUse, ContentAfter
  <2>2. CASE c \notin P
    BY <1>6, <2>2, ContentInUse, ContentAfter DEF Fetched
  <2> QED BY <2>1, <2>2
<1> QED BY <1>2, <1>7 DEF Accounted, Same, Replacing

\* An update counts once, in memory.
LEMMA AddedContent ==
  ASSUME ModelTyped, Idle, Same, Accounted, NEW c \in Chunks, model.params_[c] # None,
         applied' = [applied EXCEPT ![c] = @ + 1], model'.disk = model.disk,
         \A d \in Chunks : model'.params_[d] = IF d = c THEN model.params_[d] + 1
                                               ELSE model.params_[d]
  PROVE  Accounted'
<1>1. model.params_[c] \in Nat /\ applied \in [Chunks -> Nat]
  BY DEF ModelTyped, Models, Amount
<1>2. ASSUME NEW d \in Chunks \ unsaved PROVE Content(d)' = applied'[d]
  <2>1. CASE d = c
    <3>1. Content(c) = model.params_[c] /\ Content(c) = applied[c]
      BY <2>1, ContentInUse DEF Accounted
    <3>2. Content(c)' = model.params_[c] + 1
      BY <1>1, NobodyFree, ContentAfter
    <3> QED BY <1>1, <2>1, <3>1, <3>2
  <2>2. CASE d # c
    <3>1. Content(d) = applied[d]
      BY DEF Accounted
    <3>2. Content(d)' = Content(d)
      BY <2>2, ContentInUse, ContentAfter DEF Fetched
    <3> QED BY <1>1, <2>2, <3>1, <3>2
  <2> QED BY <2>1, <2>2
<1> QED BY <1>2 DEF Accounted, Same, Replacing

LEMMA AddChunkContent ==
  ASSUME ModelTyped, FlagsInv, Idle, Same, Accounted, NEW t \in Threads, AddChunk(t)
  PROVE  Accounted'
<1> DEFINE c == Min(th[t].todo)
<1>1. /\ th[t] \in LocalState /\ model \in Models
  BY StateOf
<1>2. /\ th[t].pc = "write" /\ th[t].todo # {}
      /\ kind \notin {"MT", "Integral"} /\ model.mtx_[c] = Free
      /\ model' = IF Replacing THEN CachePush(c) ELSE [model EXCEPT !.params_[c] = Add(@)]
      /\ applied' = [applied EXCEPT ![c] = @ + 1]
  BY DEF AddChunk, At
<1>3. c \in th[t].todo /\ c \in Chunks
  BY <1>1, <1>2, NextChunk DEF LocalState
<1> HIDE DEF c
<1>4. Passed(th[t]) = th[t].todo /\ Missing(th[t]) = {} /\ Brought(th[t]) = {}
      /\ th[t].pc \notin Filling
  BY <1>2 DEF Passed, Missing, Brought, Evicting, Filling
<1>5. model.params_[c] # None
  <2>1. Ready(c)
    BY <1>2, <1>3, <1>4 DEF FlagsInv, Wanted
  <2> QED BY <1>2, <1>3, <2>1 DEF FlagsInv, LocksKept, Ready
<1>6. Add(model.params_[c]) = model.params_[c] + 1
  BY <1>5 DEF Add
<1>7. /\ model'.disk = model.disk
      /\ \A d \in Chunks : model'.params_[d] = IF d = c THEN model.params_[d] + 1
                                               ELSE model.params_[d]
  <2>1. CASE Replacing
    <3>1. PICK m : m = touch(c)
      OBVIOUS
    <3>2. m \in Models /\ m.params_ = model.params_ /\ m.disk = model.disk
      BY <1>1, <1>3, <3>1, Touched
    <3>3. model' = [m EXCEPT !.params_[c] = Add(@), !.prepare_count_[c] = @ - 1]
      BY <1>2, <2>1, <3>1 DEF CachePush
    <3> QED BY <1>3, <1>6, <3>2, <3>3 DEF Models
  <2>2. CASE ~Replacing
    BY <1>1, <1>2, <1>3, <1>6, <2>2 DEF Models
  <2> QED BY <2>1, <2>2
<1> QED BY <1>2, <1>3, <1>5, <1>7, AddedContent

\* Without locks an update counts once if nobody else came in between.
LEMMA RacyStoreContent ==
  ASSUME ModelTyped, Idle, Same, Accounted, NEW t \in Threads, RacyStore(t), Stored(th[t]),
         Whole(model.params_)
  PROVE  Accounted'
<1> DEFINE c == Min(th[t].todo)
<1>1. /\ th[t] \in LocalState /\ model \in Models /\ Placed(th[t])
  BY StateOf
<1>2. /\ th[t].pc = "add"
      /\ model' = [model EXCEPT !.params_[c] = th[t].val + 1]
      /\ applied' = [applied EXCEPT ![c] = @ + 1]
      /\ th[t].val = model.params_[c]
  BY DEF RacyStore, At, Stored
<1>3. c \in th[t].todo /\ c \in Chunks
  BY <1>1, <1>2, NextChunk DEF LocalState, Placed
<1> HIDE DEF c
<1>4. model.params_[c] # None
  BY <1>3 DEF Whole
<1>5. /\ model'.disk = model.disk
      /\ \A d \in Chunks : model'.params_[d] = IF d = c THEN model.params_[d] + 1
                                               ELSE model.params_[d]
  BY <1>1, <1>2, <1>3 DEF Models
<1> QED BY <1>2, <1>3, <1>4, <1>5, AddedContent

LEMMA WorkContent ==
  ASSUME ModelTyped, FlagsInv, Idle, Same, Accounted, NEW t \in Threads, ModelStep(t),
         Stored(th[t]), th[t].pc = "add" => Whole(model.params_)
  PROVE  Accounted'
<1>1. CASE PrepareStep(t)
  <2>1. UNCHANGED applied
    BY <1>1 DEF PrepareStep
  <2>2. CASE ChunkPrepare(t)
    BY <2>1, <2>2, ChunkPrepareContent
  <2>3. CASE FetchChunks(t)
    BY <2>1, <2>3, FetchChunksContent
  <2>4. CASE FlushToDisk(t)
    BY <2>1, <2>4, FlushContent
  <2>5. CASE Collect(t) \/ LoadWord(t) \/ Recheck(t) \/ Await(t) \/ LockChunks(t)
             \/ Scan(t) \/ Replace(t)
    <3>1. model'.params_ = model.params_ /\ model'.disk = model.disk
      BY <2>5, StillSteps
    <3> QED BY <2>1, <3>1, StillContent
  <2> QED BY <1>1, <2>2, <2>3, <2>4, <2>5 DEF PrepareStep
<1>2. CASE (StoreWord(t) /\ UNCHANGED applied) \/ CopyChunk(t) \/ RacyLoad(t)
  <2>1. UNCHANGED applied
    BY <1>2 DEF CopyChunk, RacyLoad
  <2>2. model'.params_ = model.params_ /\ model'.disk = model.disk
    BY <1>2, StillSteps
  <2> QED BY <2>1, <2>2, StillContent
<1>3. CASE AddChunk(t)
  BY <1>3, AddChunkContent
<1>4. CASE RacyStore(t)
  <2>1. th[t].pc = "add"
    BY <1>4 DEF RacyStore, At
  <2> QED BY <1>4, <2>1, RacyStoreContent
<1> QED BY <1>1, <1>2, <1>3, <1>4 DEF ModelStep

\* A step that leaves a thread about to store is one that has just loaded.
LEMMA JustLoaded ==
  ASSUME TypeOK, ModelTyped, NEW t \in Threads, ModelStep(t), th'[t].pc = "add"
  PROVE  model' = model /\ th'[t].val = model.params_[Min(th'[t].todo)]
<1>1. th \in [Threads -> LocalState] /\ th[t] \in LocalState
  BY StateOf
<1>2. PICK l : /\ Moves(t, l)
               /\ \/ th[t].pc \in Pulling /\ l \in Pulling
                  \/ th[t].pc \in Pushing /\ l \in Pushing
  BY ModelMoves
<1>3. th[t].pc \in {"write", "add"}
  BY <1>2 DEF Moves, Pulling, Pushing
<1>4. ~PrepareStep(t) /\ ~StoreWord(t) /\ ~CopyChunk(t)
  BY <1>3 DEF PrepareStep, ChunkPrepare, Collect, FetchChunks, LoadWord, StoreWord, Recheck,
              Await, LockChunks, Scan, Replace, FlushToDisk, CopyChunk, At
<1>5. ~AddChunk(t)
  <2> SUFFICES ASSUME AddChunk(t) PROVE FALSE
    OBVIOUS
  <2>1. th[t].pc = "write" /\ th' = [th EXCEPT ![t].todo = @ \ {Min(th[t].todo)}]
    BY DEF AddChunk, At
  <2>2. th'[t].pc = "write"
    BY <1>1, <2>1 DEF LocalState
  <2> QED BY <2>2
<1>6. ~RacyStore(t)
  <2> SUFFICES ASSUME RacyStore(t) PROVE FALSE
    OBVIOUS
  <2>1. th' = [th EXCEPT ![t].pc = "write", ![t].todo = @ \ {Min(th[t].todo)}, ![t].val = 0]
    BY DEF RacyStore
  <2>2. th'[t].pc = "write"
    BY <1>1, <2>1 DEF LocalState
  <2> QED BY <2>2
<1>7. RacyLoad(t)
  BY <1>4, <1>5, <1>6 DEF ModelStep
<1>8. model' = model /\ th' = [th EXCEPT ![t].pc = "add", ![t].val = model.params_[Min(th[t].todo)]]
  BY <1>7 DEF RacyLoad
<1>9. th'[t].val = model.params_[Min(th[t].todo)] /\ th'[t].todo = th[t].todo
  BY <1>1, <1>8 DEF LocalState
<1> QED BY <1>8, <1>9

LEMMA WorkKept ==
  ASSUME Inv, CacheInv, KeptInv, NEW t \in Threads, Work(t)
  PROVE  CacheInv' /\ KeptInv'
<1>1. /\ ModelTyped /\ Leading /\ WholeLoaded /\ Handed /\ (Intact => FlagsInv) /\ TypeOK
  BY DEF CacheInv, Inv
<1>2. ModelStep(t) /\ Same
  BY DEF Work, Same, run, transfer
<1>3. PICK l : /\ Moves(t, l)
               /\ \/ th[t].pc \in Pulling /\ l \in Pulling
                  \/ th[t].pc \in Pushing /\ l \in Pushing
  BY <1>1, <1>2, ModelMoves
<1>4. th[t].pc \in Looping /\ l \in Looping
  BY <1>3 DEF Pulling, Pushing, Looping, Training
<1>5. /\ th[Leader].pc \in Looping /\ Loaded /\ Idle /\ Leader \in Threads /\ t \in Workers
      /\ th[Leader].pc \notin Start \union End
  BY <1>4, LeaderLooping
<1>6. \A u \in Threads : th'[u].pc = IF u = t THEN l ELSE th[u].pc
  BY <1>3 DEF Moves
<1>7. th'[Leader].pc \in Looping
  BY <1>4, <1>5, <1>6
<1>8. th'[Leader].pc \notin Start \union End
  BY <1>7 DEF Start, End, Looping, Training
<1>9. /\ kind = "Integral" => ~table.chunk
      /\ ~table.chunk => kind \in {"Integral", "MTLock"}
      /\ kind = "MT" => table.mode_type = "Hogwild"
      /\ kind = "Integral" => table.mode_type \in {"Hogwild", "Single"}
  BY <1>1, Kinds
<1>10. ~table.chunk => Whole(model.params_)
  BY <1>1, <1>5 DEF WholeLoaded
<1>11. ModelTyped' /\ (Intact' => FlagsInv')
  BY <1>1, <1>2, <1>9, <1>10, ModelCache DEF Kept
<1>12. UNCHANGED <<kind, api, limits, table, kv, order, store, mailbox, epoch, unsaved>>
  BY <1>2 DEF Same
<1>13. Leading'
  <2>1. l \notin {"load", "dump", "delete"}
    BY <1>4 DEF Looping, Training
  <2>2. \A u \in Threads : th'[u].pc \in {"load", "dump", "delete"} => u = Leader
    BY <1>1, <1>6, <2>1 DEF Leading
  <2> QED BY <2>2 DEF Leading, Leader
<1>14. WholeLoaded'
  <2>1. ~table.chunk => Whole(model'.params_)
    <3>1. ~table.chunk => ~Replacing
      BY <1>9 DEF Caching, Replacing
    <3> QED BY <1>1, <1>2, <1>10, <3>1, WholeKept
  <2> QED BY <1>12, <2>1 DEF WholeLoaded, Whole
<1>15. Handed'
  <2>1. Idle'
    BY <1>5, <1>12 DEF Idle, NoParams
  <2>2. ~(th[Leader].pc \in Start)' /\ ~(th[Leader].pc \in End)'
    BY <1>8 DEF Start, End, Leader
  <2> QED BY <2>1, <2>2 DEF Handed
<1>16. Intact' => Intact
  <2>1. lost \subseteq lost'
    BY <1>2 DEF ModelStep, PrepareStep, StoreWord, CopyChunk, AddChunk, RacyLoad, RacyStore
  <2> QED BY <2>1 DEF Intact
<1>17. KeptInv'
  <2> SUFFICES ASSUME Intact, table.mode_type # "Hogwild"
               PROVE  /\ Accounted'
                      /\ \A u \in Threads :
                           th'[u].pc = "add" => th'[u].val = model'.params_[Min(th'[u].todo)]
    BY <1>8, <1>12, <1>16 DEF KeptInv, Accounted, At, Leader, Start, End
  <2>2. /\ Accounted
        /\ \A u \in Threads : At(u, "add") => th[u].val = model.params_[Min(th[u].todo)]
    BY DEF KeptInv, Accounted
  <2>3. Stored(th[t])
    BY <2>2 DEF Stored, At
  <2>4. \A u \in Threads : th[u].pc = "add" => kind = "Integral" /\ u = Leader /\ t = Leader
    <3> SUFFICES ASSUME NEW u \in Threads, th[u].pc = "add"
                 PROVE  kind = "Integral" /\ u = Leader /\ t = Leader
      OBVIOUS
    <3>1. kind = "Integral"
      BY <1>1, <1>9, StateOf DEF Placed
    <3>2. Workers = {Leader}
      BY <1>1, <1>9, <3>1, Modes
    <3>3. u \in Workers
      BY AWorker
    <3> QED BY <1>5, <3>1, <3>2, <3>3
  <2>5. th[t].pc = "add" => Whole(model.params_)
    BY <1>9, <1>10, <2>4
  <2>6. Accounted'
    BY <1>1, <1>2, <1>5, <2>2, <2>3, <2>5, WorkContent
  <2>7. ASSUME NEW u \in Threads, th'[u].pc = "add"
        PROVE  th'[u].val = model'.params_[Min(th'[u].todo)]
    <3>1. u = t
      BY <1>6, <2>4, <2>7
    <3> QED BY <1>1, <1>2, <2>7, <3>1, JustLoaded
  <2> QED BY <2>6, <2>7
<1> QED BY <1>11, <1>13, <1>14, <1>15, <1>16, <1>17 DEF CacheInv
------------------------------------------------------------------------------
(* The invariant.                                                          *)

LEMMA InitiallyKept ==
  ASSUME Init
  PROVE  CacheInv /\ KeptInv
<1>1. /\ table \in Tables /\ kind = ModelOf(table) /\ model = NewModel
      /\ api = table.api /\ lost = {} /\ unsaved = {}
      /\ limits = [cache_threshold_ |-> table.cache_threshold_, num_dumps |-> table.num_dumps]
      /\ th = [t \in Threads |-> NewLocals(IF t \in Workers THEN "construct" ELSE "done")]
      /\ kv = [c \in Chunks |-> 0] /\ applied = [c \in Chunks |-> 0]
      /\ epoch = 0 /\ order = FALSE /\ store = NoParams /\ mailbox = NoParams
  BY DEF Init
<1>2. Inv
  BY Initially
<1>3. Leader \in Workers /\ Leader \in Threads
  BY <1>2, Modes DEF Inv
<1>4. ASSUME NEW t \in Threads
      PROVE  /\ th[t] \in LocalState /\ th[t].pc \in {"construct", "done"}
             /\ th[t].pc = IF t \in Workers THEN "construct" ELSE "done"
             /\ th[t].fetch = {} /\ th[t].check = {} /\ th[t].pool = {}
  <2>1. PICK k : k = IF t \in Workers THEN "construct" ELSE "done"
    OBVIOUS
  <2>2. th[t] = NewLocals(k) /\ k \in Labels /\ k \in {"construct", "done"}
    BY <1>1, <2>1 DEF Labels
  <2> QED BY <2>1, <2>2 DEF NewLocals, LocalState, Amount
<1>5. th \in [Threads -> LocalState]
  <2>1. th = [t \in Threads |-> th[t]]
    BY <1>1
  <2> QED BY <1>4, <2>1
<1>6. \A t \in Threads : Placed(th[t]) /\ th[t].pc \in Outer
  BY <1>4 DEF Placed, Filling, Evicting, Training, Outer
<1>7. \A u \in Threads : Held(th[u]) = {} /\ Passed(th[u]) = {}
  BY <1>5, <1>6, HoldsNothing
<1>8. /\ model \in Models /\ model.num_cached_ = 0
      /\ \A c \in Chunks : /\ model.mtx_[c] = Free /\ ~model.is_cached_[c]
                           /\ model.params_[c] = None /\ model.prepare_count_[c] = 0
                           /\ model.disk[c] = None
  BY <1>1 DEF NewModel, Models, Amount
<1>9. ModelTyped
  BY <1>1, <1>5, <1>6, <1>8 DEF ModelTyped, NoParams, Amount
<1>10. th[Leader].pc = "construct"
  BY <1>3, <1>4
<1>11. Leading /\ WholeLoaded /\ Handed
  <2>1. Leading
    BY <1>4 DEF Leading
  <2>2. WholeLoaded
    BY <1>10 DEF WholeLoaded, Loaded, Looping, Training
  <2>3. Handed
    BY <1>1, <1>10 DEF Handed, Idle, Start, End
  <2> QED BY <2>1, <2>2, <2>3
<1>12. FlagsInv
  <2>1. LocksKept
    BY <1>7, <1>8, NobodyFree DEF LocksKept
  <2>2. Wanted /\ Checked
    BY <1>4, <1>7 DEF Wanted, Checked
  <2>3. Pinned
    <3>1. \A c \in Chunks : {t \in Threads : c \in Passed(th[t])} = {}
      BY <1>7
    <3> QED BY <1>8, <3>1, FS_EmptySet DEF Pinned
  <2>4. NumCached
    <3>1. {c \in Chunks : Counted(c)} = {}
      BY <1>8 DEF Counted
    <3>2. limits.cache_threshold_ \in Nat
      BY <1>9, Limited
    <3>3. Cardinality({c \in Chunks : Counted(c)}) = 0
      BY <3>1, FS_EmptySet
    <3> QED BY <1>8, <3>2, <3>3 DEF NumCached
  <2> QED BY <2>1, <2>2, <2>3, <2>4 DEF FlagsInv
<1>13. KeptInv
  <2>1. \A c \in Chunks : Content(c) = 0 /\ Outside(c) = 0 /\ applied[c] = 0
    BY <1>1, <1>8, NobodyFree DEF Content, Outside, NoParams
  <2>2. \A u \in Threads : ~At(u, "add")
    BY <1>4 DEF At
  <2>3. th[Leader].pc \notin {"sync", "load"}
    BY <1>10
  <2> QED BY <1>8, <2>1, <2>2, <2>3 DEF KeptInv
<1> QED BY <1>9, <1>11, <1>12, <1>13 DEF CacheInv

LEMMA StepKept ==
  ASSUME Inv, CacheInv, KeptInv, [Next]_vars
  PROVE  CacheInv' /\ KeptInv'
<1>1. ASSUME NEW t \in Threads, Send(t) PROVE CacheInv' /\ KeptInv'
  BY <1>1, UntouchedKept DEF Send, run, transfer, history
<1>2. ASSUME NEW t \in Threads, Step(t) PROVE CacheInv' /\ KeptInv'
  BY <1>1, <1>2, ConstructKept, LoadKept, FinishKept, DumpKept, DeleteKept, RequestKept,
     BeforePullKept, WorkKept, PulledKept, BeforePushKept, PushedKept DEF Step
<1>3. CASE Barrier
  BY <1>3, BarrierKept
<1>4. CASE NextEpoch
  BY <1>4, NextEpochKept
<1>5. CASE SendModel
  BY <1>5, SendModelKept
<1>6. CASE Finished \/ UNCHANGED vars
  BY <1>6, UntouchedKept DEF Finished, vars
<1> QED BY <1>2, <1>3, <1>4, <1>5, <1>6 DEF Next

\* In every reachable state the model's flags, locks, pins and counter agree
\* with the places of the threads in its code, and the updates applied so far
\* are in the model, the file, the transfer or the KV store (ml/model/*.hpp,
\* ml/mlworker/{spmt,hogwild,single}.hpp).
THEOREM CacheInvariance == Spec => [](CacheInv /\ KeptInv)
<1>1. Init => Inv /\ CacheInv /\ KeptInv
  BY Initially, InitiallyKept
<1>2. Inv /\ CacheInv /\ KeptInv /\ [Next]_vars => (CacheInv /\ KeptInv)'
  BY StepKept
<1>3. Spec => []Inv
  BY Invariance
<1> QED BY <1>1, <1>2, <1>3, PTL DEF Spec

LEMMA LoadedInUse ==
  ASSUME Inv, CacheInv, kind = "Integral", NEW t \in Threads, th[t].pc \in Training
  PROVE  Whole(model.params_)
<1>1. th[t].pc \in Looping
  BY DEF Looping
<1>2. Loaded
  BY <1>1, LeaderLooping
<1>3. ~table.chunk
  BY Kinds DEF Inv
<1> QED BY <1>2, <1>3 DEF CacheInv, WholeLoaded

\* As long as no write of a word of std::vector<bool> has undone the flag of
\* a neighbour, the cache keeps what is in use, tells it by its flags, counts
\* it, and stays within cache_threshold_ where a replacement makes room for a
\* whole request, for every number of threads, chunks and flags in a word
\* (ModelWithCM::Prepare, ml/model/chunk_based_mt_model*.hpp).
THEOREM CacheRight == Spec => [](lost = {} => CacheSound)
<1>1. Inv /\ CacheInv => (lost = {} => CacheSound)
  <2> SUFFICES ASSUME Inv, CacheInv, Intact PROVE CacheSound
    BY DEF Intact
  <2>1. ModelTyped /\ LocksKept /\ Wanted /\ Checked /\ NumCached
    BY DEF CacheInv, FlagsInv
  <2>2. PreparedInMemory
    <3> SUFFICES ASSUME NEW t \in Threads,
                        NEW c \in IF th[t].pc \in {"read", "before_push"} THEN th[t].req
                                  ELSE IF th[t].pc \in {"write", "add"} THEN th[t].todo ELSE {}
                 PROVE  model.params_[c] # None
      BY DEF PreparedInMemory
    <3>1. /\ th[t].pc \in {"read", "before_push", "write", "add"} /\ c \in Chunks
          /\ c \in Passed(th[t])
      <4>1. th[t] \in LocalState
        BY <2>1, StateOf
      <4> QED BY <4>1 DEF LocalState, Passed, Evicting
    <3>2. CASE kind = "Integral"
      <4>1. Whole(model.params_)
        BY <3>1, <3>2, LoadedInUse DEF Training
      <4> QED BY <3>1, <4>1 DEF Whole
    <3>3. CASE kind # "Integral"
      <4>1. Missing(th[t]) = {} /\ Brought(th[t]) = {} /\ th[t].pc \notin Filling
        BY <3>1 DEF Missing, Brought, Evicting, Filling
      <4>2. Ready(c)
        BY <2>1, <3>1, <3>3, <4>1 DEF Wanted
      <4> QED BY <2>1, <3>1, <3>3, <4>2 DEF Ready, LocksKept
    <3> QED BY <3>2, <3>3
  <2>3. \A c \in Chunks : FlagRight(c)
    <3>1. ASSUME NEW t \in Threads, At(t, "await"), NEW c \in th[t].check, model.mtx_[c] = Free
          PROVE  model.is_cached_[c]
      <4>1. ~Replacing
        BY <2>1, <3>1, StateOf DEF Placed, At
      <4> QED BY <2>1, <3>1, <4>1 DEF Checked
    <3>2. kind # "Integral" => \A c \in Chunks :
            model.mtx_[c] = Free => (model.is_cached_[c] <=> model.params_[c] # None)
      BY <2>1 DEF LocksKept
    <3> QED BY <3>1, <3>2 DEF FlagRight
  <2>4. CacheBounded
    <3> SUFFICES ASSUME Replacing
                 PROVE  /\ Roomy => model.num_cached_ <= limits.cache_threshold_
                        /\ (\A c \in Chunks : model.mtx_[c] = Free) =>
                             model.num_cached_ = Cardinality({c \in Chunks : model.params_[c] # None})
      BY DEF CacheBounded
    <3>1. /\ model.num_cached_ = Cardinality({c \in Chunks : Counted(c)})
          /\ Roomy => model.num_cached_ <= limits.cache_threshold_
      BY <2>1 DEF NumCached
    <3>2. ASSUME \A c \in Chunks : model.mtx_[c] = Free
          PROVE  {c \in Chunks : Counted(c)} = {c \in Chunks : model.params_[c] # None}
      <4>1. kind # "Integral"
        BY DEF Caching, Replacing
      <4>2. \A c \in Chunks : Counted(c) <=> model.is_cached_[c]
        BY <2>1, <3>2 DEF Counted, ModelTyped, Models
      <4> QED BY <2>1, <3>2, <4>1, <4>2 DEF LocksKept
    <3> QED BY <3>1, <3>2
  <2> QED BY <2>2, <2>3, <2>4 DEF CacheSound
<1>2. Spec => []Inv
  BY Invariance
<1>3. Spec => [](CacheInv /\ KeptInv)
  BY CacheInvariance
<1> QED BY <1>1, <1>2, <1>3, PTL

\* As long as no flag has been undone in its word, no interleaving of
\* fetches, evictions, pushes, loads, dumps and direct transfers loses an
\* update to a chunk that was not in the cache's file at a dump
\* (ChunkBasedModel and its subclasses, ModelTransferManager).
THEOREM UpdatesKept == Spec => [](lost = {} => NoUpdateLost)
<1>1. CacheInv /\ KeptInv => (lost = {} => NoUpdateLost)
  BY DEF KeptInv, NoUpdateLost, Intact
<1>2. Spec => [](CacheInv /\ KeptInv)
  BY CacheInvariance
<1> QED BY <1>1, <1>2, PTL
==============================================================================
