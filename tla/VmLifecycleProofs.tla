------------------------- MODULE VmLifecycleProofs -------------------------
(***************************************************************************)
(* Proofs about VmLifecycle, for every set of keys and circuits, every     *)
(* grace period and every choice of faults: its types, the history of the  *)
(* disabled spells, the grace period and the refinement of VmRetention,    *)
(* and why a VM is removed at all.                                         *)
(***************************************************************************)
EXTENDS VmLifecycle, TLAPS

----------------------------------------------------------------------------
(***************************************************************************)
(* The basic inductive invariant: types, the history of the disabled       *)
(* spells, and that rows the sync or a circuit holds exist in the table.   *)
(***************************************************************************)

SinceIsSpell ==
    \A k \in Keys : since[k] # None <=> (db[k] # None /\ db[k].disabled)

HeldRowsExist ==
  /\ phase \in {"idle", "list"} => todo = {} /\ marked = {}
  /\ phase = "idle" => \A k \in Keys : seen[k] = None
  /\ \A k \in Keys :
      /\ seen[k] # None => db[k] # None
      /\ k \in todo \cup marked => seen[k] # None
      /\ \A c \in Circuits : tracked[c][k] # None => db[k] # None

HandlersHaveKeys ==
    \A c \in Circuits :
      /\ op[c].pc # "idle" => op[c].key \in Keys
      /\ op[c].pc \in {"update", "unsaved"} => tracked[c][op[c].key] # None

IInv == TypeOK /\ SinceIsSpell /\ StampIsFresh /\ HeldRowsExist /\ HandlersHaveKeys

\* None is neither a stamp nor a row nor a key.
LEMMA NoneIsNothing == /\ None \notin Ages /\ None \notin Row /\ None \notin Keys
                       /\ Grace \in Nat /\ Grace > 0
  BY GraceAssumption, NoneAssumption DEF Ages, Row, Stamp

\* Ageing keeps a stamp a stamp, keeps None, and keeps the order of stamps.
LEMMA OlderFacts ==
    /\ \A a \in Stamp : Older(a) \in Stamp /\ (Older(a) = None <=> a = None)
    /\ \A a, b \in Ages : a <= b => Older(a) <= Older(b)
  BY NoneIsNothing DEF Older, Stamp, Ages

\* What the assignments of the handlers make of a row.
LEMMA RowFields ==
    ASSUME NEW r \in Row
    PROVE  /\ r # None
           /\ r.disabled \in BOOLEAN /\ r.deleted \in BOOLEAN /\ r.at \in Stamp
  BY NoneIsNothing DEF Row

LEMMA DeletingFacts ==
    ASSUME NEW r \in Row
    PROVE  /\ Deleting(r) \in Row /\ Deleting(r) # None
           /\ Deleting(r).disabled = r.disabled /\ Deleting(r).at = r.at
           /\ Deleting(r).deleted
  <1>1. Deleting(r) \in Row
    BY DEF Row, Deleting
  <1>2. /\ Deleting(r).disabled = r.disabled /\ Deleting(r).at = r.at
        /\ Deleting(r).deleted
    BY DEF Row, Deleting
  <1> QED BY <1>1, <1>2, NoneIsNothing

LEMMA DisablingFacts ==
    ASSUME NEW r \in Row, NEW x \in BOOLEAN, NEW at \in {0, 1}
    PROVE  /\ Disabling(r, x, at) \in Row /\ Disabling(r, x, at) # None
           /\ Disabling(r, x, at).disabled = x /\ Disabling(r, x, at).at = at
           /\ Disabling(r, x, at).deleted = r.deleted
  <1>1. at \in Stamp
    BY NoneIsNothing DEF Stamp, Ages
  <1>2. Disabling(r, x, at) \in Row
    BY <1>1 DEF Row, Disabling
  <1>3. /\ Disabling(r, x, at).disabled = x /\ Disabling(r, x, at).at = at
        /\ Disabling(r, x, at).deleted = r.deleted
    BY DEF Row, Disabling
  <1> QED BY <1>2, <1>3, NoneIsNothing

LEMMA ActivatingFacts ==
    ASSUME NEW r \in Row, NEW x \in BOOLEAN, NEW y \in BOOLEAN
    PROVE  /\ Activating(r, x, y) \in Row /\ Activating(r, x, y) # None
           /\ Activating(r, x, y).disabled = x /\ Activating(r, x, y).at = r.at
           /\ Activating(r, x, y).deleted = y
  <1>1. Activating(r, x, y) \in Row
    BY DEF Row, Activating
  <1>2. /\ Activating(r, x, y).disabled = x /\ Activating(r, x, y).at = r.at
        /\ Activating(r, x, y).deleted = y
    BY DEF Row, Activating
  <1> QED BY <1>1, <1>2, NoneIsNothing

LEMMA AgeRowFacts ==
    \A r \in RowOrNone :
      /\ AgeRow(r) \in RowOrNone
      /\ AgeRow(r) = None <=> r = None
      /\ r # None => /\ AgeRow(r).disabled = r.disabled
                     /\ AgeRow(r).deleted = r.deleted
                     /\ AgeRow(r).at = Older(r.at)
  <1> SUFFICES ASSUME NEW r \in RowOrNone
               PROVE  /\ AgeRow(r) \in RowOrNone
                      /\ AgeRow(r) = None <=> r = None
                      /\ r # None => /\ AgeRow(r).disabled = r.disabled
                                     /\ AgeRow(r).deleted = r.deleted
                                     /\ AgeRow(r).at = Older(r.at)
    OBVIOUS
  <1>1. CASE r = None
    BY <1>1 DEF AgeRow, RowOrNone
  <1>2. CASE r \in Row
    BY <1>2, OlderFacts, NoneIsNothing DEF AgeRow, RowOrNone, Row
  <1> QED BY <1>1, <1>2 DEF RowOrNone

\* Storing a table of rows keeps the history right.
LEMMA StoreBegunFacts ==
    ASSUME NEW table, table \in [Keys -> RowOrNone], NEW begun, begun \in [Keys -> {0, 1}],
           StoreBegun(table, begun), since \in [Keys -> Stamp]
    PROVE  /\ db' = table
           /\ since' \in [Keys -> Stamp]
           /\ \A k \in Keys :
                /\ since'[k] # None <=> (table[k] # None /\ table[k].disabled)
                /\ since'[k] # None => since'[k] = IF since[k] = None THEN begun[k]
                                                  ELSE IF since[k] < begun[k] THEN begun[k]
                                                  ELSE since[k]
  <1> USE NoneIsNothing
  <1>1. {0, 1} \subseteq Stamp /\ None \notin {0, 1} /\ None \in Stamp
    BY DEF Stamp, Ages
  <1>2. \A k \in Keys : begun[k] \in {0, 1} /\ since[k] \in Stamp
    OBVIOUS
  <1>3. \A k \in Keys : since'[k] = IF table[k] = None THEN None
                                     ELSE IF ~table[k].disabled THEN None
                                     ELSE IF since[k] = None THEN begun[k]
                                     ELSE IF since[k] < begun[k] THEN begun[k] ELSE since[k]
    BY DEF StoreBegun
  <1>4. since' \in [Keys -> Stamp]
    BY <1>1, <1>2 DEF StoreBegun
  <1> QED BY <1>1, <1>2, <1>3, <1>4 DEF StoreBegun

LEMMA StoreFacts ==
    ASSUME NEW table, table \in [Keys -> RowOrNone], Store(table), since \in [Keys -> Stamp]
    PROVE  /\ db' = table
           /\ since' \in [Keys -> Stamp]
           /\ \A k \in Keys :
                /\ since'[k] # None <=> (table[k] # None /\ table[k].disabled)
                /\ since'[k] # None => since'[k] = IF since[k] = None THEN 0 ELSE since[k]
  <1> DEFINE begun == [k \in Keys |-> 0]
  <1>1. begun \in [Keys -> {0, 1}] /\ StoreBegun(table, begun) /\ \A k \in Keys : begun[k] = 0
    BY DEF Store
  <1> HIDE DEF begun
  <1>2. /\ db' = table
        /\ since' \in [Keys -> Stamp]
        /\ \A k \in Keys :
             /\ since'[k] # None <=> (table[k] # None /\ table[k].disabled)
             /\ since'[k] # None => since'[k] = IF since[k] = None THEN begun[k]
                                               ELSE IF since[k] < begun[k] THEN begun[k]
                                               ELSE since[k]
    BY <1>1, StoreBegunFacts
  <1>3. \A k \in Keys : since[k] = None \/ ~(since[k] < 0)
    BY NoneIsNothing DEF Stamp, Ages
  <1> QED BY <1>1, <1>2, <1>3

\* Storing one row leaves the others and their history alone.
LEMMA StoreRowFacts ==
    ASSUME db \in [Keys -> RowOrNone], since \in [Keys -> Stamp],
           NEW k \in Keys, NEW row \in Row, NEW at \in {0, 1}, StoreRow(k, row, at)
    PROVE  /\ db' \in [Keys -> RowOrNone] /\ since' \in [Keys -> Stamp]
           /\ db'[k] = row
           /\ since'[k] # None <=> row.disabled
           /\ since'[k] # None => since'[k] = IF since[k] = None THEN at
                                             ELSE IF since[k] < at THEN at ELSE since[k]
           /\ \A j \in Keys \ {k} :
                /\ db'[j] = db[j]
                /\ (since[j] # None <=> (db[j] # None /\ db[j].disabled)) => since'[j] = since[j]
  <1> DEFINE table == [db EXCEPT ![k] = row]
             begun == [j \in Keys |-> IF j = k THEN at ELSE 0]
  <1>0. row # None
    BY NoneIsNothing
  <1>1. /\ table \in [Keys -> RowOrNone] /\ table[k] = row
        /\ \A j \in Keys \ {k} : table[j] = db[j]
    BY DEF RowOrNone
  <1>2. /\ begun \in [Keys -> {0, 1}] /\ begun[k] = at
        /\ \A j \in Keys \ {k} : begun[j] = 0
    OBVIOUS
  <1>3. StoreBegun(table, begun)
    BY DEF StoreRow
  <1> HIDE DEF table, begun
  <1>4. /\ db' = table
        /\ since' \in [Keys -> Stamp]
        /\ \A j \in Keys :
             /\ since'[j] # None <=> (table[j] # None /\ table[j].disabled)
             /\ since'[j] # None => since'[j] = IF since[j] = None THEN begun[j]
                                               ELSE IF since[j] < begun[j] THEN begun[j]
                                               ELSE since[j]
    BY <1>1, <1>2, <1>3, StoreBegunFacts
  <1>5. \A j \in Keys : since[j] = None \/ ~(since[j] < 0)
    BY NoneIsNothing DEF Stamp, Ages
  <1>6. ASSUME NEW j \in Keys \ {k}, since[j] # None <=> (db[j] # None /\ db[j].disabled)
        PROVE  since'[j] = since[j]
    BY <1>1, <1>2, <1>4, <1>5, <1>6
  <1>7. /\ db' \in [Keys -> RowOrNone] /\ since' \in [Keys -> Stamp]
        /\ db'[k] = row /\ \A j \in Keys \ {k} : db'[j] = db[j]
    BY <1>1, <1>4
  <1>8. /\ since'[k] # None <=> row.disabled
        /\ since'[k] # None => since'[k] = IF since[k] = None THEN at
                                          ELSE IF since[k] < at THEN at ELSE since[k]
    BY <1>0, <1>1, <1>2, <1>4
  <1> QED BY <1>6, <1>7, <1>8

LEMMA InitInv == Init => IInv
  <1> SUFFICES ASSUME Init PROVE IInv
    OBVIOUS
  <1> USE NoneIsNothing DEF Init
  <1>1. TypeOK
    <2>1. /\ Idle \in OpState /\ "none" \in CauseKinds /\ None \in RowOrNone /\ None \in Stamp
          /\ {"none", "here"} \subseteq {"none", "here", "running", "away"}
      BY DEF OpState, Idle, CauseKinds, RowOrNone, Stamp
    <2> QED BY <2>1 DEF TypeOK
  <1>2. SinceIsSpell /\ StampIsFresh /\ HeldRowsExist /\ HandlersHaveKeys
    BY DEF SinceIsSpell, StampIsFresh, HeldRowsExist, HandlersHaveKeys, Idle
  <1> QED BY <1>1, <1>2 DEF IInv

\* The steps of the sync.
LEMMA SyncInv ==
    ASSUME IInv, SyncStep
    PROVE  IInv'
  <1> USE NoneIsNothing
  <1>0. TypeOK /\ SinceIsSpell /\ StampIsFresh /\ HeldRowsExist /\ HandlersHaveKeys
    BY DEF IInv
  <1>1. CASE SyncRead
    <2>1. TypeOK'
      BY <1>0, <1>1 DEF SyncRead, TypeOK, RowOrNone
    <2>2. (SinceIsSpell /\ StampIsFresh /\ HeldRowsExist /\ HandlersHaveKeys)'
      BY <1>0, <1>1 DEF SyncRead, TypeOK, SinceIsSpell, StampIsFresh, HeldRowsExist, HandlersHaveKeys
    <2> QED BY <2>1, <2>2 DEF IInv
  <1>2. CASE SyncList
    <2>1. TypeOK'
      BY <1>0, <1>2 DEF SyncList, Expired, TypeOK
    <2>2. (SinceIsSpell /\ StampIsFresh /\ HeldRowsExist /\ HandlersHaveKeys)'
      BY <1>0, <1>2 DEF SyncList, Expired, TypeOK, SinceIsSpell, StampIsFresh, HeldRowsExist, HandlersHaveKeys
    <2> QED BY <2>1, <2>2 DEF IInv
  <1>3. ASSUME NEW k \in Keys, SyncDelete(k) \/ SyncDeleteRejected(k)
        PROVE  IInv'
    <2>1. TypeOK'
      BY <1>0, <1>3 DEF SyncDelete, SyncDeleteRejected, Removes, TypeOK
    <2>2. (SinceIsSpell /\ StampIsFresh /\ HeldRowsExist /\ HandlersHaveKeys)'
      BY <1>0, <1>3 DEF SyncDelete, SyncDeleteRejected, Removes, TypeOK, SinceIsSpell, StampIsFresh, HeldRowsExist, HandlersHaveKeys
    <2> QED BY <2>1, <2>2 DEF IInv
  <1>4. CASE SyncSaveDeleted
    <2> DEFINE table == [k \in Keys |-> IF k \in marked THEN Deleting(db[k]) ELSE db[k]]
    <2>0. \A k \in Keys : db[k] \in RowOrNone /\ (k \in marked => db[k] \in Row)
      BY <1>0 DEF TypeOK, HeldRowsExist, RowOrNone
    <2>a. \A r \in Row : /\ Deleting(r) \in Row /\ Deleting(r) # None
                         /\ Deleting(r).disabled = r.disabled /\ Deleting(r).at = r.at
      BY DeletingFacts
    <2>b. ASSUME NEW k \in Keys PROVE table[k] \in RowOrNone
      <3>1. CASE k \in marked
        BY <3>1, <2>0, <2>a DEF RowOrNone
      <3>2. CASE k \notin marked
        BY <3>2, <2>0
      <3> QED BY <3>1, <3>2
    <2>1. table \in [Keys -> RowOrNone]
      BY <2>b
    <2>2. \A k \in Keys : /\ table[k] # None <=> db[k] # None
                          /\ db[k] # None => table[k].disabled = db[k].disabled /\ table[k].at = db[k].at
      BY <2>0, <2>a DEF RowOrNone
    <2>3. Store(table) /\ since \in [Keys -> Stamp]
      BY <1>0, <1>4 DEF SyncSaveDeleted, TypeOK
    <2> HIDE DEF table
    <2>4. /\ db' = table
          /\ since' \in [Keys -> Stamp]
          /\ \A k \in Keys :
               /\ since'[k] # None <=> (table[k] # None /\ table[k].disabled)
               /\ since'[k] # None => since'[k] = IF since[k] = None THEN 0 ELSE since[k]
      BY <2>1, <2>3, StoreFacts
    <2>5. TypeOK'
      BY <1>0, <1>4, <2>1, <2>4 DEF SyncSaveDeleted, TypeOK
    <2>6. SinceIsSpell'
      BY <2>4 DEF SinceIsSpell
    <2>7. StampIsFresh'
      BY <1>0, <2>2, <2>4 DEF StampIsFresh, SinceIsSpell
    <2>8. HeldRowsExist' /\ HandlersHaveKeys'
      BY <1>0, <1>4, <2>2, <2>4 DEF SyncSaveDeleted, HeldRowsExist, HandlersHaveKeys
    <2> QED BY <2>5, <2>6, <2>7, <2>8 DEF IInv
  <1>5. CASE SyncMissing
    <2> DEFINE table == [k \in Keys |->
                 IF Missing(k) /\ ~seen[k].disabled
                    THEN Disabling(db[k], TRUE, 0)
                 ELSE IF Missing(k) /\ k \notin marked /\ PastGrace(seen[k].at)
                    THEN Deleting(db[k])
                 ELSE db[k]]
    <2>0. 0 \in Stamp /\ 0 \in Ages
      BY DEF Stamp, Ages
    <2>a. \A k \in Keys : db[k] \in RowOrNone /\ (Missing(k) => db[k] \in Row)
      BY <1>0 DEF TypeOK, HeldRowsExist, RowOrNone, Missing
    <2>b. \A r \in Row :
            /\ /\ Deleting(r) \in Row /\ Deleting(r) # None
               /\ Deleting(r).disabled = r.disabled /\ Deleting(r).at = r.at
            /\ /\ Disabling(r, TRUE, 0) \in Row /\ Disabling(r, TRUE, 0) # None
               /\ Disabling(r, TRUE, 0).disabled = TRUE /\ Disabling(r, TRUE, 0).at = 0
      BY DeletingFacts, DisablingFacts
    <2>c. ASSUME NEW k \in Keys PROVE table[k] \in RowOrNone
      <3>1. CASE Missing(k) /\ ~seen[k].disabled
        BY <3>1, <2>a, <2>b DEF RowOrNone
      <3>2. CASE Missing(k) /\ seen[k].disabled /\ k \notin marked /\ PastGrace(seen[k].at)
        BY <3>2, <2>a, <2>b DEF RowOrNone
      <3>3. CASE table[k] = db[k]
        BY <3>3, <2>a
      <3> QED BY <3>1, <3>2, <3>3
    <2>1. table \in [Keys -> RowOrNone]
      BY <2>c
    <2>2. \A k \in Keys :
            /\ table[k] # None <=> db[k] # None
            /\ db[k] # None => \/ table[k].disabled = db[k].disabled /\ table[k].at = db[k].at
                               \/ table[k].disabled = TRUE /\ table[k].at = 0
      BY <2>a, <2>b DEF RowOrNone
    <2>3. Store(table) /\ since \in [Keys -> Stamp]
      BY <1>0, <1>5 DEF SyncMissing, TypeOK
    <2> HIDE DEF table
    <2>4. /\ db' = table
          /\ since' \in [Keys -> Stamp]
          /\ \A k \in Keys :
               /\ since'[k] # None <=> (table[k] # None /\ table[k].disabled)
               /\ since'[k] # None => since'[k] = IF since[k] = None THEN 0 ELSE since[k]
      BY <2>1, <2>3, StoreFacts
    <2>5. TypeOK'
      <3>1. cause' \in [Keys -> CauseKinds]
        BY <1>0, <1>5 DEF SyncMissing, TypeOK, Because, CauseKinds
      <3> QED BY <1>0, <1>5, <2>1, <2>4, <3>1 DEF SyncMissing, SyncEnds, TypeOK, RowOrNone
    <2>6. SinceIsSpell'
      BY <2>4 DEF SinceIsSpell
    <2>7. StampIsFresh'
      BY <1>0, <2>0, <2>2, <2>4 DEF StampIsFresh, SinceIsSpell, TypeOK, Stamp, Ages
    <2>8. HeldRowsExist' /\ HandlersHaveKeys'
      BY <1>0, <1>5, <2>2, <2>4 DEF SyncMissing, SyncEnds, HeldRowsExist, HandlersHaveKeys
    <2> QED BY <2>5, <2>6, <2>7, <2>8 DEF IInv
  <1>6. CASE SyncAbort
    <2>1. TypeOK'
      BY <1>0, <1>6 DEF SyncAbort, SyncEnds, Removes, TypeOK, RowOrNone
    <2>2. (SinceIsSpell /\ StampIsFresh /\ HeldRowsExist /\ HandlersHaveKeys)'
      BY <1>0, <1>6 DEF SyncAbort, SyncEnds, TypeOK, SinceIsSpell, StampIsFresh, HeldRowsExist, HandlersHaveKeys
    <2> QED BY <2>1, <2>2 DEF IInv
  <1> QED BY <1>1, <1>2, <1>3, <1>4, <1>5, <1>6 DEF SyncStep

\* A save of one row, with a stamp no older than its spell.
LEMMA SaveInv ==
    ASSUME IInv, NEW k \in Keys, NEW row \in Row, NEW at \in {0, 1}, StoreRow(k, row, at),
           row.disabled => \/ row.at = at
                           \/ db[k] # None /\ db[k].disabled /\ row.at = db[k].at
    PROVE  /\ db' \in [Keys -> RowOrNone] /\ since' \in [Keys -> Stamp]
           /\ SinceIsSpell' /\ StampIsFresh'
           /\ \A j \in Keys : db[j] # None => db'[j] # None
           /\ db'[k] # None
  <1> USE NoneIsNothing
  <1>0. SinceIsSpell /\ StampIsFresh /\ db \in [Keys -> RowOrNone] /\ since \in [Keys -> Stamp]
    BY DEF IInv, TypeOK
  <1>1. /\ db' \in [Keys -> RowOrNone] /\ since' \in [Keys -> Stamp]
        /\ db'[k] = row
        /\ since'[k] # None <=> row.disabled
        /\ since'[k] # None => since'[k] = IF since[k] = None THEN at
                                          ELSE IF since[k] < at THEN at ELSE since[k]
        /\ \A j \in Keys \ {k} : /\ db'[j] = db[j]
                                 /\ (since[j] # None <=> (db[j] # None /\ db[j].disabled))
                                       => since'[j] = since[j]
    BY <1>0, StoreRowFacts
  <1>2. \A j \in Keys \ {k} : db'[j] = db[j] /\ since'[j] = since[j]
    BY <1>0, <1>1 DEF SinceIsSpell
  <1>3. SinceIsSpell'
    BY <1>0, <1>1, <1>2 DEF SinceIsSpell
  <1>4. at # None /\ at \in Nat /\ (since[k] # None => since[k] \in Nat)
    BY <1>0 DEF Stamp, Ages
  <1>5. since'[k] # None => row.at # None /\ row.at <= since'[k]
    <2> SUFFICES ASSUME since'[k] # None PROVE row.at # None /\ row.at <= since'[k]
      OBVIOUS
    <2>1. CASE row.at = at
      BY <1>1, <1>4, <2>1
    <2>2. CASE db[k] # None /\ db[k].disabled /\ row.at = db[k].at
      <3>1. since[k] # None /\ db[k].at # None /\ db[k].at <= since[k]
        BY <1>0, <2>2 DEF SinceIsSpell, StampIsFresh
      <3>2. db[k].at \in Nat
        <4>1. db[k] \in Row
          BY <1>0, <2>2 DEF RowOrNone
        <4> QED BY <3>1, <4>1, RowFields DEF Stamp, Ages
      <3> QED BY <1>1, <1>4, <2>2, <3>1, <3>2
    <2> QED BY <1>1, <2>1, <2>2
  <1>6. StampIsFresh'
    BY <1>0, <1>1, <1>2, <1>5 DEF StampIsFresh
  <1> QED BY <1>1, <1>2, <1>3, <1>6

\* A query's result is a row exactly when the table has one.
LEMMA QueryFacts ==
    ASSUME IInv, NEW c \in Circuits, NEW k \in Keys
    PROVE  /\ Query(c, k) \in RowOrNone
           /\ Query(c, k) # None => db[k] # None
           /\ db[k] # None => Query(c, k) # None
  BY DEF IInv, TypeOK, HeldRowsExist, Query

\* A handler that ends leaves no obligation about its key.
LEMMA DoneKeys ==
    ASSUME IInv, NEW c \in Circuits, op' = [op EXCEPT ![c] = Idle],
           \A d \in Circuits, j \in Keys : tracked[d][j] # None /\ d # c => tracked'[d][j] # None
    PROVE  HandlersHaveKeys' /\ op' \in [Circuits -> OpState]
  <1>0. HandlersHaveKeys /\ op \in [Circuits -> OpState]
    BY DEF IInv, TypeOK
  <1>1. op' \in [Circuits -> OpState]
    BY <1>0 DEF Idle, OpState
  <1>2. HandlersHaveKeys'
    <2> SUFFICES ASSUME NEW d \in Circuits, op'[d].pc # "idle"
                 PROVE  /\ op'[d].key \in Keys
                        /\ op'[d].pc \in {"update", "unsaved"} => tracked'[d][op'[d].key] # None
      BY DEF HandlersHaveKeys
    <2>1. d # c /\ op'[d] = op[d]
      BY <1>0 DEF Idle
    <2> QED BY <1>0, <2>1 DEF HandlersHaveKeys
  <1> QED BY <1>1, <1>2

\* IsDisabled and DisabledAt are saved, at once or later.
LEMMA SaveDisabledInv ==
    ASSUME IInv, NEW c \in Circuits, NEW k \in Keys, NEW at \in {0, 1},
           tracked[c][k] # None, SaveDisabled(c, k, at),
           \/ UNCHANGED <<op, late>>
           \/ Done(c)
    PROVE  IInv'
  <1> USE NoneIsNothing
  <1>0. TypeOK /\ SinceIsSpell /\ StampIsFresh /\ HeldRowsExist /\ HandlersHaveKeys
    BY DEF IInv
  <1> DEFINE dis == Column(tracked[c][k].disabled, TRUE, db[k].disabled)
             row == Disabling(db[k], dis, at)
  <1>1. db[k] \in Row /\ tracked[c][k] \in Row
    BY <1>0 DEF TypeOK, HeldRowsExist, RowOrNone
  <1>2. dis \in BOOLEAN
    BY <1>1, RowFields DEF Column
  <1>3. /\ StoreRow(k, row, at) /\ tracked' = [tracked EXCEPT ![c][k] = Disabling(@, TRUE, at)]
        /\ cause' = [cause EXCEPT ![k] = "asked"]
        /\ UNCHANGED <<pve, syncVars, purged, renewed>>
    BY DEF SaveDisabled
  <1> HIDE DEF dis
  <1>4. /\ row \in Row /\ row.at = at
        /\ Disabling(tracked[c][k], TRUE, at) \in Row /\ Disabling(tracked[c][k], TRUE, at) # None
    BY <1>1, <1>2, DisablingFacts
  <1> HIDE DEF row
  <1>5. /\ db' \in [Keys -> RowOrNone] /\ since' \in [Keys -> Stamp]
        /\ SinceIsSpell' /\ StampIsFresh'
        /\ \A j \in Keys : db[j] # None => db'[j] # None
    BY <1>3, <1>4, SaveInv
  <1>6. /\ tracked' \in [Circuits -> [Keys -> RowOrNone]]
        /\ \A d \in Circuits, j \in Keys : tracked'[d][j] # None <=> tracked[d][j] # None
    BY <1>0, <1>1, <1>3, <1>4 DEF TypeOK, RowOrNone
  <1>7. HandlersHaveKeys' /\ op' \in [Circuits -> OpState] /\ late' \subseteq late
    <2>1. CASE UNCHANGED <<op, late>>
      BY <1>0, <1>6, <2>1 DEF TypeOK, HandlersHaveKeys
    <2>2. CASE Done(c)
      BY <1>6, <2>2, DoneKeys DEF Done
    <2> QED BY <2>1, <2>2
  <1>8. TypeOK'
    <2>1. cause' \in [Keys -> CauseKinds]
      BY <1>0, <1>3 DEF TypeOK, CauseKinds
    <2> QED BY <1>0, <1>3, <1>5, <1>6, <1>7, <2>1 DEF syncVars, TypeOK
  <1>9. HeldRowsExist'
    BY <1>0, <1>3, <1>5, <1>6 DEF syncVars, HeldRowsExist
  <1> QED BY <1>5, <1>7, <1>8, <1>9 DEF IInv

\* A save that failed comes later.
LEMMA LaterSaveInv ==
    ASSUME IInv, NEW c \in Circuits, LaterSave(c)
    PROVE  IInv'
  <1>1. op[c].key \in Keys /\ tracked[c][op[c].key] # None
    BY DEF IInv, HandlersHaveKeys, LaterSave
  <1>2. Waited(c) \in {0, 1} /\ SaveDisabled(c, op[c].key, Waited(c)) /\ Done(c)
    BY DEF LaterSave, Waited
  <1> QED BY <1>1, <1>2, SaveDisabledInv

\* Disable(c, k), by a user or an administrator.
LEMMA DisableInv ==
    ASSUME IInv, NEW c \in Circuits, NEW k \in Keys, tracked[c][k] # None, Disable(c, k)
    PROVE  IInv'
  <1>1. CASE SaveDisabled(c, k, 0) /\ UNCHANGED <<op, late>>
    BY <1>1, SaveDisabledInv
  <1>2. CASE /\ Busy(c, "unsaved", k)
             /\ UNCHANGED <<db, pve, tracked, syncVars, late, since, cause, purged, renewed>>
    <2>0. TypeOK /\ SinceIsSpell /\ StampIsFresh /\ HeldRowsExist /\ HandlersHaveKeys
      BY DEF IInv
    <2>1. op' = [op EXCEPT ![c] = [pc |-> "unsaved", key |-> k]] /\ op \in [Circuits -> OpState]
      BY <1>2, <2>0 DEF Busy, TypeOK
    <2>2. op' \in [Circuits -> OpState]
      BY <2>1 DEF OpState
    <2>3. TypeOK'
      BY <1>2, <2>0, <2>2 DEF TypeOK, syncVars
    <2>4. HandlersHaveKeys'
      <3> SUFFICES ASSUME NEW d \in Circuits, op'[d].pc # "idle"
                   PROVE  /\ op'[d].key \in Keys
                          /\ op'[d].pc \in {"update", "unsaved"} => tracked'[d][op'[d].key] # None
        BY DEF HandlersHaveKeys
      <3>1. op'[d] = IF d = c THEN [pc |-> "unsaved", key |-> k] ELSE op[d]
        BY <2>1
      <3>2. CASE d = c
        BY <1>2, <3>1, <3>2
      <3>3. CASE d # c
        BY <1>2, <2>0, <3>1, <3>3 DEF HandlersHaveKeys
      <3> QED BY <3>2, <3>3
    <2>5. (SinceIsSpell /\ StampIsFresh /\ HeldRowsExist)'
      BY <1>2, <2>0 DEF SinceIsSpell, StampIsFresh, HeldRowsExist, syncVars
    <2> QED BY <2>3, <2>4, <2>5 DEF IInv
  <1> QED BY <1>1, <1>2 DEF Disable

\* The save of a creation that found a row.
LEMMA CreateUpdateInv ==
    ASSUME IInv, NEW c \in Circuits, CreateUpdate(c)
    PROVE  IInv'
  <1> USE NoneIsNothing
  <1>0. TypeOK /\ SinceIsSpell /\ StampIsFresh /\ HeldRowsExist /\ HandlersHaveKeys
    BY DEF IInv
  <1> DEFINE k == op[c].key
             e == tracked[c][k]
             dis == Column(e.disabled, FALSE, db[k].disabled)
             del == Column(e.deleted, FALSE, db[k].deleted)
             row == Activating(db[k], dis, del)
  <1>1. k \in Keys /\ db[k] \in Row /\ e \in Row
    BY <1>0 DEF CreateUpdate, TypeOK, HeldRowsExist, HandlersHaveKeys, RowOrNone
  <1>2. dis \in BOOLEAN /\ del \in BOOLEAN /\ (dis => db[k].disabled)
    BY <1>1, RowFields DEF Column
  <1>3. /\ StoreRow(k, row, 0) /\ tracked' = [tracked EXCEPT ![c][k] = Activating(@, FALSE, FALSE)]
        /\ Done(c)
        /\ UNCHANGED <<pve, syncVars, purged>>
    BY DEF CreateUpdate
  <1> HIDE DEF dis, del
  <1>4. row \in Row /\ row.at = db[k].at /\ row.disabled = dis
    <2> HIDE DEF k, e
    <2> QED BY <1>1, <1>2, ActivatingFacts
  <1> HIDE DEF row
  <1>5. Activating(e, FALSE, FALSE) \in Row /\ Activating(e, FALSE, FALSE) # None
    <2> HIDE DEF k, e
    <2> QED BY <1>1, ActivatingFacts
  <1>6. /\ db' \in [Keys -> RowOrNone] /\ since' \in [Keys -> Stamp]
        /\ SinceIsSpell' /\ StampIsFresh'
        /\ \A j \in Keys : db[j] # None => db'[j] # None
    <2> HIDE DEF k, e
    <2>1. row.disabled => db[k] # None /\ db[k].disabled /\ row.at = db[k].at
      BY <1>1, <1>2, <1>4
    <2> QED BY <1>1, <1>3, <1>4, <2>1, SaveInv
  <1>7. /\ tracked' \in [Circuits -> [Keys -> RowOrNone]]
        /\ \A d \in Circuits, j \in Keys : tracked'[d][j] # None <=> tracked[d][j] # None
    BY <1>0, <1>1, <1>3, <1>5 DEF TypeOK, RowOrNone
  <1>8. HandlersHaveKeys' /\ op' \in [Circuits -> OpState] /\ late' \subseteq late
    BY <1>3, <1>7, DoneKeys DEF Done
  <1>9. cause' \in [Keys -> CauseKinds] /\ renewed' \subseteq Keys
    <2>1. cause' \in {cause, [cause EXCEPT ![k] = "none"]} /\ renewed' \in {renewed, renewed \cup {k}}
      BY DEF CreateUpdate
    <2> HIDE DEF k
    <2> QED BY <1>0, <1>1, <2>1 DEF TypeOK, CauseKinds
  <1>10. TypeOK'
    BY <1>0, <1>3, <1>6, <1>7, <1>8, <1>9 DEF syncVars, TypeOK
  <1>11. HeldRowsExist'
    BY <1>0, <1>3, <1>6, <1>7 DEF syncVars, HeldRowsExist
  <1> QED BY <1>6, <1>8, <1>10, <1>11 DEF IInv

\* The saves that insert a row.
LEMMA InsertInv ==
    ASSUME IInv, NEW c \in Circuits, CreateInsert(c) \/ ImportInsert(c)
    PROVE  IInv'
  <1> USE NoneIsNothing
  <1>0. TypeOK /\ SinceIsSpell /\ StampIsFresh /\ HeldRowsExist /\ HandlersHaveKeys
    BY DEF IInv
  <1> DEFINE k == op[c].key
  <1>1. k \in Keys
    BY <1>0 DEF CreateInsert, ImportInsert, HandlersHaveKeys
  <1>2. late' = late \ {c} /\ UNCHANGED <<pve, syncVars, purged, renewed>>
    BY DEF CreateInsert, ImportInsert, Done, Refused
  <1>c. cause' \in [Keys -> CauseKinds]
    <2>1. cause' \in {cause, [cause EXCEPT ![k] = Because(k, "imported")]}
      BY DEF CreateInsert, ImportInsert
    <2>2. Because(k, "imported") \in CauseKinds
      BY DEF Because, CauseKinds
    <2> HIDE DEF k
    <2> QED BY <1>0, <1>1, <2>1, <2>2 DEF TypeOK
  <1>3. CASE db[k] # None
    <2>1. UNCHANGED <<db, since, tracked>> /\ op' = [op EXCEPT ![c].pc = "stuck"]
      BY <1>3 DEF CreateInsert, ImportInsert, Refused
    <2>2. TypeOK' /\ HandlersHaveKeys'
      <3>0. op \in [Circuits -> OpState] /\ op[c] \in OpState
        BY <1>0 DEF TypeOK
      <3>a. [op[c] EXCEPT !.pc = "stuck"] \in OpState
        BY <3>0 DEF OpState
      <3>1. op \in [Circuits -> OpState] /\ op' \in [Circuits -> OpState]
        BY <2>1, <3>0, <3>a
      <3>2. \A d \in Circuits : op'[d] = op[d] \/ (op'[d].key = op[d].key /\ op'[d].pc = "stuck" /\ d = c)
        BY <2>1, <3>1 DEF OpState
      <3>3. HandlersHaveKeys'
        BY <1>0, <1>1, <2>1, <3>2 DEF HandlersHaveKeys
      <3> QED BY <1>0, <1>2, <1>c, <2>1, <3>1, <3>3 DEF TypeOK, syncVars
    <2>3. (SinceIsSpell /\ StampIsFresh /\ HeldRowsExist)'
      BY <1>0, <1>2, <2>1 DEF SinceIsSpell, StampIsFresh, HeldRowsExist, syncVars
    <2> QED BY <2>2, <2>3 DEF IInv
  <1>4. CASE db[k] = None
    <2>0. \A at \in {0, 1} : /\ NewRow(TRUE, at) \in Row /\ NewRow(TRUE, at).at = at
                           /\ NewRow(FALSE, None) \in Row /\ ~NewRow(FALSE, None).disabled
      <3>1. {None, 0, 1} \subseteq Stamp
        BY DEF Stamp, Ages
      <3> QED BY <3>1 DEF NewRow, Row
    <2>1. PICK at \in {0, 1}, row \in Row :
             /\ row = NewRow(FALSE, None) \/ row = NewRow(TRUE, at)
             /\ StoreRow(k, row, at) /\ op' = [op EXCEPT ![c] = Idle]
             /\ \/ tracked' = [tracked EXCEPT ![c][k] = row]
                \/ tracked' = [tracked EXCEPT ![c] =
                                 [j \in Keys |-> IF j = k THEN row ELSE Query(c, j)]]
      <3>1. CASE CreateInsert(c)
        BY <1>4, <2>0, <3>1 DEF CreateInsert, Done
      <3>2. CASE ImportInsert(c)
        <4>1. PICK at \in {0, Waited(c)} :
                /\ StoreRow(k, NewRow(TRUE, at), at)
                /\ \/ tracked' = [tracked EXCEPT ![c] =
                                    [j \in Keys |-> IF j = k THEN NewRow(TRUE, at) ELSE Query(c, j)]]
                   \/ tracked' = [tracked EXCEPT ![c][k] = NewRow(TRUE, at)]
          BY <1>4, <3>2 DEF ImportInsert
        <4>2. at \in {0, 1}
          BY <4>1 DEF Waited
        <4>3. op' = [op EXCEPT ![c] = Idle]
          BY <1>4, <3>2 DEF ImportInsert, Done
        <4> QED BY <2>0, <4>1, <4>2, <4>3
      <3> QED BY <3>1, <3>2
    <2>2. row # None /\ (row.disabled => row.at = at)
      BY <2>0, <2>1
    <2>5. /\ db' \in [Keys -> RowOrNone] /\ since' \in [Keys -> Stamp]
          /\ SinceIsSpell' /\ StampIsFresh'
          /\ \A j \in Keys : db[j] # None => db'[j] # None
          /\ db'[k] # None
      <3> HIDE DEF k
      <3> QED BY <1>1, <2>1, <2>2, SaveInv
    <2>7. /\ tracked' \in [Circuits -> [Keys -> RowOrNone]]
          /\ \A d \in Circuits, j \in Keys :
                /\ tracked'[d][j] # None => j = k \/ db[j] # None
                /\ tracked[d][j] # None => tracked'[d][j] # None
      <3>1. \A j \in Keys : /\ Query(c, j) \in RowOrNone
                            /\ Query(c, j) # None => db[j] # None
                            /\ db[j] # None => Query(c, j) # None
        BY QueryFacts
      <3>2. CASE tracked' = [tracked EXCEPT ![c][k] = row]
        BY <1>0, <1>1, <2>2, <3>2 DEF TypeOK, RowOrNone, HeldRowsExist
      <3>3. CASE tracked' = [tracked EXCEPT ![c] =
                                [j \in Keys |-> IF j = k THEN row ELSE Query(c, j)]]
        BY <1>0, <1>1, <2>2, <3>1, <3>3 DEF TypeOK, RowOrNone, HeldRowsExist
      <3> QED BY <2>1, <3>2, <3>3
    <2>8. HeldRowsExist'
      BY <1>0, <1>2, <2>5, <2>7 DEF HeldRowsExist, syncVars
    <2>9. TypeOK' /\ HandlersHaveKeys'
      <3>1. HandlersHaveKeys' /\ op' \in [Circuits -> OpState]
        BY <2>1, <2>7, DoneKeys
      <3> QED BY <1>0, <1>2, <1>c, <2>5, <2>7, <3>1 DEF TypeOK, syncVars
    <2> QED BY <2>5, <2>8, <2>9 DEF IInv
  <1> QED BY <1>3, <1>4

\* The page steps that save nothing.
LEMMA QuietPageInv ==
    ASSUME IInv, NEW c \in Circuits, NEW k,
           \/ k \in Keys /\ (View(c, k) \/ CreateClone(c, k) \/ ImportShow(c, k))
           \/ CreateLookup(c) \/ ImportCheck(c) \/ HandlerFails(c) \/ CloseCircuit(c)
    PROVE  IInv'
  <1> USE NoneIsNothing
  <1>0. TypeOK /\ SinceIsSpell /\ StampIsFresh /\ HeldRowsExist /\ HandlersHaveKeys
    BY DEF IInv
  <1>a. /\ tracked \in [Circuits -> [Keys -> RowOrNone]] /\ op \in [Circuits -> OpState]
        /\ db \in [Keys -> RowOrNone]
    BY <1>0 DEF TypeOK
  <1>b. \A j \in Keys : /\ Query(c, j) \in RowOrNone
                        /\ Query(c, j) # None => db[j] # None
                        /\ db[j] # None => Query(c, j) # None
    BY QueryFacts
  <1>1. /\ UNCHANGED <<db, since, syncVars>>
        /\ late' \in {late, late \ {c}}
        /\ pve' \in [Keys -> {"none", "here", "running", "away"}]
        /\ cause' \in [Keys -> CauseKinds] /\ purged' \subseteq Keys /\ renewed' = renewed
    BY <1>0 DEF View, CreateClone, ImportShow, CreateLookup, ImportCheck, HandlerFails,
                CloseCircuit, Busy, Done, Appears, CauseKinds, TypeOK
  <1>2. /\ tracked' \in [Circuits -> [Keys -> RowOrNone]]
        /\ \A d \in Circuits, j \in Keys : tracked'[d][j] # None => db[j] # None
        /\ \A d \in Circuits \ {c} : tracked'[d] = tracked[d]
    <2>1. CASE k \in Keys /\ View(c, k)
      BY <1>0, <1>a, <2>1 DEF View, HeldRowsExist
    <2>2. CASE k \in Keys /\ ImportShow(c, k)
      BY <1>0, <1>a, <1>b, <2>2 DEF ImportShow, HeldRowsExist
    <2>3. CASE CreateLookup(c)
      <3>1. op[c].key \in Keys
        BY <1>0, <2>3 DEF CreateLookup, HandlersHaveKeys
      <3> QED BY <1>0, <1>a, <1>b, <2>3, <3>1 DEF CreateLookup, HeldRowsExist, RowOrNone
    <2>4. CASE CloseCircuit(c)
      BY <1>0, <1>a, <2>4 DEF CloseCircuit, HeldRowsExist, RowOrNone
    <2>5. CASE (k \in Keys /\ CreateClone(c, k)) \/ ImportCheck(c) \/ HandlerFails(c)
      BY <1>0, <1>a, <2>5 DEF CreateClone, ImportCheck, HandlerFails, HeldRowsExist
    <2> QED BY <2>1, <2>2, <2>3, <2>4, <2>5
  <1>3. HandlersHaveKeys' /\ op' \in [Circuits -> OpState]
    <2>1. CASE op' = [op EXCEPT ![c] = Idle]
      BY <1>2, <2>1, DoneKeys
    <2>2. CASE CreateLookup(c)
      <3>1. op[c].key \in Keys
        BY <1>0, <2>2 DEF CreateLookup, HandlersHaveKeys
      <3>2. PICK pc \in {"insert", "update"} :
              /\ op' = [op EXCEPT ![c] = [pc |-> pc, key |-> op[c].key]]
              /\ pc = "update" => db[op[c].key] # None
        BY <2>2 DEF CreateLookup, Busy
      <3>3. op' \in [Circuits -> OpState]
        BY <1>a, <3>1, <3>2 DEF OpState
      <3>4. db[op[c].key] # None => tracked'[c][op[c].key] # None
        BY <1>a, <1>b, <2>2, <3>1 DEF CreateLookup
      <3>5. HandlersHaveKeys'
        <4> SUFFICES ASSUME NEW d \in Circuits, op'[d].pc # "idle"
                     PROVE  /\ op'[d].key \in Keys
                            /\ op'[d].pc \in {"update", "unsaved"} => tracked'[d][op'[d].key] # None
          BY DEF HandlersHaveKeys
        <4>1. CASE d = c
          BY <1>a, <3>1, <3>2, <3>4, <4>1
        <4>2. CASE d # c
          BY <1>0, <1>a, <1>2, <3>2, <4>2 DEF HandlersHaveKeys
        <4> QED BY <4>1, <4>2
      <3> QED BY <3>3, <3>5
    <2>3. CASE \/ op' = op /\ \A d \in Circuits, j \in Keys : tracked[d][j] # None => tracked'[d][j] # None
               \/ /\ tracked' = tracked \/ \A d \in Circuits, j \in Keys : tracked[d][j] # None => tracked'[d][j] # None
                  /\ \E pc \in {"cloned", "shown", "importing"}, j \in Keys :
                       op' = [op EXCEPT ![c] = [pc |-> pc, key |-> j]]
      <3>1. op' \in [Circuits -> OpState]
        <4>1. CASE op' = op
          BY <1>a, <4>1
        <4>2. CASE op' # op
          <5>1. PICK pc \in {"cloned", "shown", "importing"}, j \in Keys :
                  op' = [op EXCEPT ![c] = [pc |-> pc, key |-> j]]
            BY <2>3, <4>2
          <5>2. [pc |-> pc, key |-> j] \in OpState
            BY DEF OpState
          <5> QED BY <1>a, <5>1, <5>2
        <4> QED BY <4>1, <4>2
      <3>2. HandlersHaveKeys'
        <4> SUFFICES ASSUME NEW d \in Circuits, op'[d].pc # "idle"
                     PROVE  /\ op'[d].key \in Keys
                            /\ op'[d].pc \in {"update", "unsaved"} => tracked'[d][op'[d].key] # None
          BY DEF HandlersHaveKeys
        <4>0. op[d].pc # "idle" => /\ op[d].key \in Keys
                                   /\ op[d].pc \in {"update", "unsaved"} => tracked[d][op[d].key] # None
          BY <1>0 DEF HandlersHaveKeys
        <4>1. CASE op' = op
          BY <2>3, <4>0, <4>1
        <4>2. CASE op' # op
          <5>1. PICK pc \in {"cloned", "shown", "importing"}, j \in Keys :
                  op' = [op EXCEPT ![c] = [pc |-> pc, key |-> j]]
            BY <2>3, <4>2
          <5>2. \A e \in Circuits, j2 \in Keys : tracked[e][j2] # None => tracked'[e][j2] # None
            BY <2>3
          <5>3. op'[d] = IF d = c THEN [pc |-> pc, key |-> j] ELSE op[d]
            BY <1>a, <5>1
          <5>4. CASE d = c
            BY <5>3, <5>4
          <5>5. CASE d # c
            BY <4>0, <5>2, <5>3, <5>5
          <5> QED BY <5>4, <5>5
        <4> QED BY <4>1, <4>2
      <3> QED BY <3>1, <3>2
    <2>4. CASE k \in Keys /\ (View(c, k) \/ CreateClone(c, k))
      BY <1>0, <1>a, <2>3, <2>4 DEF View, CreateClone, Busy
    <2>5. CASE k \in Keys /\ ImportShow(c, k)
      BY <1>0, <1>a, <1>b, <2>3, <2>5 DEF ImportShow, Busy, HeldRowsExist
    <2>6. CASE ImportCheck(c) \/ HandlerFails(c) \/ CloseCircuit(c)
      <3>1. op[c].pc = "shown" => op[c].key \in Keys
        BY <1>0 DEF HandlersHaveKeys
      <3> QED BY <2>1, <2>3, <2>6, <3>1 DEF ImportCheck, HandlerFails, CloseCircuit, Busy, Done
    <2> QED BY <2>2, <2>4, <2>5, <2>6
  <1>4. TypeOK'
    BY <1>0, <1>1, <1>2, <1>3 DEF TypeOK, syncVars
  <1>5. HeldRowsExist'
    BY <1>0, <1>1, <1>2 DEF HeldRowsExist, syncVars
  <1>6. SinceIsSpell' /\ StampIsFresh'
    BY <1>0, <1>1 DEF SinceIsSpell, StampIsFresh
  <1> QED BY <1>3, <1>4, <1>5, <1>6 DEF IInv

\* Proxmox without the portal, time and restarts.
LEMMA EnvironmentInv ==
    ASSUME IInv, EnvironmentStep
    PROVE  IInv'
  <1> USE NoneIsNothing
  <1>0. TypeOK /\ SinceIsSpell /\ StampIsFresh /\ HeldRowsExist /\ HandlersHaveKeys
    BY DEF IInv
  <1>1. ASSUME NEW k \in Keys, \/ ForeignCreate(k) \/ ForeignRemove(k) \/ PowerOn(k) \/ PowerOff(k)
                             \/ Leave(k) \/ Return(k)
        PROVE  IInv'
    <2>1. /\ UNCHANGED <<db, tracked, op, syncVars, late, since>>
          /\ pve' \in [Keys -> {"none", "here", "running", "away"}]
          /\ cause' \in [Keys -> CauseKinds] /\ purged' \subseteq Keys /\ renewed' = renewed
      BY <1>0, <1>1 DEF ForeignCreate, ForeignRemove, PowerOn, PowerOff, Leave, Return, Unaware,
                        Appears, CauseKinds, TypeOK
    <2>2. TypeOK'
      BY <1>0, <2>1 DEF TypeOK, syncVars
    <2>3. (SinceIsSpell /\ StampIsFresh /\ HeldRowsExist /\ HandlersHaveKeys)'
      BY <1>0, <2>1 DEF SinceIsSpell, StampIsFresh, HeldRowsExist, HandlersHaveKeys, syncVars
    <2> QED BY <2>2, <2>3 DEF IInv
  <1>2. CASE Tick
    <2>1. \A k \in Keys : /\ db[k] \in RowOrNone /\ seen[k] \in RowOrNone /\ since[k] \in Stamp
                          /\ \A c \in Circuits : tracked[c][k] \in RowOrNone
      BY <1>0 DEF TypeOK
    <2>2. /\ db' = [k \in Keys |-> AgeRow(db[k])]
          /\ seen' = [k \in Keys |-> AgeRow(seen[k])]
          /\ tracked' = [c \in Circuits |-> [k \in Keys |-> AgeRow(tracked[c][k])]]
          /\ since' = [k \in Keys |-> Older(since[k])]
          /\ late' = InFlight
          /\ UNCHANGED <<pve, op, phase, listed, todo, marked, cause, purged, renewed>>
      BY <1>2 DEF Tick
    <2>3. TypeOK'
      <3>1. /\ db' \in [Keys -> RowOrNone] /\ seen' \in [Keys -> RowOrNone]
            /\ tracked' \in [Circuits -> [Keys -> RowOrNone]]
        BY <2>1, <2>2, AgeRowFacts
      <3>2. since' \in [Keys -> Stamp]
        BY <2>1, <2>2, OlderFacts
      <3>3. late' \subseteq Circuits \cup {"sync"}
        BY <2>2 DEF InFlight
      <3> QED BY <1>0, <2>2, <3>1, <3>2, <3>3 DEF TypeOK
    <2>4. SinceIsSpell'
      <3> SUFFICES ASSUME NEW k \in Keys
                   PROVE  since'[k] # None <=> (db'[k] # None /\ db'[k].disabled)
        BY DEF SinceIsSpell
      <3>1. since'[k] # None <=> since[k] # None
        BY <2>1, <2>2, OlderFacts
      <3>2. /\ db'[k] # None <=> db[k] # None
            /\ db[k] # None => db'[k].disabled = db[k].disabled
        BY <2>1, <2>2, AgeRowFacts
      <3> QED BY <1>0, <3>1, <3>2 DEF SinceIsSpell
    <2>5. StampIsFresh'
      <3> SUFFICES ASSUME NEW k \in Keys, since'[k] # None
                   PROVE  db'[k].at # None /\ db'[k].at <= since'[k]
        BY DEF StampIsFresh
      <3>1. since[k] # None /\ since[k] \in Stamp /\ since'[k] = Older(since[k])
        BY <2>1, <2>2, OlderFacts
      <3>2. db[k] \in Row
        BY <1>0, <2>1, <3>1 DEF SinceIsSpell, RowOrNone
      <3>3. /\ db[k].at # None /\ db[k].at <= since[k] /\ db[k].at \in Stamp
        BY <1>0, <3>1, <3>2, RowFields DEF StampIsFresh
      <3>4. db'[k].at = Older(db[k].at)
        BY <2>1, <2>2, <3>2, AgeRowFacts, RowFields
      <3> QED BY <3>1, <3>3, <3>4, OlderFacts DEF Stamp
    <2>6. HeldRowsExist'
      <3>1. \A k \in Keys :
              /\ db'[k] # None <=> db[k] # None
              /\ seen'[k] # None <=> seen[k] # None
              /\ \A c \in Circuits : tracked'[c][k] # None <=> tracked[c][k] # None
        BY <2>1, <2>2, AgeRowFacts
      <3> QED BY <1>0, <2>2, <3>1 DEF HeldRowsExist
    <2>7. HandlersHaveKeys'
      <3>1. \A c \in Circuits, k \in Keys : tracked'[c][k] # None <=> tracked[c][k] # None
        BY <2>1, <2>2, AgeRowFacts
      <3> QED BY <1>0, <2>2, <3>1 DEF HandlersHaveKeys
    <2> QED BY <2>3, <2>4, <2>5, <2>6, <2>7 DEF IInv
  <1>3. CASE Crash
    <2>1. TypeOK'
      BY <1>0, <1>3 DEF Crash, TypeOK, RowOrNone, OpState, Idle
    <2>2. (SinceIsSpell /\ StampIsFresh /\ HeldRowsExist /\ HandlersHaveKeys)'
      BY <1>0, <1>3 DEF Crash, SinceIsSpell, StampIsFresh, HeldRowsExist, HandlersHaveKeys, Idle
    <2> QED BY <2>1, <2>2 DEF IInv
  <1> QED BY <1>1, <1>2, <1>3 DEF EnvironmentStep

\* Every step keeps the invariant.
LEMMA NextInv == IInv /\ [Next]_vars => IInv'
  <1> SUFFICES ASSUME IInv, [Next]_vars PROVE IInv'
    OBVIOUS
  <1>1. CASE SyncStep
    BY <1>1, SyncInv
  <1>2. ASSUME NEW c \in Circuits, PageStep(c) PROVE IInv'
    <2>1. ASSUME NEW k \in Keys, \/ View(c, k) \/ CreateClone(c, k) \/ ImportShow(c, k)
          PROVE  IInv'
      BY <2>1, QuietPageInv
    <2>2. ASSUME NEW k \in Keys, UserDelete(c, k) \/ AdminDelete(c, k)
          PROVE  IInv'
      <3>1. tracked[c][k] # None /\ Disable(c, k)
        BY <2>2 DEF UserDelete, AdminDelete
      <3> QED BY <3>1, DisableInv
    <2>3. CASE CreateUpdate(c) \/ LaterSave(c)
      BY <2>3, CreateUpdateInv, LaterSaveInv
    <2>4. CASE CreateInsert(c) \/ ImportInsert(c)
      BY <2>4, InsertInv
    <2>5. CASE CreateLookup(c) \/ ImportCheck(c) \/ HandlerFails(c) \/ CloseCircuit(c)
      BY <2>5, QuietPageInv
    <2> QED BY <1>2, <2>1, <2>2, <2>3, <2>4, <2>5 DEF PageStep
  <1>3. CASE EnvironmentStep
    BY <1>3, EnvironmentInv
  <1>4. CASE UNCHANGED vars
    <2>1. TypeOK'
      BY <1>4 DEF IInv, TypeOK, vars, syncVars
    <2>2. (SinceIsSpell /\ StampIsFresh /\ HeldRowsExist /\ HandlersHaveKeys)'
      BY <1>4 DEF IInv, SinceIsSpell, StampIsFresh, HeldRowsExist, HandlersHaveKeys, vars, syncVars
    <2> QED BY <2>1, <2>2 DEF IInv
  <1> QED BY <1>1, <1>2, <1>3, <1>4 DEF Next

\* The invariant holds throughout.
LEMMA Invariance == Spec => []IInv
  <1>1. Init => IInv
    BY InitInv
  <1>2. IInv /\ [Next]_vars => IInv'
    BY NextInv
  <1> QED BY <1>1, <1>2, PTL DEF Spec

\* Every variable keeps its type.
THEOREM TypeCorrect == Spec => []TypeOK
  <1>1. IInv => TypeOK
    BY DEF IInv
  <1> QED BY <1>1, Invariance, PTL

\* The stamp of a disabled row is never older than its spell as disabled,
\* under every fault and for every grace period.
THEOREM StampsAreFresh == Spec => []StampIsFresh
  <1>1. IInv => StampIsFresh
    BY DEF IInv
  <1> QED BY <1>1, Invariance, PTL

----------------------------------------------------------------------------
(***************************************************************************)
(* What the sync decided on rows it read earlier still holds of the rows   *)
(* as they are stored now, unless a create handler reactivated one.        *)
(***************************************************************************)

\* The iteration's copy of a disabled row is no older than the row's spell.
CopyIsYounger ==
    \A k \in Keys : seen[k] # None /\ seen[k].disabled /\ k \notin renewed =>
        since[k] # None /\ seen[k].at # None /\ seen[k].at <= since[k]

\* The iteration deletes and marks what its copies say is past the grace period.
DecidedOnCopies ==
    \A k \in todo \cup marked : seen[k] # None /\ seen[k].disabled /\ PastGrace(seen[k].at)

\* There is a reason for every VM that its row disables.
DisabledHasCause ==
    \A k \in Keys : db[k] # None /\ db[k].disabled /\ pve[k] # "none" => cause[k] # "none"

DInv == CopyIsYounger /\ DecidedOnCopies /\ DisabledHasCause

Life(k) == IF db[k] = None THEN "none"
           ELSE IF db[k].deleted THEN "deleted"
           ELSE IF db[k].disabled THEN "scheduled" ELSE "active"

\* What one save may do to one record.
KeyStep(k) ==
    \/ Life(k)' = Life(k) /\ since'[k] = since[k]
    \/ /\ Life(k) = "none"
       /\ \/ Life(k)' = "active" /\ since'[k] = None
          \/ Life(k)' = "scheduled" /\ since'[k] \in {0, 1}
    \/ /\ Life(k) # "none"
       /\ Life(k)' = IF Life(k) = "deleted" THEN "deleted" ELSE "scheduled"
       /\ since'[k] \in {0, 1} /\ (since[k] = None \/ since[k] <= since'[k])
    \/ Life(k) # "none" /\ Life(k)' = "active" /\ since'[k] = None
    \/ /\ Life(k) = "deleted"
       /\ \/ Life(k)' = "deleted" /\ since'[k] = None
          \/ since[k] # None /\ Life(k)' = "scheduled" /\ since'[k] = since[k]
    \/ /\ (Life(k) = "scheduled" /\ since[k] # None /\ since[k] > Grace) \/ k \in renewed
       /\ Life(k)' = "deleted" /\ since'[k] = since[k]

\* A spell goes on, or its end is known to the iteration.
SpellGoesOn(k) ==
    since[k] # None => \/ since'[k] # None /\ since[k] <= since'[k]
                       \/ k \in renewed' \/ phase = "idle"

\* What a step may do, beside ticking: it moves each record as KeyStep allows,
\* removes only VMs the iteration had to delete, and notes reactivations.
Moves ==
    /\ \A k \in Keys : KeyStep(k)
    /\ \A k \in purged' \ purged : k \in todo /\ pve[k] # "none"
    /\ \A k \in renewed' \ renewed : since[k] # None /\ since'[k] = None

\* The history of the spells is a stamp, and no stamp without a disabled row.
LEMMA SinceFacts ==
    ASSUME IInv, NEW k \in Keys
    PROVE  /\ since[k] = None \/ since[k] \in 0 .. (Grace + 1)
           /\ since[k] # None <=> (db[k] # None /\ db[k].disabled)
           /\ db[k] \in RowOrNone
           /\ since \in [Keys -> Stamp] /\ db \in [Keys -> RowOrNone]
  BY DEF IInv, TypeOK, SinceIsSpell, Stamp, Ages

\* A decision to delete is about a row past its grace period, or reactivated.
LEMMA DecidedIsLapsed ==
    ASSUME IInv, CopyIsYounger, NEW k \in Keys,
           seen[k] # None, seen[k].disabled, PastGrace(seen[k].at), k \notin renewed
    PROVE  since[k] # None /\ since[k] > Grace /\ db[k].disabled
  <1>1. since[k] # None /\ seen[k].at <= since[k] /\ seen[k].at = Grace + 1
    BY DEF CopyIsYounger, PastGrace
  <1>2. since[k] \in 0 .. (Grace + 1) /\ db[k].disabled
    BY <1>1, SinceFacts
  <1> QED BY <1>1, <1>2, NoneIsNothing

\* The ways a save changes one row, and what each does to its life.
LEMMA RowStays ==
    ASSUME IInv, NEW k \in Keys, db'[k] = db[k], since'[k] = since[k]
    PROVE  KeyStep(k) /\ SpellGoesOn(k)
  <1>1. since[k] = None \/ since[k] \in 0 .. (Grace + 1)
    BY SinceFacts
  <1> QED BY <1>1, NoneIsNothing DEF KeyStep, Life, SpellGoesOn

LEMMA RowDisabled ==
    ASSUME IInv, NEW k \in Keys, NEW at \in {0, 1}, db[k] \in Row, db'[k] \in Row,
           db'[k].deleted = db[k].deleted, db'[k].disabled \in {TRUE, db[k].disabled},
           since'[k] # None <=> db'[k].disabled,
           since'[k] # None => since'[k] = IF since[k] = None THEN at
                                           ELSE IF since[k] < at THEN at ELSE since[k]
    PROVE  KeyStep(k) /\ SpellGoesOn(k)
  <1> USE NoneIsNothing
  <1>1. /\ since[k] = None \/ since[k] \in 0 .. (Grace + 1)
        /\ since[k] # None <=> db[k].disabled
        /\ at # None
    BY SinceFacts DEF Ages
  <1>2. /\ Life(k) = IF db[k].deleted THEN "deleted" ELSE IF db[k].disabled THEN "scheduled" ELSE "active"
        /\ Life(k)' = IF db[k].deleted THEN "deleted" ELSE IF db'[k].disabled THEN "scheduled" ELSE "active"
    BY DEF Life
  <1>3. CASE ~db'[k].disabled
    <2>1. ~db[k].disabled /\ since[k] = None /\ since'[k] = None
      BY <1>1, <1>3
    <2> QED BY <1>2, <1>3, <2>1 DEF KeyStep, SpellGoesOn
  <1>4. CASE db'[k].disabled
    <2>1. CASE since[k] = None \/ since[k] < at
      <3>1. since'[k] = at
        BY <1>4, <2>1
      <3>2. since[k] = None \/ since[k] <= since'[k]
        BY <1>1, <2>1, <3>1
      <3>3. since'[k] \in {0, 1} /\ since'[k] # None
        BY <1>1, <3>1
      <3>4. Life(k) # "none" /\ Life(k)' = IF Life(k) = "deleted" THEN "deleted" ELSE "scheduled"
        BY <1>2, <1>4
      <3> HIDE DEF Life
      <3> QED BY <3>2, <3>3, <3>4 DEF KeyStep, SpellGoesOn
    <2>2. CASE since[k] # None /\ ~(since[k] < at)
      <3>1. since'[k] = since[k] /\ Life(k)' = Life(k)
        BY <1>1, <1>2, <1>4, <2>2
      <3> QED BY <1>1, <3>1 DEF KeyStep, SpellGoesOn
    <2> QED BY <2>1, <2>2
  <1> QED BY <1>3, <1>4, RowFields

LEMMA RowDeleted ==
    ASSUME IInv, NEW k \in Keys, db[k] \in Row, db'[k] \in Row,
           db'[k].deleted, db'[k].disabled = db[k].disabled, since'[k] = since[k],
           k \in renewed \/ (since[k] # None /\ since[k] > Grace)
    PROVE  KeyStep(k) /\ SpellGoesOn(k)
  <1> USE NoneIsNothing
  <1>1. /\ since[k] = None \/ since[k] \in 0 .. (Grace + 1)
        /\ since[k] # None <=> db[k].disabled
    BY SinceFacts
  <1>2. Life(k)' = "deleted" /\ (db[k].disabled => Life(k) \in {"deleted", "scheduled"})
    BY DEF Life
  <1> QED BY <1>1, <1>2 DEF KeyStep, SpellGoesOn

LEMMA RowActivated ==
    ASSUME IInv, NEW k \in Keys, db[k] \in Row, db'[k] \in Row,
           db'[k].deleted \in {FALSE, db[k].deleted}, db'[k].disabled \in {FALSE, db[k].disabled},
           since'[k] # None <=> db'[k].disabled,
           since'[k] # None => since'[k] = IF since[k] = None THEN 0
                                           ELSE IF since[k] < 0 THEN 0 ELSE since[k]
    PROVE  KeyStep(k) /\ (db'[k].disabled = db[k].disabled => since'[k] = since[k])
  <1> USE NoneIsNothing
  <1>1. /\ since[k] = None \/ since[k] \in 0 .. (Grace + 1)
        /\ since[k] # None <=> db[k].disabled
    BY SinceFacts
  <1>2. /\ Life(k) = IF db[k].deleted THEN "deleted" ELSE IF db[k].disabled THEN "scheduled" ELSE "active"
        /\ Life(k)' = IF db'[k].deleted THEN "deleted" ELSE IF db'[k].disabled THEN "scheduled" ELSE "active"
    BY DEF Life
  <1>3. db[k].deleted \in BOOLEAN /\ db[k].disabled \in BOOLEAN
    BY RowFields
  <1>4. CASE db'[k].disabled
    <2>a. db[k].disabled
      BY <1>3, <1>4
    <2>b. since[k] # None /\ since'[k] # None /\ since[k] \in 0 .. (Grace + 1)
      BY <1>1, <1>4, <2>a
    <2>1. db[k].disabled /\ since'[k] = since[k] /\ since[k] # None
      <3>1. ~(since[k] < 0)
        BY <2>b
      <3> QED BY <2>a, <2>b, <3>1
    <2>2. CASE db'[k].deleted = db[k].deleted
      BY <1>2, <1>4, <2>1, <2>2 DEF KeyStep
    <2>3. CASE ~db'[k].deleted /\ db[k].deleted
      BY <1>2, <1>4, <2>1, <2>3 DEF KeyStep
    <2> QED BY <1>3, <2>1, <2>2, <2>3
  <1>5. CASE ~db'[k].disabled
    <2>1. since'[k] = None
      BY <1>5
    <2>2. CASE db'[k].deleted
      <3>1. Life(k) = "deleted" /\ Life(k)' = "deleted"
        BY <1>2, <1>3, <2>2
      <3> QED BY <1>1, <1>5, <2>1, <3>1 DEF KeyStep
    <2>3. CASE ~db'[k].deleted
      <3>1. Life(k) # "none" /\ Life(k)' = "active"
        BY <1>2, <1>5, <2>3
      <3> QED BY <1>1, <1>5, <2>1, <3>1 DEF KeyStep
    <2> QED BY <2>2, <2>3
  <1>6. db'[k].disabled \in BOOLEAN
    BY RowFields
  <1> QED BY <1>4, <1>5, <1>6

\* The copies stay younger than the rows as long as no new one is read.
LEMMA CopiesStay ==
    ASSUME IInv, IInv', DInv,
           \A k \in Keys : seen'[k] # None =>
               seen'[k] = seen[k] /\ (k \in renewed => k \in renewed') /\ SpellGoesOn(k)
    PROVE  CopyIsYounger'
  <1> SUFFICES ASSUME NEW k \in Keys, seen'[k] # None, seen'[k].disabled, k \notin renewed'
               PROVE  since'[k] # None /\ seen'[k].at # None /\ seen'[k].at <= since'[k]
    BY DEF CopyIsYounger
  <1>1. seen[k] # None /\ seen[k].disabled /\ k \notin renewed /\ seen'[k].at = seen[k].at
    OBVIOUS
  <1>2. since[k] # None /\ seen[k].at # None /\ seen[k].at <= since[k]
    BY <1>1 DEF DInv, CopyIsYounger
  <1>3. seen[k].at \in Nat /\ since[k] \in Nat /\ phase # "idle"
    <2>1. seen[k] \in Row /\ phase # "idle"
      BY <1>1 DEF IInv, TypeOK, HeldRowsExist, RowOrNone
    <2> QED BY <1>2, <2>1, RowFields, SinceFacts DEF Stamp, Ages
  <1>4. since'[k] # None /\ since[k] <= since'[k]
    BY <1>2, <1>3 DEF SpellGoesOn
  <1>5. since'[k] \in Nat
    <2>1. since'[k] \in Stamp
      BY DEF IInv, TypeOK
    <2> QED BY <1>4, <2>1 DEF Stamp, Ages
  <1> QED BY <1>1, <1>2, <1>3, <1>4, <1>5

\* A step that decides nothing new, and disables no VM without a reason.
LEMMA QuietDInv ==
    ASSUME IInv, IInv', DInv,
           \A k \in Keys : seen'[k] # None =>
               seen'[k] = seen[k] /\ (k \in renewed => k \in renewed') /\ SpellGoesOn(k),
           \/ todo' \cup marked' \subseteq todo \cup marked /\ seen' = seen
           \/ todo' = {} /\ marked' = {},
           \A k \in Keys : db'[k] # None /\ db'[k].disabled /\ pve'[k] # "none" => cause'[k] # "none"
    PROVE  DInv'
  <1>1. CopyIsYounger'
    BY CopiesStay
  <1>2. DecidedOnCopies'
    BY DEF DInv, DecidedOnCopies
  <1>3. DisabledHasCause'
    BY DEF DisabledHasCause
  <1> QED BY <1>1, <1>2, <1>3 DEF DInv

\* The steps of the sync.
LEMMA SyncDInv ==
    ASSUME IInv, IInv', DInv, SyncStep
    PROVE  DInv' /\ Moves
  <1> USE NoneIsNothing
  <1>0. /\ TypeOK /\ HeldRowsExist /\ SinceIsSpell /\ StampIsFresh
        /\ CopyIsYounger /\ DecidedOnCopies /\ DisabledHasCause
    BY DEF IInv, DInv
  <1>a. ASSUME UNCHANGED <<db, since>> PROVE \A k \in Keys : KeyStep(k) /\ SpellGoesOn(k)
    BY <1>a, RowStays
  <1>b. \A k \in todo \cup marked : k \in renewed \/ (since[k] # None /\ since[k] > Grace)
    <2>1. todo \cup marked \subseteq Keys
      BY <1>0 DEF TypeOK
    <2> QED BY <1>0, <2>1, DecidedIsLapsed DEF DecidedOnCopies
  <1>1. CASE SyncRead
    <2>1. UNCHANGED <<db, since, pve, cause, todo, marked, purged, renewed>> /\ phase = "idle"
      BY <1>1 DEF SyncRead
    <2>2. CopyIsYounger'
      <3> SUFFICES ASSUME NEW k \in Keys, seen'[k] # None, seen'[k].disabled
                   PROVE  since'[k] # None /\ seen'[k].at # None /\ seen'[k].at <= since'[k]
        BY DEF CopyIsYounger
      <3>1. db[k] # None /\ seen'[k] = db[k]
        BY <1>1 DEF SyncRead
      <3>2. since[k] # None
        BY <3>1, SinceFacts
      <3> QED BY <1>0, <2>1, <3>1, <3>2 DEF StampIsFresh
    <2>3. DecidedOnCopies' /\ DisabledHasCause'
      <3>1. todo = {} /\ marked = {}
        BY <1>0, <2>1 DEF HeldRowsExist
      <3> QED BY <1>0, <2>1, <3>1 DEF DecidedOnCopies, DisabledHasCause
    <2> QED BY <1>a, <2>1, <2>2, <2>3 DEF DInv, Moves
  <1>2. CASE SyncList
    <2>1. UNCHANGED <<db, since, pve, cause, seen, purged, renewed>>
      BY <1>2 DEF SyncList
    <2>2. CopyIsYounger' /\ DisabledHasCause'
      BY <1>0, <2>1 DEF CopyIsYounger, DisabledHasCause
    <2>3. DecidedOnCopies'
      BY <1>2, <2>1 DEF SyncList, Expired, DecidedOnCopies, PastGrace
    <2> QED BY <1>a, <2>1, <2>2, <2>3 DEF DInv, Moves
  <1>3. ASSUME NEW k \in Keys, SyncDelete(k) \/ SyncDeleteRejected(k)
        PROVE  DInv' /\ Moves
    <2>1. /\ UNCHANGED <<db, since, cause, seen, renewed>>
          /\ todo' \cup marked' \subseteq todo \cup marked
      BY <1>3 DEF SyncDelete, SyncDeleteRejected
    <2>2. /\ \A j \in Keys : pve'[j] # "none" => pve[j] # "none"
          /\ \A j \in purged' \ purged : j \in todo /\ pve[j] # "none"
      BY <1>0, <1>3 DEF SyncDelete, SyncDeleteRejected, Removes, TypeOK
    <2>3. \A j \in Keys : db'[j] # None /\ db'[j].disabled /\ pve'[j] # "none" => cause'[j] # "none"
      BY <1>0, <2>1, <2>2 DEF DisabledHasCause
    <2>4. DInv'
      BY <1>a, <2>1, <2>3, QuietDInv
    <2> QED BY <1>a, <2>1, <2>2, <2>4 DEF Moves
  <1>4. CASE SyncSaveDeleted
    <2> DEFINE table == [k \in Keys |-> IF k \in marked THEN Deleting(db[k]) ELSE db[k]]
    <2>1. /\ Store(table)
          /\ UNCHANGED <<pve, cause, seen, todo, marked, purged, renewed>>
      BY <1>4 DEF SyncSaveDeleted
    <2>2. ASSUME NEW k \in Keys
          PROVE  /\ table[k] \in RowOrNone
                 /\ k \notin marked => table[k] = db[k]
                 /\ k \in marked => /\ db[k] \in Row /\ table[k] \in Row
                                    /\ table[k].deleted /\ table[k].disabled = db[k].disabled
      <3>1. CASE k \notin marked
        BY <1>0, <3>1 DEF TypeOK
      <3>2. CASE k \in marked
        <4>1. db[k] \in Row
          BY <1>0, <3>2 DEF TypeOK, HeldRowsExist, RowOrNone
        <4>2. table[k] = Deleting(db[k])
          BY <3>2
        <4> HIDE DEF table
        <4> QED BY <3>2, <4>1, <4>2, DeletingFacts DEF RowOrNone
      <3> QED BY <3>1, <3>2
    <2>3. table \in [Keys -> RowOrNone]
      BY <2>2
    <2> HIDE DEF table
    <2>4. /\ db' = table
          /\ \A k \in Keys :
               /\ since'[k] # None <=> (table[k] # None /\ table[k].disabled)
               /\ since'[k] # None => since'[k] = IF since[k] = None THEN 0 ELSE since[k]
      <3>1. since \in [Keys -> Stamp]
        BY <1>0 DEF TypeOK
      <3> QED BY <2>1, <2>3, <3>1, StoreFacts
    <2>5. ASSUME NEW k \in Keys PROVE since'[k] = since[k]
      <3>1. since[k] # None <=> (table[k] # None /\ table[k].disabled)
        BY <2>2, SinceFacts, RowFields
      <3> QED BY <2>4, <3>1
    <2>6. ASSUME NEW k \in Keys PROVE KeyStep(k) /\ SpellGoesOn(k)
      <3>1. CASE k \in marked
        BY <1>b, <2>2, <2>4, <2>5, <3>1, RowDeleted
      <3>2. CASE k \notin marked
        BY <2>2, <2>4, <2>5, <3>2, RowStays
      <3> QED BY <3>1, <3>2
    <2>7. \A k \in Keys : db'[k] # None /\ db'[k].disabled => db[k] # None /\ db[k].disabled
      BY <2>2, <2>4, RowFields
    <2>8. DInv'
      BY <1>0, <2>1, <2>6, <2>7, QuietDInv DEF DisabledHasCause
    <2> QED BY <2>1, <2>6, <2>8 DEF Moves
  <1>5. CASE SyncMissing
    <2> DEFINE table == [k \in Keys |->
                 IF Missing(k) /\ ~seen[k].disabled
                    THEN Disabling(db[k], TRUE, 0)
                 ELSE IF Missing(k) /\ k \notin marked /\ PastGrace(seen[k].at)
                    THEN Deleting(db[k])
                 ELSE db[k]]
    <2>1. /\ Store(table)
          /\ UNCHANGED <<pve, purged>> /\ todo' = {} /\ marked' = {} /\ renewed' = {}
          /\ seen' = [k \in Keys |-> None]
          /\ cause' = [k \in Keys |-> IF Missing(k) /\ ~seen[k].disabled
                                          THEN Because(k, "missed") ELSE cause[k]]
      BY <1>5 DEF SyncMissing, SyncEnds
    <2>2. ASSUME NEW k \in Keys
          PROVE  /\ table[k] \in RowOrNone
                 /\ \/ table[k] = db[k]
                    \/ /\ Missing(k) /\ ~seen[k].disabled
                       /\ db[k] \in Row /\ table[k] \in Row
                       /\ table[k].deleted = db[k].deleted /\ table[k].disabled = TRUE
                    \/ /\ db[k] \in Row /\ table[k] \in Row
                       /\ table[k].deleted /\ table[k].disabled = db[k].disabled
                       /\ k \in renewed \/ (since[k] # None /\ since[k] > Grace)
      <3>1. CASE table[k] = db[k]
        BY <1>0, <3>1 DEF TypeOK
      <3>2. CASE Missing(k)
        <4>1. db[k] \in Row /\ seen[k] # None
          BY <1>0, <3>2 DEF TypeOK, HeldRowsExist, RowOrNone, Missing
        <4>2. CASE ~seen[k].disabled
          <5>1. table[k] = Disabling(db[k], TRUE, 0)
            BY <3>2, <4>2
          <5> HIDE DEF table
          <5> QED BY <3>2, <4>1, <4>2, <5>1, DisablingFacts DEF RowOrNone
        <4>3. CASE seen[k].disabled /\ k \notin marked /\ PastGrace(seen[k].at)
          <5>1. table[k] = Deleting(db[k])
            BY <3>2, <4>3
          <5>2. k \in renewed \/ (since[k] # None /\ since[k] > Grace)
            BY <1>0, <4>1, <4>3, DecidedIsLapsed
          <5> HIDE DEF table
          <5> QED BY <4>1, <5>1, <5>2, DeletingFacts DEF RowOrNone
        <4>4. CASE seen[k].disabled /\ ~(k \notin marked /\ PastGrace(seen[k].at))
          BY <3>1, <4>4
        <4> QED BY <4>2, <4>3, <4>4
      <3>3. CASE ~Missing(k)
        BY <3>1, <3>3
      <3> QED BY <3>2, <3>3
    <2>3. table \in [Keys -> RowOrNone]
      BY <2>2
    <2> HIDE DEF table
    <2>4. /\ db' = table
          /\ \A k \in Keys :
               /\ since'[k] # None <=> (table[k] # None /\ table[k].disabled)
               /\ since'[k] # None => since'[k] = IF since[k] = None THEN 0 ELSE since[k]
      <3>1. since \in [Keys -> Stamp]
        BY <1>0 DEF TypeOK
      <3> QED BY <2>1, <2>3, <3>1, StoreFacts
    <2>5. ASSUME NEW k \in Keys PROVE KeyStep(k)
      <3>0. /\ since[k] = None \/ since[k] \in 0 .. (Grace + 1)
            /\ since[k] # None <=> (db[k] # None /\ db[k].disabled)
        BY SinceFacts
      <3>1. CASE table[k] = db[k]
        <4>1. since'[k] = since[k]
          BY <2>4, <3>0, <3>1
        <4> QED BY <2>4, <3>1, <4>1, RowStays
      <3>2. CASE /\ db[k] \in Row /\ table[k] \in Row
                 /\ table[k].deleted = db[k].deleted /\ table[k].disabled = TRUE
        <4>1. since'[k] # None => since'[k] = IF since[k] = None THEN 0
                                              ELSE IF since[k] < 0 THEN 0 ELSE since[k]
          BY <2>4, <3>0
        <4>2. since'[k] # None <=> table[k].disabled
          BY <2>4, <3>2
        <4> QED BY <2>4, <3>2, <4>1, <4>2, RowDisabled
      <3>3. CASE /\ db[k] \in Row /\ table[k] \in Row
                 /\ table[k].deleted /\ table[k].disabled = db[k].disabled
                 /\ k \in renewed \/ (since[k] # None /\ since[k] > Grace)
        <4>1. since'[k] = since[k]
          BY <2>4, <3>0, <3>3
        <4> QED BY <2>4, <3>3, <4>1, RowDeleted
      <3> QED BY <2>2, <3>1, <3>2, <3>3
    <2>6. \A k \in Keys : db'[k] # None /\ db'[k].disabled /\ pve'[k] # "none" => cause'[k] # "none"
      <3> SUFFICES ASSUME NEW k \in Keys, db'[k] # None, db'[k].disabled, pve'[k] # "none"
                   PROVE  cause'[k] # "none"
        OBVIOUS
      <3>1. CASE Missing(k) /\ ~seen[k].disabled
        BY <2>1, <3>1 DEF Because
      <3>2. CASE ~(Missing(k) /\ ~seen[k].disabled)
        <4>1. db[k] # None /\ db[k].disabled
          BY <2>2, <2>4, <3>2, RowFields
        <4> QED BY <1>0, <2>1, <3>2, <4>1 DEF DisabledHasCause
      <3> QED BY <3>1, <3>2
    <2>7. DInv'
      BY <2>1, <2>6, QuietDInv
    <2> QED BY <2>1, <2>5, <2>7 DEF Moves
  <1>6. CASE SyncAbort
    <2>1. /\ UNCHANGED <<db, since, cause>> /\ todo' = {} /\ marked' = {} /\ renewed' = {}
          /\ seen' = [k \in Keys |-> None]
      BY <1>6 DEF SyncAbort, SyncEnds
    <2>2. /\ \A j \in Keys : pve'[j] # "none" => pve[j] # "none"
          /\ \A j \in purged' \ purged : j \in todo /\ pve[j] # "none"
      BY <1>0, <1>6 DEF SyncAbort, Removes, TypeOK
    <2>3. DInv'
      BY <1>0, <2>1, <2>2, QuietDInv DEF DisabledHasCause
    <2> QED BY <1>a, <2>1, <2>2, <2>3 DEF Moves
  <1> QED BY <1>1, <1>2, <1>3, <1>4, <1>5, <1>6 DEF SyncStep

\* The steps of the pages that save a row.
LEMMA SaveDisabledDInv ==
    ASSUME IInv, IInv', DInv, NEW c \in Circuits, NEW k \in Keys, NEW at \in {0, 1},
           tracked[c][k] # None, SaveDisabled(c, k, at)
    PROVE  DInv' /\ Moves
  <1> USE NoneIsNothing
  <1>0. TypeOK /\ HeldRowsExist /\ SinceIsSpell /\ DisabledHasCause
    BY DEF IInv, DInv
  <1> DEFINE dis == Column(tracked[c][k].disabled, TRUE, db[k].disabled)
             row == Disabling(db[k], dis, at)
  <1>1. db[k] \in Row /\ tracked[c][k] \in Row
    BY <1>0 DEF TypeOK, HeldRowsExist, RowOrNone
  <1>2. dis \in BOOLEAN /\ dis \in {TRUE, db[k].disabled}
    BY <1>1, RowFields DEF Column
  <1>3. /\ StoreRow(k, row, at) /\ cause' = [cause EXCEPT ![k] = "asked"]
        /\ UNCHANGED <<pve, seen, todo, marked, purged, renewed>>
    BY DEF SaveDisabled, syncVars
  <1> HIDE DEF dis
  <1>4. row \in Row /\ row.disabled = dis /\ row.deleted = db[k].deleted
    BY <1>1, <1>2, DisablingFacts
  <1> HIDE DEF row
  <1>5. /\ db'[k] = row
        /\ since'[k] # None <=> row.disabled
        /\ since'[k] # None => since'[k] = IF since[k] = None THEN at
                                          ELSE IF since[k] < at THEN at ELSE since[k]
        /\ \A j \in Keys \ {k} : db'[j] = db[j] /\ since'[j] = since[j]
    BY <1>0, <1>3, <1>4, StoreRowFacts DEF TypeOK, SinceIsSpell
  <1>6. KeyStep(k) /\ SpellGoesOn(k)
    BY <1>1, <1>2, <1>4, <1>5, RowDisabled
  <1>7. \A j \in Keys : KeyStep(j) /\ SpellGoesOn(j)
    BY <1>5, <1>6, RowStays
  <1>8. cause \in [Keys -> CauseKinds]
    BY <1>0 DEF TypeOK
  <1>9. \A j \in Keys : db'[j] # None /\ db'[j].disabled /\ pve'[j] # "none" => cause'[j] # "none"
    BY <1>0, <1>3, <1>5, <1>8 DEF DisabledHasCause
  <1>10. DInv'
    BY <1>3, <1>7, <1>9, QuietDInv
  <1> QED BY <1>3, <1>7, <1>10 DEF Moves

LEMMA CreateUpdateDInv ==
    ASSUME IInv, IInv', DInv, NEW c \in Circuits, CreateUpdate(c)
    PROVE  DInv' /\ Moves
  <1> USE NoneIsNothing
  <1>0. TypeOK /\ HeldRowsExist /\ HandlersHaveKeys /\ SinceIsSpell /\ DisabledHasCause
    BY DEF IInv, DInv
  <1>k. PICK k \in Keys : k = op[c].key
    BY <1>0 DEF CreateUpdate, HandlersHaveKeys
  <1> DEFINE e == tracked[c][k]
             dis == Column(e.disabled, FALSE, db[k].disabled)
             del == Column(e.deleted, FALSE, db[k].deleted)
             row == Activating(db[k], dis, del)
  <1>1. db[k] \in Row /\ e \in Row
    BY <1>0, <1>k DEF CreateUpdate, TypeOK, HeldRowsExist, HandlersHaveKeys, RowOrNone
  <1>2. /\ dis \in BOOLEAN /\ del \in BOOLEAN
        /\ dis \in {FALSE, db[k].disabled} /\ del \in {FALSE, db[k].deleted}
    BY <1>1, RowFields DEF Column
  <1>3. /\ StoreRow(k, row, 0)
        /\ UNCHANGED <<pve, phase, seen, todo, marked, purged>>
        /\ cause' = IF db'[k].disabled THEN cause ELSE [cause EXCEPT ![k] = "none"]
        /\ renewed' = IF phase # "idle" /\ db[k].disabled /\ ~db'[k].disabled
                         THEN renewed \cup {k} ELSE renewed
    BY <1>k DEF CreateUpdate, syncVars
  <1> HIDE DEF dis, del
  <1>4. row \in Row /\ row.disabled = dis /\ row.deleted = del
    <2> HIDE DEF e
    <2> QED BY <1>1, <1>2, ActivatingFacts
  <1> HIDE DEF row, e
  <1>5. /\ db'[k] = row
        /\ since'[k] # None <=> row.disabled
        /\ since'[k] # None => since'[k] = IF since[k] = None THEN 0
                                          ELSE IF since[k] < 0 THEN 0 ELSE since[k]
        /\ \A j \in Keys \ {k} : db'[j] = db[j] /\ since'[j] = since[j]
    BY <1>0, <1>1, <1>3, <1>4, StoreRowFacts DEF TypeOK, SinceIsSpell
  <1>6. KeyStep(k) /\ (row.disabled = db[k].disabled => since'[k] = since[k])
    BY <1>1, <1>2, <1>4, <1>5, RowActivated
  <1>7. SpellGoesOn(k)
    <2>1. CASE row.disabled = db[k].disabled
      <3>1. since[k] = None \/ since[k] \in 0 .. (Grace + 1)
        BY <1>1, SinceFacts
      <3> QED BY <1>6, <2>1, <3>1 DEF SpellGoesOn
    <2>2. CASE row.disabled # db[k].disabled
      <3>1. db[k].disabled /\ ~row.disabled
        BY <1>1, <1>2, <1>4, <2>2, RowFields
      <3> QED BY <1>3, <1>5, <3>1 DEF SpellGoesOn
    <2> QED BY <2>1, <2>2
  <1>8. \A j \in Keys : KeyStep(j) /\ SpellGoesOn(j)
    BY <1>5, <1>6, <1>7, RowStays
  <1>9. \A j \in Keys : db'[j] # None /\ db'[j].disabled /\ pve'[j] # "none" => cause'[j] # "none"
    <2> SUFFICES ASSUME NEW j \in Keys, db'[j] # None, db'[j].disabled, pve'[j] # "none"
                 PROVE  cause'[j] # "none"
      OBVIOUS
    <2>1. db[j] # None /\ db[j].disabled
      BY <1>1, <1>2, <1>4, <1>5, RowFields
    <2>2. cause'[j] = cause[j]
      BY <1>0, <1>1, <1>3 DEF TypeOK
    <2> QED BY <1>0, <1>3, <2>1, <2>2 DEF DisabledHasCause
  <1>10. DInv'
    BY <1>3, <1>8, <1>9, QuietDInv
  <1>11. \A j \in renewed' \ renewed : since[j] # None /\ since'[j] = None
    <2>1. db[k].disabled /\ ~db'[k].disabled => since[k] # None /\ since'[k] = None
      BY <1>1, <1>5, SinceFacts
    <2> QED BY <1>3, <2>1
  <1> QED BY <1>3, <1>8, <1>10, <1>11 DEF Moves

LEMMA InsertDInv ==
    ASSUME IInv, IInv', DInv, NEW c \in Circuits, CreateInsert(c) \/ ImportInsert(c)
    PROVE  DInv' /\ Moves
  <1> USE NoneIsNothing
  <1>0. TypeOK /\ HandlersHaveKeys /\ HeldRowsExist /\ SinceIsSpell /\ DisabledHasCause
    BY DEF IInv, DInv
  <1>1. PICK k \in Keys : k = op[c].key
    BY <1>0 DEF CreateInsert, ImportInsert, HandlersHaveKeys
  <1>2. UNCHANGED <<pve, seen, todo, marked, purged, renewed>>
    BY DEF CreateInsert, ImportInsert, syncVars
  <1>3. CASE db[k] # None
    <2>1. UNCHANGED <<db, since, cause>>
      BY <1>1, <1>3 DEF CreateInsert, ImportInsert, Refused
    <2>2. \A j \in Keys : KeyStep(j) /\ SpellGoesOn(j)
      BY <2>1, RowStays
    <2>3. DInv'
      BY <1>0, <1>2, <2>1, <2>2, QuietDInv DEF DisabledHasCause
    <2> QED BY <1>2, <2>2, <2>3 DEF Moves
  <1>4. CASE db[k] = None
    <2>0. \A at \in {0, 1} :
             /\ NewRow(TRUE, at) \in Row /\ ~NewRow(TRUE, at).deleted /\ NewRow(TRUE, at).disabled
             /\ NewRow(FALSE, None) \in Row /\ ~NewRow(FALSE, None).disabled /\ ~NewRow(FALSE, None).deleted
      <3>1. {None, 0, 1} \subseteq Stamp
        BY DEF Stamp, Ages
      <3> QED BY <3>1 DEF NewRow, Row
    <2>1. PICK at \in {0, 1}, row \in Row :
             /\ StoreRow(k, row, at) /\ ~row.deleted
             /\ \/ ~row.disabled /\ cause' = cause
                \/ row.disabled /\ cause' = [cause EXCEPT ![k] = Because(k, "imported")]
      <3>1. CASE CreateInsert(c)
        <4>1. StoreRow(k, NewRow(FALSE, None), 0) /\ cause' = cause
          BY <1>1, <1>4, <3>1 DEF CreateInsert
        <4> QED BY <2>0, <4>1
      <3>2. CASE ImportInsert(c)
        <4>1. PICK at \in {0, Waited(c)} : StoreRow(k, NewRow(TRUE, at), at)
          BY <1>1, <1>4, <3>2 DEF ImportInsert
        <4>2. at \in {0, 1} /\ cause' = [cause EXCEPT ![k] = Because(k, "imported")]
          BY <1>1, <1>4, <3>2, <4>1 DEF Waited, ImportInsert
        <4> QED BY <2>0, <4>1, <4>2
      <3> QED BY <3>1, <3>2
    <2>2. Because(k, "imported") # "none" /\ cause \in [Keys -> CauseKinds]
      BY <1>0 DEF Because, TypeOK
    <2>a. since[k] = None
      BY <1>1, <1>4, SinceFacts
    <2>3. /\ db'[k] = row
          /\ since'[k] # None <=> row.disabled
          /\ since'[k] # None => since'[k] = at
          /\ \A j \in Keys \ {k} : db'[j] = db[j] /\ since'[j] = since[j]
      BY <1>0, <1>1, <2>1, <2>a, StoreRowFacts DEF TypeOK, SinceIsSpell
    <2>4. KeyStep(k) /\ SpellGoesOn(k)
      <3>1. /\ Life(k) = "none"
            /\ Life(k)' = IF row.disabled THEN "scheduled" ELSE "active"
        BY <1>4, <2>1, <2>3 DEF Life
      <3>2. SpellGoesOn(k)
        BY <2>a DEF SpellGoesOn
      <3>3. CASE row.disabled
        BY <2>3, <3>1, <3>2, <3>3 DEF KeyStep
      <3>4. CASE ~row.disabled
        BY <2>3, <3>1, <3>2, <3>4 DEF KeyStep
      <3> QED BY <3>2, <3>3, <3>4
    <2>5. \A j \in Keys : KeyStep(j) /\ SpellGoesOn(j)
      BY <2>3, <2>4, RowStays
    <2>6. \A j \in Keys : db'[j] # None /\ db'[j].disabled /\ pve'[j] # "none" => cause'[j] # "none"
      <3> SUFFICES ASSUME NEW j \in Keys, db'[j] # None, db'[j].disabled, pve'[j] # "none"
                   PROVE  cause'[j] # "none"
        OBVIOUS
      <3>1. CASE j = k
        BY <1>1, <2>1, <2>2, <2>3, <3>1
      <3>2. CASE j # k
        <4>1. db[j] # None /\ db[j].disabled /\ pve[j] # "none"
          BY <1>2, <2>3, <3>2
        <4>2. cause'[j] = cause[j]
          BY <1>1, <2>1, <2>2, <3>2
        <4> QED BY <1>0, <4>1, <4>2 DEF DisabledHasCause
      <3> QED BY <3>1, <3>2
    <2>7. DInv'
      BY <1>2, <2>5, <2>6, QuietDInv
    <2> QED BY <1>2, <2>5, <2>7 DEF Moves
  <1> QED BY <1>3, <1>4

\* A step that saves nothing and purges nothing. What it brings to a key with a
\* row has a cause.
NothingSaved ==
    /\ UNCHANGED <<db, since, seen, todo, marked, renewed>>
    /\ purged' \subseteq purged
    /\ \A k \in Keys : pve'[k] # "none" =>
          (pve[k] # "none" /\ cause'[k] = cause[k]) \/ (db[k] # None => cause'[k] # "none")

LEMMA QuietMoves ==
    ASSUME IInv, IInv', DInv, NothingSaved
    PROVE  DInv' /\ Moves
  <1>0. DisabledHasCause
    BY DEF DInv
  <1>a. /\ db' = db /\ since' = since /\ seen' = seen /\ todo' = todo /\ marked' = marked
        /\ renewed' = renewed /\ purged' \subseteq purged
    BY DEF NothingSaved
  <1>1. \A k \in Keys : KeyStep(k) /\ SpellGoesOn(k)
    BY <1>a, RowStays
  <1>2. \A k \in Keys : db'[k] # None /\ db'[k].disabled /\ pve'[k] # "none" => cause'[k] # "none"
    BY <1>0, <1>a DEF DisabledHasCause, NothingSaved
  <1>3. DInv'
    BY <1>a, <1>1, <1>2, QuietDInv
  <1> QED BY <1>a, <1>1, <1>3 DEF Moves

LEMMA AppearsQuietly ==
    ASSUME IInv, UNCHANGED <<db, since, seen, todo, marked, renewed>>, NEW k \in Keys, Appears(k)
    PROVE  NothingSaved
  <1>0. pve \in [Keys -> {"none", "here", "running", "away"}] /\ cause \in [Keys -> CauseKinds]
    BY DEF IInv, TypeOK
  <1>1. purged' \subseteq purged
    BY DEF Appears
  <1>2. \A j \in Keys \ {k} : pve'[j] = pve[j] /\ cause'[j] = cause[j]
    BY <1>0 DEF Appears
  <1>3. db[k] # None => cause'[k] # "none"
    BY <1>0 DEF Appears
  <1> QED BY <1>1, <1>2, <1>3 DEF NothingSaved

LEMMA PageDInv ==
    ASSUME IInv, IInv', DInv, NEW c \in Circuits, PageStep(c)
    PROVE  DInv' /\ Moves
  <1>1. ASSUME NEW k \in Keys, View(c, k) \/ ImportShow(c, k)
        PROVE  DInv' /\ Moves
    <2>1. NothingSaved
      BY <1>1 DEF View, ImportShow, syncVars, NothingSaved
    <2> QED BY <2>1, QuietMoves
  <1>2. ASSUME NEW k \in Keys, CreateClone(c, k)
        PROVE  DInv' /\ Moves
    <2>1. UNCHANGED <<db, since, seen, todo, marked, renewed>> /\ Appears(k)
      BY <1>2 DEF CreateClone, syncVars
    <2> QED BY <2>1, AppearsQuietly, QuietMoves
  <1>3. ASSUME NEW k \in Keys, UserDelete(c, k) \/ AdminDelete(c, k)
        PROVE  DInv' /\ Moves
    <2>1. tracked[c][k] # None /\ Disable(c, k)
      BY <1>3 DEF UserDelete, AdminDelete
    <2>2. CASE SaveDisabled(c, k, 0)
      BY <2>1, <2>2, SaveDisabledDInv
    <2>3. CASE UNCHANGED <<db, pve, tracked, syncVars, late, since, cause, purged, renewed>>
      <3>1. NothingSaved
        BY <2>3 DEF syncVars, NothingSaved
      <3> QED BY <3>1, QuietMoves
    <2> QED BY <2>1, <2>2, <2>3 DEF Disable
  <1>4. CASE LaterSave(c)
    <2>1. op[c].key \in Keys /\ tracked[c][op[c].key] # None
      BY <1>4 DEF IInv, HandlersHaveKeys, LaterSave
    <2>2. Waited(c) \in {0, 1} /\ SaveDisabled(c, op[c].key, Waited(c))
      BY <1>4 DEF LaterSave, Waited
    <2>3. PICK k \in Keys, at \in {0, 1} : tracked[c][k] # None /\ SaveDisabled(c, k, at)
      BY <2>1, <2>2
    <2> QED BY <2>3, SaveDisabledDInv
  <1>5. CASE CreateLookup(c) \/ ImportCheck(c) \/ HandlerFails(c) \/ CloseCircuit(c)
    <2>1. NothingSaved
      BY <1>5 DEF CreateLookup, ImportCheck, HandlerFails, CloseCircuit, syncVars, NothingSaved
    <2> QED BY <2>1, QuietMoves
  <1> QED BY <1>1, <1>2, <1>3, <1>4, <1>5, CreateUpdateDInv, InsertDInv DEF PageStep

LEMMA TickDInv ==
    ASSUME IInv, DInv, Tick
    PROVE  DInv'
  <1> USE NoneIsNothing
  <1>0. CopyIsYounger /\ DecidedOnCopies /\ DisabledHasCause /\ todo \cup marked \subseteq Keys
    BY DEF DInv, IInv, TypeOK
  <1>1. \A k \in Keys : /\ db[k] \in RowOrNone /\ seen[k] \in RowOrNone /\ since[k] \in Stamp
                        /\ db'[k] = AgeRow(db[k]) /\ seen'[k] = AgeRow(seen[k])
                        /\ since'[k] = Older(since[k])
    BY DEF IInv, TypeOK, Tick
  <1>2. UNCHANGED <<pve, todo, marked, cause, renewed>>
    BY DEF Tick
  <1>3. \A k \in Keys : /\ db'[k] # None <=> db[k] # None
                        /\ seen'[k] # None <=> seen[k] # None
                        /\ db[k] # None => db'[k].disabled = db[k].disabled
                        /\ seen[k] # None => /\ seen'[k].disabled = seen[k].disabled
                                             /\ seen'[k].at = Older(seen[k].at)
                                             /\ seen[k].at \in Stamp
    BY <1>1, AgeRowFacts, RowFields DEF RowOrNone
  <1>4. CopyIsYounger'
    <2> SUFFICES ASSUME NEW k \in Keys, seen'[k] # None, seen'[k].disabled, k \notin renewed'
                 PROVE  since'[k] # None /\ seen'[k].at # None /\ seen'[k].at <= since'[k]
      BY DEF CopyIsYounger
    <2>1. since[k] # None /\ seen[k].at # None /\ seen[k].at <= since[k]
      BY <1>0, <1>2, <1>3 DEF CopyIsYounger
    <2>2. seen[k].at \in Ages /\ since[k] \in Ages
      BY <1>1, <1>3, <2>1 DEF Stamp
    <2> QED BY <1>1, <1>3, <2>1, <2>2, OlderFacts DEF Stamp
  <1>5. DecidedOnCopies'
    <2>1. PastGrace(Grace + 1) /\ Older(Grace + 1) = Grace + 1 /\ \A a : PastGrace(a) => a = Grace + 1
      BY DEF PastGrace, Older, Ages
    <2> QED BY <1>0, <1>2, <1>3, <2>1 DEF DecidedOnCopies
  <1>6. DisabledHasCause'
    BY <1>0, <1>2, <1>3 DEF DisabledHasCause
  <1> QED BY <1>4, <1>5, <1>6 DEF DInv

\* Every step keeps the invariant, and is a tick or moves the records.
LEMMA NextDInv ==
    ASSUME IInv, DInv, [Next]_vars
    PROVE  DInv' /\ (Tick \/ Moves)
  <1>0. IInv'
    BY NextInv
  <1>a. pve \in [Keys -> {"none", "here", "running", "away"}] /\ cause \in [Keys -> CauseKinds]
    BY DEF IInv, TypeOK
  <1>1. CASE SyncStep
    BY <1>0, <1>1, SyncDInv
  <1>2. ASSUME NEW c \in Circuits, PageStep(c) PROVE DInv' /\ Moves
    BY <1>0, <1>2, PageDInv
  <1>3. CASE EnvironmentStep
    <2>1. ASSUME NEW k \in Keys, ForeignCreate(k)
          PROVE  DInv' /\ Moves
      <3>1. UNCHANGED <<db, since, seen, todo, marked, renewed>> /\ Appears(k)
        BY <2>1 DEF ForeignCreate, Unaware, syncVars
      <3> QED BY <1>0, <3>1, AppearsQuietly, QuietMoves
    <2>2. ASSUME NEW k \in Keys,
                 ForeignRemove(k) \/ PowerOn(k) \/ PowerOff(k) \/ Leave(k) \/ Return(k)
          PROVE  DInv' /\ Moves
      <3>1. NothingSaved
        BY <1>a, <2>2 DEF ForeignRemove, PowerOn, PowerOff, Leave, Return, Unaware, syncVars, NothingSaved
      <3> QED BY <1>0, <3>1, QuietMoves
    <2>3. CASE Tick
      BY <2>3, TickDInv
    <2>4. CASE Crash
      <3>1. /\ UNCHANGED <<db, since, pve, cause, purged>> /\ todo' = {} /\ marked' = {} /\ renewed' = {}
            /\ seen' = [k \in Keys |-> None]
        BY <2>4 DEF Crash
      <3>2. \A k \in Keys : KeyStep(k) /\ SpellGoesOn(k)
        BY <3>1, RowStays
      <3>3. DInv'
        BY <1>0, <3>1, QuietDInv DEF DInv, DisabledHasCause
      <3> QED BY <3>1, <3>2, <3>3 DEF Moves
    <2> QED BY <1>3, <2>1, <2>2, <2>3, <2>4 DEF EnvironmentStep
  <1>4. CASE UNCHANGED vars
    <2>1. NothingSaved
      BY <1>4 DEF vars, syncVars, NothingSaved
    <2> QED BY <1>0, <2>1, QuietMoves
  <1> QED BY <1>1, <1>2, <1>3, <1>4 DEF Next

LEMMA DecisionInvariance == Spec => [](IInv /\ DInv)
  <1>1. Init => IInv /\ DInv
    <2> SUFFICES ASSUME Init PROVE DInv
      BY InitInv
    <2> QED BY DEF Init, DInv, CopyIsYounger, DecidedOnCopies, DisabledHasCause
  <1>2. (IInv /\ DInv) /\ [Next]_vars => (IInv /\ DInv)'
    BY NextInv, NextDInv
  <1> QED BY <1>1, <1>2, PTL DEF Spec

\* What a step purges is past its grace period, or reactivated meanwhile.
LEMMA PurgedIsLapsed ==
    ASSUME IInv, DInv, [Next]_vars, NEW k \in purged' \ purged
    PROVE  /\ k \in Keys
           /\ k \in renewed \/ (since[k] # None /\ since[k] > Grace /\ db[k].disabled /\ pve[k] # "none")
  <1>1. CASE Tick
    BY <1>1 DEF Tick
  <1>2. CASE Moves
    <2>1. k \in todo /\ pve[k] # "none" /\ k \in Keys
      BY <1>2 DEF Moves, IInv, TypeOK
    <2> QED BY <2>1, DecidedIsLapsed DEF DInv, DecidedOnCopies
  <1> QED BY <1>1, <1>2, NextDInv

\* A VM the sync takes out of Proxmox has a row that has been disabled for
\* longer than the grace period without interruption, whatever fails, restarts
\* or reuses a VMID, unless the row was reactivated under the iteration.
THEOREM GraceIsRespected == Spec => PurgeAfterGrace
  <1>1. IInv /\ DInv /\ [Next]_vars
          => [\A k \in purged' \ purged : k \in renewed \/ (since[k] # None /\ since[k] > Grace)]_vars
    BY PurgedIsLapsed
  <1> QED BY <1>1, DecisionInvariance, PTL DEF Spec, PurgeAfterGrace

\* No VM is removed without one of the causes the property names.
THEOREM RemovalsHaveCause == Spec => RemovalHasCause
  <1>1. IInv /\ DInv /\ [Next]_vars
          => [\A k \in purged' \ purged : cause[k] # "none" \/ k \in renewed]_vars
    <2> SUFFICES ASSUME IInv, DInv, [Next]_vars, NEW k \in purged' \ purged, k \notin renewed
                 PROVE  cause[k] # "none"
      OBVIOUS
    <2>1. k \in Keys /\ since[k] # None /\ pve[k] # "none"
      BY PurgedIsLapsed
    <2> QED BY <2>1, SinceFacts DEF DInv, DisabledHasCause
  <1> QED BY <1>1, DecisionInvariance, PTL DEF Spec, RemovalHasCause

----------------------------------------------------------------------------
(***************************************************************************)
(* VmLifecycle implements VmRetention.                                     *)
(***************************************************************************)

\* A record's step is one of the abstract steps.
LEMMA KeyStepRefines ==
    ASSUME NEW k \in Keys, KeyStep(k)
    PROVE  \/ Retention!Stay(k) \/ Retention!Track(k) \/ Retention!Disable(k)
           \/ Retention!Reactivate(k) \/ Retention!HalfReactivate(k) \/ Retention!Expire(k)
  <1> DEFINE now == lives[k]
             next == lives'[k]
  <1>1. now = Life(k) /\ next = Life(k)'
    BY DEF lives, Life
  <1>2. /\ Retention!Stay(k) <=> next = now /\ since'[k] = since[k]
        /\ Retention!Track(k) <=>
             now = "none" /\ \/ next = "active" /\ since'[k] = None
                             \/ \E a \in {0, 1} : next = "scheduled" /\ since'[k] = a
        /\ Retention!Disable(k) <=>
             now # "none" /\ \E a \in {0, 1} :
                /\ since[k] = None \/ since[k] <= a
                /\ next = (IF now = "deleted" THEN "deleted" ELSE "scheduled") /\ since'[k] = a
        /\ Retention!Reactivate(k) <=> now # "none" /\ next = "active" /\ since'[k] = None
        /\ Retention!HalfReactivate(k) <=>
             now = "deleted" /\ \/ next = "deleted" /\ since'[k] = None
                                \/ since[k] # None /\ next = "scheduled" /\ since'[k] = since[k]
        /\ Retention!Expire(k) <=>
             /\ (now = "scheduled" /\ since[k] # None /\ since[k] > Grace) \/ k \in renewed
             /\ next = "deleted" /\ since'[k] = since[k]
    BY DEF Retention!Stay, Retention!Track, Retention!Disable, Retention!Reactivate,
           Retention!HalfReactivate, Retention!Expire, Retention!Becomes, Retention!Lapsed
  <1> HIDE DEF now, next
  <1> QED BY <1>1, <1>2 DEF KeyStep

\* Every step is a step of the abstract specification.
LEMMA StepRefines ==
    ASSUME IInv, DInv, [Next]_vars
    PROVE  [Retention!Next]_Retention!vars
  <1> USE NoneIsNothing
  <1>2. CASE Tick
    <2>1. since' = [k \in Keys |-> Older(since[k])] /\ UNCHANGED <<purged, renewed>>
      BY <1>2 DEF Tick
    <2>2. \A k \in Keys : /\ db'[k] = None <=> db[k] = None
                          /\ db[k] # None => /\ db'[k].deleted = db[k].deleted
                                             /\ db'[k].disabled = db[k].disabled
      <3>1. \A k \in Keys : db[k] \in RowOrNone /\ db'[k] = AgeRow(db[k])
        BY <1>2 DEF IInv, TypeOK, Tick
      <3> QED BY <3>1, AgeRowFacts
    <2>3. lives' = lives
      BY <2>2 DEF lives
    <2> QED BY <2>1, <2>3 DEF Older, Retention!Next, Retention!Tick
  <1>3. CASE Moves
    <2>1. \A k \in Keys : \/ Retention!Stay(k) \/ Retention!Track(k) \/ Retention!Disable(k)
                          \/ Retention!Reactivate(k) \/ Retention!HalfReactivate(k)
                          \/ Retention!Expire(k)
      BY <1>3, KeyStepRefines DEF Moves
    <2>2. \A k \in purged' \ purged : Retention!Lapsed(k) \/ k \in renewed
      BY PurgedIsLapsed DEF Retention!Lapsed
    <2>3. \A k \in renewed' \ renewed : since[k] # None /\ since'[k] = None
      BY <1>3 DEF Moves
    <2> QED BY <2>1, <2>2, <2>3 DEF Retention!Next, Retention!Step
  <1> QED BY <1>2, <1>3, NextDInv

\* The pages, the sync and Proxmox together implement VmRetention: a record is
\* created active or scheduled, marked as deleted only after the whole grace
\* period or when reactivated under a running iteration, and a VM goes only then.
THEOREM Refinement == Spec => RetentionSpec
  <1>1. Init => Retention!Init
    BY DEF Init, Retention!Init, lives
  <1>2. IInv /\ DInv /\ [Next]_vars => [Retention!Next]_Retention!vars
    BY StepRefines
  <1> QED BY <1>1, <1>2, DecisionInvariance, PTL DEF Spec, RetentionSpec, Retention!Spec

=============================================================================
