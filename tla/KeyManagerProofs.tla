-------------------------- MODULE KeyManagerProofs --------------------------
(***************************************************************************)
(* Proofs about KeyManager, for any ids and any number of keys and uses:   *)
(* types, what the marks of rotated keys and the history say, and what may *)
(* become of a revoked key.                                                *)
(*                                                                         *)
(* The invariant adds that no two ids hold the same key, and that a key    *)
(* that was revoked is one that was drawn and, where it is still stored,   *)
(* is marked: a rotation onto a revoked id lifts the mark, but only        *)
(* together with the key.                                                  *)
(***************************************************************************)
EXTENDS KeyManager, SequenceTheorems, TLAPS

Distinct ==
    \A a, b \in Ids : a # b /\ store[a].key = store[b].key => store[a].key = 0

RevokedMarked ==
    /\ revoked \subseteq 1..draws
    /\ \A id \in Ids : store[id].key \in revoked => store[id].revoked

IInv ==
    /\ TypeOK
    /\ Distinct
    /\ RevokedMarked
    /\ ReplacementIsNewer
    /\ RotationsRecorded

-----------------------------------------------------------------------------
LEMMA EntryFacts ==
    /\ NoEntry.key = 0 /\ NoEntry.revoked = FALSE
    /\ NoEntry.rotated_to = NoId /\ NoEntry.usage_count = 0
    /\ \A k : /\ NewEntry(k).key = k /\ NewEntry(k).revoked = FALSE
              /\ NewEntry(k).rotated_to = NoId /\ NewEntry(k).usage_count = 0
    /\ \A k \in Nat \ {0} : NewEntry(k) \in KeyEntry
  BY DEF NoEntry, NewEntry, KeyEntry

(* What the types say of an entry. *)
LEMMA EntryTypes ==
    ASSUME TypeOK, NEW id \in Ids
    PROVE  /\ store[id].key \in Nat /\ store[id].key <= draws
           /\ store[id].rotated_to \in Ids \cup {NoId}
           /\ store[id].usage_count \in Nat
           /\ Holds(id) <=> store[id].key # 0
           /\ Holds(id) => store[id] \in KeyEntry
           /\ ~Holds(id) => store[id] = NoEntry
  BY EntryFacts DEF TypeOK, KeyEntry, Holds

LEMMA InitInvariant == Init => IInv
  <1> SUFFICES ASSUME Init PROVE IInv
    OBVIOUS
  <1>1. \A id \in Ids : store[id] = NoEntry
    BY DEF Init
  <1>2. history \in Seq([old : Ids, new : Ids])
    BY DEF Init
  <1>3. TypeOK
    BY <1>1, <1>2, EntryFacts DEF Init, TypeOK
  <1>4. Distinct /\ RevokedMarked
    BY <1>1, EntryFacts DEF Init, Distinct, RevokedMarked
  <1>5. ReplacementIsNewer /\ RotationsRecorded
    BY <1>1, EntryFacts DEF ReplacementIsNewer, RotationsRecorded
  <1> QED  BY <1>3, <1>4, <1>5 DEF IInv

(* A fresh key under one id, all else as it was but perhaps a mark on one  *)
(* other entry: what create_key and rotate_key have in common.             *)
LEMMA FreshKey ==
    ASSUME IInv, NEW new \in Ids,
           store'[new] = NewEntry(draws + 1),
           \A id \in Ids \ {new} : /\ store'[id].key = store[id].key
                                   /\ store'[id].revoked = store[id].revoked,
           draws' = draws + 1, revoked' = revoked
    PROVE  Distinct' /\ RevokedMarked'
  <1>1. /\ TypeOK /\ Distinct /\ RevokedMarked /\ draws \in Nat
        /\ \A id \in Ids : store[id].key \in Nat /\ store[id].key <= draws
    BY EntryTypes DEF IInv, TypeOK
  <1>2. store'[new].key = draws + 1
    BY EntryFacts
  <1>3. Distinct'
    BY <1>1, <1>2 DEF Distinct
  <1>4. draws + 1 \notin revoked
    BY <1>1 DEF RevokedMarked
  <1>5. RevokedMarked'
    BY <1>1, <1>2, <1>4 DEF RevokedMarked
  <1> QED  BY <1>3, <1>5

LEMMA CreateKeyInvariant ==
    ASSUME IInv, NEW arg \in Ids \cup {NoId}, CreateKey(arg)
    PROVE  IInv'
  <1>1. PICK new \in Ids : /\ ~Holds(new)
                           /\ store' = [store EXCEPT ![new] = NewEntry(draws + 1)]
    BY DEF CreateKey
  <1>2. /\ TypeOK /\ draws' = draws + 1 /\ draws \in Nat
        /\ history' = history /\ revoked' = revoked
    BY DEF IInv, CreateKey, TypeOK
  <1>3. /\ store'[new] = NewEntry(draws + 1)
        /\ \A id \in Ids \ {new} : store'[id] = store[id]
    BY <1>1, <1>2 DEF TypeOK
  <1>4. Distinct' /\ RevokedMarked'
    BY <1>2, <1>3, FreshKey
  <1>5. \A id \in Ids : store[id].key \in Nat /\ store[id].key <= draws
    BY <1>2, EntryTypes
  <1>6. store'[new].key = draws + 1 /\ store'[new].rotated_to = NoId
    BY <1>3, EntryFacts
  <1>7. TypeOK'
    <2>1. store' \in [Ids -> KeyEntry \cup {NoEntry}]
      BY <1>1, <1>2, EntryFacts DEF TypeOK
    <2>2. \A id \in Ids : store'[id].key <= draws'
      BY <1>2, <1>3, <1>5, <1>6
    <2> QED  BY <1>2, <2>1, <2>2 DEF TypeOK
  <1>8. ReplacementIsNewer'
    BY <1>2, <1>3, <1>5, <1>6, EntryTypes DEF IInv, ReplacementIsNewer
  <1>9. RotationsRecorded'
    BY <1>2, <1>3, <1>6 DEF IInv, RotationsRecorded
  <1> QED  BY <1>4, <1>7, <1>8, <1>9 DEF IInv

(* A change of the use count alone. *)
LEMMA GetKeyInvariant ==
    ASSUME IInv, NEW id \in Ids, GetKey(id)
    PROVE  IInv'
  <1>1. /\ TypeOK /\ store[id] \in KeyEntry
        /\ store' = [store EXCEPT ![id].usage_count = @ + 1]
        /\ draws' = draws /\ history' = history /\ revoked' = revoked
    BY EntryTypes DEF IInv, GetKey
  <1>2. store' = [store EXCEPT ![id] = [store[id] EXCEPT !.usage_count = @ + 1]]
    BY <1>1 DEF TypeOK
  <1>3. [store[id] EXCEPT !.usage_count = @ + 1] \in KeyEntry
    BY <1>1 DEF KeyEntry
  <1>4. \A a \in Ids : /\ store'[a].key = store[a].key
                       /\ store'[a].revoked = store[a].revoked
                       /\ store'[a].rotated_to = store[a].rotated_to
    BY <1>1, <1>2, <1>3 DEF TypeOK, KeyEntry
  <1>5. TypeOK'
    BY <1>1, <1>2, <1>3, <1>4 DEF TypeOK
  <1>6. Distinct' /\ RevokedMarked'
    BY <1>1, <1>4 DEF IInv, Distinct, RevokedMarked
  <1>7. ReplacementIsNewer' /\ RotationsRecorded'
    BY <1>1, <1>4, EntryTypes DEF IInv, ReplacementIsNewer, RotationsRecorded
  <1> QED  BY <1>5, <1>6, <1>7 DEF IInv

(* Only this entry holds the key that is revoked, so all marks are right.  *)
LEMMA RevokeKeyInvariant ==
    ASSUME IInv, NEW id \in Ids, RevokeKey(id)
    PROVE  IInv'
  <1>1. /\ TypeOK /\ store[id] \in KeyEntry /\ store[id].key \in 1..draws
        /\ store' = [store EXCEPT ![id].revoked = TRUE]
        /\ revoked' = revoked \cup {store[id].key}
        /\ draws' = draws /\ history' = history
    <2>1. TypeOK /\ store[id] \in KeyEntry /\ draws \in Nat
      BY EntryTypes DEF IInv, RevokeKey, TypeOK
    <2>2. store[id].key \in 1..draws
      BY <2>1, EntryTypes DEF RevokeKey
    <2> QED  BY <2>1, <2>2 DEF RevokeKey
  <1>2. store' = [store EXCEPT ![id] = [store[id] EXCEPT !.revoked = TRUE]]
    BY <1>1 DEF TypeOK
  <1>3. [store[id] EXCEPT !.revoked = TRUE] \in KeyEntry
    BY <1>1 DEF KeyEntry
  <1>4. \A a \in Ids : /\ store'[a].key = store[a].key
                       /\ store'[a].rotated_to = store[a].rotated_to
                       /\ a # id => store'[a] = store[a]
    BY <1>1, <1>2, <1>3 DEF TypeOK, KeyEntry
  <1>5. store'[id].revoked
    BY <1>1, <1>2, <1>3 DEF TypeOK, KeyEntry
  <1>6. TypeOK'
    BY <1>1, <1>2, <1>3, <1>4 DEF TypeOK
  <1>7. Distinct'
    BY <1>4 DEF IInv, Distinct
  <1>8. RevokedMarked'
    <2>1. revoked' \subseteq 1..draws'
      BY <1>1 DEF IInv, RevokedMarked
    <2>2. ASSUME NEW a \in Ids, store'[a].key \in revoked' PROVE store'[a].revoked
      <3>1. CASE a = id
        BY <1>5, <3>1
      <3>2. CASE a # id
        <4>1. store[a].key # store[id].key
          BY <1>1, <3>2 DEF IInv, Distinct
        <4>2. store[a].revoked
          BY <1>1, <1>4, <2>2, <4>1 DEF IInv, RevokedMarked
        <4> QED  BY <1>4, <3>2, <4>2
      <3> QED  BY <3>1, <3>2
    <2> QED  BY <2>1, <2>2 DEF RevokedMarked
  <1>9. ReplacementIsNewer' /\ RotationsRecorded'
    BY <1>1, <1>4, EntryTypes DEF IInv, ReplacementIsNewer, RotationsRecorded
  <1> QED  BY <1>6, <1>7, <1>8, <1>9 DEF IInv

(* The new key is newer than every other, and the history ends in the      *)
(* rotation whose mark was put.                                            *)
LEMMA RotateKeyInvariant ==
    ASSUME IInv, NEW old \in Ids, NEW arg \in Ids \cup {NoId}, RotateKey(old, arg)
    PROVE  IInv'
  <1>1. /\ TypeOK /\ Holds(old) /\ draws' = draws + 1 /\ draws \in Nat
        /\ revoked' = revoked
    BY DEF IInv, RotateKey, TypeOK
  <1>2. PICK new \in Ids :
           /\ store' = [id \in Ids |->
                 IF id = new THEN NewEntry(draws + 1)
                 ELSE IF id = old THEN [store[id] EXCEPT !.rotated_to = new]
                 ELSE store[id]]
           /\ history' = Append(history, [old |-> old, new |-> new])
    BY DEF RotateKey
  <1>3. store[old] \in KeyEntry
    BY <1>1, EntryTypes
  <1>4. [store[old] EXCEPT !.rotated_to = new] \in KeyEntry
    BY <1>3 DEF KeyEntry
  <1>5. /\ store'[new] = NewEntry(draws + 1)
        /\ old # new => store'[old] = [store[old] EXCEPT !.rotated_to = new]
        /\ \A id \in Ids \ {old, new} : store'[id] = store[id]
    BY <1>2
  <1>6. \A id \in Ids \ {new} : /\ store'[id].key = store[id].key
                                /\ store'[id].revoked = store[id].revoked
    BY <1>3, <1>5 DEF KeyEntry
  <1>7. Distinct' /\ RevokedMarked'
    BY <1>1, <1>5, <1>6, FreshKey
  <1>8. \A id \in Ids : store[id].key \in Nat /\ store[id].key <= draws
    BY <1>1, EntryTypes
  <1>9. store'[new].key = draws + 1 /\ store'[new].rotated_to = NoId
    BY <1>5, EntryFacts
  <1>10. old # new => store'[old].rotated_to = new
    BY <1>3, <1>5 DEF KeyEntry
  <1>11. /\ history \in Seq([old : Ids, new : Ids]) /\ Len(history) \in Nat
         /\ history' \in Seq([old : Ids, new : Ids])
         /\ Len(history') = Len(history) + 1
         /\ history'[Len(history) + 1] = [old |-> old, new |-> new]
         /\ \A i \in 1..Len(history) : history'[i] = history[i]
         /\ DOMAIN history = 1..Len(history)
         /\ DOMAIN history' = 1..(Len(history) + 1)
    <2>1. history \in Seq([old : Ids, new : Ids])
      BY <1>1 DEF TypeOK
    <2>2. [old |-> old, new |-> new] \in [old : Ids, new : Ids]
      OBVIOUS
    <2>3. Len(history) \in Nat /\ DOMAIN history = 1..Len(history)
      BY <2>1, LenProperties
    <2>4. /\ history' \in Seq([old : Ids, new : Ids])
          /\ Len(history') = Len(history) + 1
          /\ history'[Len(history) + 1] = [old |-> old, new |-> new]
          /\ \A i \in 1..Len(history) : history'[i] = history[i]
      BY <1>2, <2>1, <2>2, AppendProperties
    <2>5. DOMAIN history' = 1..Len(history')
      BY <2>4, LenProperties
    <2> QED  BY <2>1, <2>3, <2>4, <2>5
  <1>12. TypeOK'
    <2>1. store' \in [Ids -> KeyEntry \cup {NoEntry}]
      <3>1. \A id \in Ids : store[id] \in KeyEntry \cup {NoEntry}
        BY <1>1 DEF TypeOK
      <3>2. NewEntry(draws + 1) \in KeyEntry
        BY <1>1, EntryFacts
      <3>3. \A id \in Ids : store'[id] \in KeyEntry \cup {NoEntry}
        BY <1>4, <1>5, <3>1, <3>2
      <3>4. store' = [id \in Ids |-> store'[id]]
        BY <1>2
      <3> QED  BY <3>3, <3>4
    <2>2. \A id \in Ids : store'[id].key <= draws'
      BY <1>1, <1>6, <1>8, <1>9
    <2>3. draws' \in Nat /\ revoked' \in SUBSET Nat
      BY <1>1 DEF TypeOK
    <2> QED  BY <1>11, <2>1, <2>2, <2>3 DEF TypeOK
  <1>13. ReplacementIsNewer'
    <2> SUFFICES ASSUME NEW id \in Ids, store'[id].rotated_to # NoId
                 PROVE  store'[store'[id].rotated_to].key > store'[id].key
      BY DEF ReplacementIsNewer
    <2>1. id # new
      BY <1>9
    <2>2. CASE id = old
      BY <1>1, <1>6, <1>8, <1>9, <1>10, <2>1, <2>2
    <2>3. CASE id # old
      <3>1. store'[id] = store[id]
        BY <1>5, <2>1, <2>3
      <3>2. /\ store[id].rotated_to \in Ids
            /\ store[store[id].rotated_to].key > store[id].key
        BY <1>1, <3>1, EntryTypes DEF IInv, ReplacementIsNewer
      <3> QED  BY <1>1, <1>6, <1>8, <1>9, <3>1, <3>2
    <2> QED  BY <2>2, <2>3
  <1>14. RotationsRecorded'
    <2> SUFFICES ASSUME NEW id \in Ids, store'[id].rotated_to # NoId
                 PROVE  \E i \in DOMAIN history' :
                           /\ history'[i] = [old |-> id, new |-> store'[id].rotated_to]
                           /\ \A j \in DOMAIN history' : j > i => history'[j].old # id
      BY DEF RotationsRecorded
    <2>1. id # new
      BY <1>9
    <2>2. CASE id = old
      <3>1. Len(history) + 1 \in DOMAIN history'
        BY <1>11
      <3>2. history'[Len(history) + 1] = [old |-> id, new |-> store'[id].rotated_to]
        BY <1>10, <1>11, <2>1, <2>2
      <3>3. \A j \in DOMAIN history' : ~(j > Len(history) + 1)
        BY <1>11
      <3> QED  BY <3>1, <3>2, <3>3
    <2>3. CASE id # old
      <3>1. store'[id] = store[id]
        BY <1>5, <2>1, <2>3
      <3>2. PICK i \in DOMAIN history :
                /\ history[i] = [old |-> id, new |-> store[id].rotated_to]
                /\ \A j \in DOMAIN history : j > i => history[j].old # id
        BY <3>1 DEF IInv, RotationsRecorded
      <3>3. history'[i] = [old |-> id, new |-> store'[id].rotated_to]
        BY <1>11, <3>1, <3>2
      <3>4. ASSUME NEW j \in DOMAIN history', j > i PROVE history'[j].old # id
        <4>1. CASE j \in 1..Len(history)
          BY <1>11, <3>2, <3>4, <4>1
        <4>2. CASE j = Len(history) + 1
          BY <1>11, <2>3, <4>2
        <4> QED  BY <1>11, <4>1, <4>2
      <3> QED  BY <1>11, <3>3, <3>4
    <2> QED  BY <2>2, <2>3
  <1> QED  BY <1>7, <1>12, <1>13, <1>14 DEF IInv

LEMMA StepInvariant == IInv /\ [Next]_vars => IInv'
  <1> SUFFICES ASSUME IInv, [Next]_vars PROVE IInv'
    OBVIOUS
  <1>1. CASE UNCHANGED vars
    BY <1>1 DEF vars, IInv, TypeOK, Distinct, RevokedMarked, ReplacementIsNewer,
                RotationsRecorded
  <1>2. CASE Next
    BY <1>2, CreateKeyInvariant, GetKeyInvariant, RevokeKeyInvariant,
       RotateKeyInvariant DEF Next
  <1> QED  BY <1>1, <1>2

LEMMA Invariant == Spec => []IInv
  <1> QED  BY InitInvariant, StepInvariant, PTL DEF Spec

-----------------------------------------------------------------------------
(* Every variable keeps its type, and only keys that were drawn are stored *)
(* (create_key, rotate_key, revoke_key).                                   *)
THEOREM TypeCorrect == Spec => []TypeOK
  <1>1. IInv => TypeOK
    BY DEF IInv
  <1> QED  BY <1>1, Invariant, PTL

(* Who follows rotated_to arrives at a newer key, whatever ids have been   *)
(* overwritten since (rotate_key).                                         *)
THEOREM ReplacementsNewer == Spec => []ReplacementIsNewer
  <1>1. IInv => ReplacementIsNewer
    BY DEF IInv
  <1> QED  BY <1>1, Invariant, PTL

(* A mark is what the history says of the latest rotation (rotate_key).    *)
THEOREM HistoryTells == Spec => []RotationsRecorded
  <1>1. IInv => RotationsRecorded
    BY DEF IInv
  <1> QED  BY <1>1, Invariant, PTL

(* No key that was revoked is handed out again, under whatever id          *)
(* (get_key, revoke_key).                                                  *)
THEOREM RevocationHolds == Spec => RevokedNotHandedOut
  <1> DEFINE Refused == \A id \in Ids :
                 store'[id].usage_count > store[id].usage_count
                     => store'[id].key \notin revoked
  <1>1. IInv /\ [Next]_vars => [Refused]_vars
    <2> SUFFICES ASSUME IInv, Next, NEW a \in Ids,
                        store'[a].usage_count > store[a].usage_count
                 PROVE  store'[a].key \notin revoked
      BY DEF Refused
    <2>1. TypeOK /\ store[a].usage_count \in Nat
      BY EntryTypes DEF IInv
    <2>2. CASE \E arg \in Ids \cup {NoId} : CreateKey(arg)
      <3>1. PICK arg \in Ids \cup {NoId} : CreateKey(arg)
        BY <2>2
      <3>2. store'[a] = store[a] \/ store'[a] = NewEntry(draws + 1)
        BY <2>1, <3>1 DEF CreateKey, TypeOK
      <3> QED  BY <2>1, <3>2, EntryFacts
    <2>3. CASE \E old \in Ids, arg \in Ids \cup {NoId} : RotateKey(old, arg)
      <3>1. PICK old \in Ids, new \in Ids :
               /\ Holds(old)
               /\ store' = [id \in Ids |->
                     IF id = new THEN NewEntry(draws + 1)
                     ELSE IF id = old THEN [store[id] EXCEPT !.rotated_to = new]
                     ELSE store[id]]
        BY <2>3 DEF RotateKey
      <3>2. store[old] \in KeyEntry
        BY <2>1, <3>1, EntryTypes
      <3>3. [store[old] EXCEPT !.rotated_to = new].usage_count = store[old].usage_count
        BY <3>2 DEF KeyEntry
      <3> QED  BY <2>1, <3>1, <3>3, EntryFacts
    <2>4. CASE \E id \in Ids : GetKey(id)
      <3>1. PICK id \in Ids : GetKey(id)
        BY <2>4
      <3>2. store[id] \in KeyEntry /\ ~store[id].revoked
        BY <2>1, <3>1, EntryTypes DEF GetKey
      <3>3. /\ a # id => store'[a] = store[a]
            /\ store'[id].key = store[id].key
        BY <2>1, <3>1, <3>2 DEF GetKey, TypeOK, KeyEntry
      <3>4. a = id
        BY <2>1, <3>3
      <3> QED  BY <3>2, <3>3, <3>4 DEF IInv, RevokedMarked
    <2>5. CASE \E id \in Ids : RevokeKey(id)
      <3>1. PICK id \in Ids : RevokeKey(id)
        BY <2>5
      <3>2. store[id] \in KeyEntry
        BY <2>1, <3>1, EntryTypes DEF RevokeKey
      <3>3. store'[a].usage_count = store[a].usage_count
        BY <2>1, <3>1, <3>2 DEF RevokeKey, TypeOK, KeyEntry
      <3> QED  BY <2>1, <3>3
    <2> QED  BY <2>2, <2>3, <2>4, <2>5 DEF Next
  <1> QED  BY <1>1, Invariant, PTL DEF Spec, RevokedNotHandedOut

(* A key in use is replaced, or a revocation lifted, only by a rotation    *)
(* onto its id that the history tells (create_key, rotate_key).            *)
THEOREM RotationsReplace == Spec => OnlyRotationReplaces
  <1> DEFINE Told == \A id \in Ids :
          /\ Holds(id)
          /\ store'[id].key # store[id].key \/ (store[id].revoked /\ ~store'[id].revoked)
          => /\ Len(history') = Len(history) + 1
             /\ history'[Len(history')].new = id
  <1>1. IInv /\ [Next]_vars => [Told]_vars
    <2> SUFFICES ASSUME IInv, Next, NEW a \in Ids, Holds(a),
                        \/ store'[a].key # store[a].key
                        \/ store[a].revoked /\ ~store'[a].revoked
                 PROVE  /\ Len(history') = Len(history) + 1
                        /\ history'[Len(history')].new = a
      BY DEF Told
    <2>1. TypeOK /\ store[a] \in KeyEntry
      BY EntryTypes DEF IInv
    <2>2. ASSUME NEW arg \in Ids \cup {NoId}, CreateKey(arg) PROVE FALSE
      BY <2>1, <2>2 DEF CreateKey, TypeOK
    <2>3. ASSUME NEW id \in Ids, GetKey(id) PROVE FALSE
      BY <2>1, <2>3 DEF GetKey, TypeOK, KeyEntry
    <2>4. ASSUME NEW id \in Ids, RevokeKey(id) PROVE FALSE
      BY <2>1, <2>4 DEF RevokeKey, TypeOK, KeyEntry
    <2>5. PICK old \in Ids, new \in Ids :
             /\ Holds(old)
             /\ store' = [id \in Ids |->
                   IF id = new THEN NewEntry(draws + 1)
                   ELSE IF id = old THEN [store[id] EXCEPT !.rotated_to = new]
                   ELSE store[id]]
             /\ history' = Append(history, [old |-> old, new |-> new])
      BY <2>2, <2>3, <2>4 DEF Next, RotateKey
    <2>6. a = new
      BY <2>1, <2>5 DEF KeyEntry
    <2>7. history \in Seq([old : Ids, new : Ids])
      BY <2>1 DEF TypeOK
    <2>8. [old |-> old, new |-> new] \in [old : Ids, new : Ids]
      OBVIOUS
    <2> QED  BY <2>5, <2>6, <2>7, <2>8, AppendProperties, LenProperties
  <1> QED  BY <1>1, Invariant, PTL DEF Spec, OnlyRotationReplaces
=============================================================================
