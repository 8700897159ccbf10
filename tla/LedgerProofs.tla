---------------------------- MODULE LedgerProofs ----------------------------
(***************************************************************************)
(* Proofs about Ledger, for any threads, any digest function Hash, any     *)
(* number of messages, deaths and failed saves.                            *)
(***************************************************************************)
EXTENDS Ledger, SequenceTheorems, TLAPS

IsSequence(s) == \E S : s \in Seq(S)

LEMMA AppendSequence ==
    ASSUME NEW s, IsSequence(s), NEW e
    PROVE  /\ IsSequence(Append(s, e))
           /\ Len(s) \in Nat
           /\ Len(Append(s, e)) = Len(s) + 1
           /\ \A i \in 1..Len(s) : Append(s, e)[i] = s[i]
           /\ Append(s, e)[Len(s) + 1] = e
           /\ Append(s, e) # <<>>
  <1>1. PICK S : s \in Seq(S)
    BY DEF IsSequence
  <1>2. s \in Seq(S \cup {e})
    BY <1>1, SeqMonotonic
  <1>3. e \in S \cup {e}
    OBVIOUS
  <1>4. /\ Append(s, e) \in Seq(S \cup {e})
        /\ Append(s, e) # << >>
        /\ Len(Append(s, e)) = Len(s) + 1
        /\ \A i \in 1..Len(s) : Append(s, e)[i] = s[i]
        /\ Append(s, e)[Len(s) + 1] = e
    BY <1>2, <1>3, AppendProperties
  <1>5. Len(s) \in Nat
    BY <1>1, LenProperties
  <1> QED  BY <1>4, <1>5 DEF IsSequence

LEMMA GenesisChain ==
    ASSUME NEW life
    PROVE  /\ IsSequence(<<Genesis(life)>>)
           /\ IsChainValid(<<Genesis(life)>>)
  <1>1. <<Genesis(life)>> \in Seq({Genesis(life)})
    OBVIOUS
  <1>2. Len(<<Genesis(life)>>) = 1 /\ <<Genesis(life)>> # <<>>
    OBVIOUS
  <1>3. 2..1 = {}
    OBVIOUS
  <1> QED  BY <1>1, <1>2, <1>3 DEF IsSequence, IsChainValid

(* A block mined on a valid chain extends it to a valid chain. *)
LEMMA ExtensionValid ==
    ASSUME NEW c, IsSequence(c), IsChainValid(c), NEW data
    PROVE  /\ IsSequence(Append(c, NewBlock(c, data)))
           /\ IsChainValid(Append(c, NewBlock(c, data)))
  <1> DEFINE new == NewBlock(c, data)
             d == Append(c, new)
  <1>1. /\ IsSequence(d) /\ Len(c) \in Nat /\ Len(d) = Len(c) + 1 /\ d # <<>>
        /\ \A i \in 1..Len(c) : d[i] = c[i]
        /\ d[Len(c) + 1] = new
    BY AppendSequence
  <1>2. /\ new.hash = Hash(new.index, new.data, new.previous_hash)
        /\ new.previous_hash = c[Len(c)].hash
    BY DEF NewBlock, MinedBlock, Latest
  <1>3. ASSUME NEW i \in 2..Len(d)
        PROVE  /\ d[i].hash = Hash(d[i].index, d[i].data, d[i].previous_hash)
               /\ d[i].previous_hash = d[i - 1].hash
    <2>1. CASE i = Len(c) + 1
      <3>1. d[i] = new /\ i - 1 = Len(c) /\ Len(c) \in 1..Len(c)
        BY <1>1, <2>1
      <3>2. d[i - 1] = c[Len(c)]
        BY <1>1, <3>1
      <3> QED  BY <1>2, <3>1, <3>2
    <2>2. CASE i # Len(c) + 1
      <3>1. i \in 2..Len(c) /\ i \in 1..Len(c) /\ i - 1 \in 1..Len(c)
        BY <1>1, <2>2
      <3>2. d[i] = c[i] /\ d[i - 1] = c[i - 1]
        BY <1>1, <3>1
      <3> QED  BY <3>1, <3>2 DEF IsChainValid
    <2> QED  BY <2>1, <2>2
  <1> QED  BY <1>1, <1>3 DEF IsChainValid

-----------------------------------------------------------------------------
(* The lock protects the ledger: what a sender mined on is still the chain *)
(* when it appends, and the file is only written by one sender at a time.  *)

(* The part of the type invariant that the argument needs; it says nothing *)
(* of digests, so nothing is assumed of Hash.                              *)
LockOK ==
    /\ lock \in Threads \cup {NoThread}
    /\ pc \in [Threads -> {"idle", "acquire", "answer"} \cup Critical]
    /\ DOMAIN block = Threads /\ block = [t \in Threads |-> block[t]]
    /\ DOMAIN msg = Threads /\ msg = [t \in Threads |-> msg[t]]
    /\ LockHeld
    /\ ~up => \A t \in Threads : pc[t] = "idle"

(* The chain and the file hold valid chains, and a mined block was mined   *)
(* on the chain it is about to be appended to.                             *)
ChainsOK ==
    /\ IsSequence(chain) /\ IsChainValid(chain)
    /\ disk.state = "whole" => IsSequence(disk.chain) /\ IsChainValid(disk.chain)
    /\ \A t \in Threads : pc[t] = "append" => block[t] = NewBlock(chain, msg[t])

LedgerInv == LockOK /\ ChainsOK

LEMMA InitLedgerInv == Init => LedgerInv
  <1> SUFFICES ASSUME Init PROVE LedgerInv
    OBVIOUS
  <1>1. LockOK
    BY NoThreadAssumption DEF Init, LockOK, LockHeld, Critical
  <1>2. ChainsOK
    BY GenesisChain DEF Init, ChainsOK, Absent
  <1> QED  BY <1>1, <1>2 DEF LedgerInv

LEMMA StepLockOK ==
    ASSUME LockOK, Next
    PROVE  LockOK'
  <1> USE DEF LockOK, LockHeld, Critical, At, Goto
  <1>1. ASSUME NEW t \in Threads, Send(t) PROVE LockOK'
    BY <1>1 DEF Send
  <1>2. ASSUME NEW t \in Threads, Acquire(t) PROVE LockOK'
    BY <1>2, NoThreadAssumption DEF Acquire
  <1>3. ASSUME NEW t \in Threads, Mine(t) PROVE LockOK'
    BY <1>3 DEF Mine
  <1>4. ASSUME NEW t \in Threads, AppendBlock(t) PROVE LockOK'
    BY <1>4 DEF AppendBlock
  <1>5. ASSUME NEW t \in Threads, OpenFile(t) PROVE LockOK'
    BY <1>5 DEF OpenFile
  <1>6. ASSUME NEW t \in Threads, WriteFile(t) PROVE LockOK'
    BY <1>6 DEF WriteFile
  <1>7. ASSUME NEW t \in Threads, SaveFails(t) PROVE LockOK'
    BY <1>7 DEF SaveFails
  <1>8. ASSUME NEW t \in Threads, Release(t) PROVE LockOK'
    BY <1>8, NoThreadAssumption DEF Release
  <1>9. ASSUME NEW t \in Threads, Answer(t) PROVE LockOK'
    BY <1>9 DEF Answer
  <1>10. CASE Crash
    BY <1>10, NoThreadAssumption DEF Crash
  <1>11. CASE Restart
    BY <1>11 DEF Restart
  <1> QED
    BY <1>1, <1>2, <1>3, <1>4, <1>5, <1>6, <1>7, <1>8, <1>9, <1>10, <1>11
    DEF Next, Step

LEMMA StepChainsOK ==
    ASSUME LedgerInv, Next
    PROVE  ChainsOK'
  <1> USE DEF LedgerInv, At, Goto
  <1>1. ASSUME NEW t \in Threads, Send(t) PROVE ChainsOK'
    BY <1>1 DEF Send, LockOK, ChainsOK
  <1>2. ASSUME NEW t \in Threads, Acquire(t) PROVE ChainsOK'
    BY <1>2 DEF Acquire, LockOK, ChainsOK
  <1>3. ASSUME NEW t \in Threads, Mine(t) PROVE ChainsOK'
    BY <1>3 DEF Mine, LockOK, ChainsOK
  <1>4. ASSUME NEW t \in Threads, AppendBlock(t) PROVE ChainsOK'
    <2>1. chain' = Append(chain, NewBlock(chain, msg[t]))
      BY <1>4 DEF AppendBlock, ChainsOK
    <2>2. IsSequence(chain') /\ IsChainValid(chain')
      BY <2>1, ExtensionValid DEF ChainsOK
    <2>3. \A u \in Threads : pc'[u] # "append"
      BY <1>4 DEF AppendBlock, LockOK, LockHeld, Critical
    <2> QED  BY <1>4, <2>2, <2>3 DEF AppendBlock, ChainsOK
  <1>5. ASSUME NEW t \in Threads, OpenFile(t) PROVE ChainsOK'
    BY <1>5 DEF OpenFile, LockOK, ChainsOK, Torn
  <1>6. ASSUME NEW t \in Threads, WriteFile(t) PROVE ChainsOK'
    BY <1>6 DEF WriteFile, LockOK, ChainsOK, Whole
  <1>7. ASSUME NEW t \in Threads, SaveFails(t) PROVE ChainsOK'
    BY <1>7 DEF SaveFails, LockOK, ChainsOK
  <1>8. ASSUME NEW t \in Threads, Release(t) PROVE ChainsOK'
    BY <1>8 DEF Release, LockOK, ChainsOK
  <1>9. ASSUME NEW t \in Threads, Answer(t) PROVE ChainsOK'
    BY <1>9 DEF Answer, LockOK, ChainsOK
  <1>10. CASE Crash
    BY <1>10 DEF Crash, ChainsOK
  <1>11. CASE Restart
    <2>1. IsSequence(chain') /\ IsChainValid(chain')
      BY <1>11, GenesisChain DEF Restart, Load, ChainsOK
    <2>2. \A t \in Threads : pc'[t] # "append"
      BY <1>11 DEF Restart, LockOK, ChainsOK
    <2> QED  BY <1>11, <2>1, <2>2 DEF Restart, ChainsOK
  <1> QED
    BY <1>1, <1>2, <1>3, <1>4, <1>5, <1>6, <1>7, <1>8, <1>9, <1>10, <1>11
    DEF Next, Step

LEMMA LedgerInvariant == Spec => []LedgerInv
  <1>1. LedgerInv /\ [Next]_vars => LedgerInv'
    <2>1. ASSUME LedgerInv, Next PROVE LedgerInv'
      BY <2>1, StepLockOK, StepChainsOK DEF LedgerInv
    <2>2. ASSUME LedgerInv, UNCHANGED vars PROVE LedgerInv'
      BY <2>2 DEF LedgerInv, LockOK, LockHeld, ChainsOK, vars
    <2> QED  BY <2>1, <2>2
  <1> QED  BY <1>1, InitLedgerInv, PTL DEF Spec

(* The chain of a server that has gone through any interleaving of senders,*)
(* failed saves, deaths and restarts always verifies.                      *)
THEOREM ChainAlwaysValid == Spec => []ChainValid
  <1>1. LedgerInv => ChainValid
    BY DEF LedgerInv, ChainsOK, ChainValid
  <1> QED  BY <1>1, LedgerInvariant, PTL

-----------------------------------------------------------------------------
(* Restarts.  The file is behind the chain only between the append and the *)
(* end of the save, or after a save that failed.                           *)

FileCurrent ==
    up /\ saved /\ (\A t \in Threads : pc[t] \notin {"open", "write"})
        => GivesBack(disk, chain)

LEMMA StepFileCurrent ==
    ASSUME LedgerInv, FileCurrent, Next
    PROVE  FileCurrent'
  <1> USE DEF LedgerInv, LockOK, FileCurrent, At, Goto
  <1>1. ASSUME NEW t \in Threads, Send(t) PROVE FileCurrent'
    BY <1>1 DEF Send
  <1>2. ASSUME NEW t \in Threads, Acquire(t) PROVE FileCurrent'
    BY <1>2 DEF Acquire
  <1>3. ASSUME NEW t \in Threads, Mine(t) PROVE FileCurrent'
    BY <1>3 DEF Mine
  <1>4. ASSUME NEW t \in Threads, AppendBlock(t) PROVE FileCurrent'
    <2>1. pc'[t] = "open"
      BY <1>4 DEF AppendBlock
    <2> QED  BY <2>1
  <1>5. ASSUME NEW t \in Threads, OpenFile(t) PROVE FileCurrent'
    <2>1. pc'[t] = "write"
      BY <1>5 DEF OpenFile
    <2> QED  BY <2>1
  <1>6. ASSUME NEW t \in Threads, WriteFile(t) PROVE FileCurrent'
    <2>1. disk' = Whole(chain) /\ chain' = chain
      BY <1>6 DEF WriteFile
    <2>2. GivesBack(disk', chain')
      BY <2>1 DEF GivesBack, Whole
    <2> QED  BY <2>2
  <1>7. ASSUME NEW t \in Threads, SaveFails(t) PROVE FileCurrent'
    BY <1>7 DEF SaveFails
  <1>8. ASSUME NEW t \in Threads, Release(t) PROVE FileCurrent'
    BY <1>8 DEF Release
  <1>9. ASSUME NEW t \in Threads, Answer(t) PROVE FileCurrent'
    BY <1>9 DEF Answer
  <1>10. CASE Crash
    BY <1>10 DEF Crash
  <1>11. CASE Restart
    <2>1. disk' = disk /\ chain' = Load(disk, crashes)
      BY <1>11 DEF Restart
    <2>2. Len(<<Genesis(crashes)>>) = 1
      OBVIOUS
    <2>3. GivesBack(disk', chain')
      BY <2>1, <2>2 DEF GivesBack, Load
    <2> QED  BY <2>3
  <1> QED
    BY <1>1, <1>2, <1>3, <1>4, <1>5, <1>6, <1>7, <1>8, <1>9, <1>10, <1>11
    DEF Next, Step

(* Whenever no sender holds the lock and the last save did not fail, the   *)
(* file gives the whole chain back, so a death of the server costs no      *)
(* message; only a genesis block without messages is replaced.             *)
THEOREM RestartLossless == Spec => []RestartLosesNothing
  <1>1. Init => FileCurrent
    <2> SUFFICES ASSUME Init PROVE GivesBack(disk, chain)
      BY DEF FileCurrent
    <2>1. Len(<<Genesis(0)>>) = 1 /\ Absent.state # "whole"
      BY DEF Absent
    <2> QED  BY <2>1 DEF Init, GivesBack
  <1>2. LedgerInv /\ FileCurrent /\ [Next]_vars => FileCurrent'
    <2>1. ASSUME LedgerInv, FileCurrent, UNCHANGED vars PROVE FileCurrent'
      BY <2>1 DEF FileCurrent, vars
    <2> QED  BY <2>1, StepFileCurrent
  <1>3. LedgerInv /\ FileCurrent => RestartLosesNothing
    <2> SUFFICES ASSUME LedgerInv, FileCurrent, up, lock = NoThread, saved
                 PROVE  GivesBack(disk, chain)
      BY DEF RestartLosesNothing
    <2>1. \A t \in Threads : pc[t] \notin {"open", "write"}
      BY NoThreadAssumption DEF LedgerInv, LockOK, LockHeld, Critical
    <2> QED  BY <2>1 DEF FileCurrent
  <1> QED  BY <1>1, <1>2, <1>3, LedgerInvariant, PTL DEF Spec

-----------------------------------------------------------------------------
(* The ledger keeps the promises of AppendLog.  Beyond LedgerInv the       *)
(* argument needs four facts: what is being sent is a message, an          *)
(* acknowledged block belongs to this life or an earlier one, the file     *)
(* holds a prefix of the chain, and an appended block stays where it is    *)
(* until its sender has been answered.                                     *)

IsPrefixOf(c, d) ==
    /\ IsSequence(c) /\ IsSequence(d) /\ c # <<>> /\ Len(c) <= Len(d)
    /\ \A i \in 1..Len(c) : c[i] = d[i]

Sending ==
    /\ sends \in Nat /\ sends <= MaxSends
    /\ \A t \in Threads : pc[t] # "idle" => msg[t] \in 1..MaxSends

LivesPast ==
    /\ crashes \in Nat
    /\ \A a \in acked : a.life \in Nat /\ a.life <= crashes

FileBehind == disk.state = "whole" => IsPrefixOf(disk.chain, chain)

Placed ==
    \A t \in Threads : pc[t] \in {"open", "write", "release", "answer"} =>
        /\ block[t].index \in 1..(Len(chain) - 1)
        /\ chain[block[t].index + 1].data = msg[t]

LogInv == Sending /\ LivesPast /\ FileBehind /\ Placed

(* A chain is a prefix of itself and of what is appended to it. *)
LEMMA PrefixReflexive ==
    ASSUME NEW c, IsSequence(c), c # <<>>
    PROVE  IsPrefixOf(c, c)
  <1>1. Len(c) \in Nat
    BY AppendSequence
  <1> QED  BY <1>1 DEF IsPrefixOf

LEMMA PrefixGrows ==
    ASSUME NEW c, NEW d, IsPrefixOf(c, d), NEW e
    PROVE  IsPrefixOf(c, Append(d, e))
  <1>1. /\ IsSequence(Append(d, e)) /\ Len(d) \in Nat
        /\ Len(Append(d, e)) = Len(d) + 1
        /\ \A i \in 1..Len(d) : Append(d, e)[i] = d[i]
    BY AppendSequence DEF IsPrefixOf
  <1>2. Len(c) \in Nat
    BY AppendSequence DEF IsPrefixOf
  <1> QED  BY <1>1, <1>2 DEF IsPrefixOf

LEMMA InitLogInv == Init => LogInv
  <1> SUFFICES ASSUME Init PROVE LogInv
    OBVIOUS
  <1>1. Sending /\ LivesPast /\ Placed
    BY LedgerAssumption DEF Init, Sending, LivesPast, Placed
  <1>2. FileBehind
    BY DEF Init, FileBehind, Absent
  <1> QED  BY <1>1, <1>2 DEF LogInv

(* What an append does to the chain and to the block it puts there. *)
LEMMA AppendedBlock ==
    ASSUME LedgerInv, LogInv, NEW t \in Threads, AppendBlock(t)
    PROVE  /\ chain' = Append(chain, block[t])
           /\ Len(chain) \in Nat /\ Len(chain) >= 1 /\ Len(chain') = Len(chain) + 1
           /\ \A i \in 1..Len(chain) : chain'[i] = chain[i]
           /\ chain'[Len(chain) + 1].data = msg[t]
           /\ block[t].index = Len(chain)
           /\ msg[t] \in 1..MaxSends
  <1>1. chain' = Append(chain, block[t]) /\ block[t] = NewBlock(chain, msg[t])
    BY DEF AppendBlock, At, LedgerInv, ChainsOK
  <1>2. block[t].data = msg[t] /\ block[t].index = Len(chain)
    BY <1>1 DEF NewBlock, MinedBlock
  <1>3. IsSequence(chain) /\ chain # <<>>
    BY DEF LedgerInv, ChainsOK, IsChainValid
  <1>4. Len(chain) >= 1
    <2>1. PICK S : chain \in Seq(S)
      BY <1>3 DEF IsSequence
    <2> QED  BY <1>3, <2>1
  <1>5. /\ Len(chain) \in Nat /\ Len(chain') = Len(chain) + 1
        /\ \A i \in 1..Len(chain) : chain'[i] = chain[i]
        /\ chain'[Len(chain) + 1] = block[t]
    BY <1>1, <1>3, AppendSequence
  <1>6. msg[t] \in 1..MaxSends
    BY DEF AppendBlock, At, LogInv, Sending
  <1> QED  BY <1>1, <1>2, <1>4, <1>5, <1>6

LEMMA StepSending ==
    ASSUME LedgerInv, Sending, Next
    PROVE  Sending'
  <1> USE LedgerAssumption DEF LedgerInv, LockOK, Sending, At, Goto
  <1>1. ASSUME NEW t \in Threads, Send(t) PROVE Sending'
    BY <1>1 DEF Send
  <1>2. ASSUME NEW t \in Threads, Step(t) PROVE Sending'
    <2>1. sends' = sends /\ msg' = msg /\ pc[t] # "idle"
      BY <1>2 DEF Step, Acquire, Mine, AppendBlock, OpenFile, WriteFile, SaveFails,
                  Release, Answer
    <2>2. \A u \in Threads \ {t} : pc'[u] = pc[u]
      BY <1>2 DEF Step, Acquire, Mine, AppendBlock, OpenFile, WriteFile, SaveFails,
                  Release, Answer
    <2> QED  BY <2>1, <2>2
  <1>3. CASE Crash
    BY <1>3 DEF Crash
  <1>4. CASE Restart
    BY <1>4 DEF Restart
  <1> QED  BY <1>1, <1>2, <1>3, <1>4 DEF Next

LEMMA StepLivesPast ==
    ASSUME LivesPast, Next
    PROVE  LivesPast'
  <1> USE DEF LivesPast
  <1>1. ASSUME NEW t \in Threads, Answer(t) PROVE LivesPast'
    BY <1>1 DEF Answer
  <1>2. CASE Crash
    BY <1>2 DEF Crash
  <1>3. ASSUME crashes' = crashes, acked' = acked PROVE LivesPast'
    BY <1>3
  <1>4. CASE Restart
    BY <1>3, <1>4 DEF Restart
  <1>5. ASSUME NEW t \in Threads, Send(t) \/ Step(t) PROVE LivesPast'
    <2>1. Answer(t) \/ (crashes' = crashes /\ acked' = acked)
      BY <1>5 DEF Send, Step, Acquire, Mine, AppendBlock, OpenFile, WriteFile,
                  SaveFails, Release
    <2> QED  BY <1>1, <1>3, <2>1
  <1> QED  BY <1>2, <1>4, <1>5 DEF Next

LEMMA StepFileBehind ==
    ASSUME LedgerInv, LogInv, Next
    PROVE  FileBehind'
  <1>1. IsSequence(chain) /\ chain # <<>> /\ FileBehind
    BY DEF LedgerInv, ChainsOK, IsChainValid, LogInv
  <1>2. ASSUME chain' = chain, disk' = disk PROVE FileBehind'
    BY <1>1, <1>2 DEF FileBehind
  <1>3. ASSUME NEW t \in Threads, AppendBlock(t) PROVE FileBehind'
    <2>1. chain' = Append(chain, block[t]) /\ disk' = disk
      BY <1>3 DEF AppendBlock
    <2>2. ASSUME disk.state = "whole" PROVE IsPrefixOf(disk.chain, chain')
      <3>1. IsPrefixOf(disk.chain, chain)
        BY <1>1, <2>2 DEF FileBehind
      <3> QED  BY <2>1, <3>1, PrefixGrows
    <2> QED  BY <2>1, <2>2 DEF FileBehind
  <1>4. ASSUME NEW t \in Threads, OpenFile(t) PROVE FileBehind'
    BY <1>4 DEF OpenFile, FileBehind, Torn
  <1>5. ASSUME NEW t \in Threads, WriteFile(t) PROVE FileBehind'
    <2>1. disk'.chain = chain /\ chain' = chain
      BY <1>5 DEF WriteFile, Whole
    <2> QED  BY <1>1, <2>1, PrefixReflexive DEF FileBehind
  <1>6. CASE Restart
    <2>1. chain' = Load(disk, crashes) /\ disk' = disk
      BY <1>6 DEF Restart
    <2>2. ASSUME disk.state = "whole" PROVE IsPrefixOf(disk.chain, chain')
      <3>1. chain' = disk.chain
        BY <2>1, <2>2 DEF Load
      <3>2. IsSequence(disk.chain) /\ disk.chain # <<>>
        BY <2>2 DEF LedgerInv, ChainsOK, IsChainValid
      <3> QED  BY <3>1, <3>2, PrefixReflexive
    <2> QED  BY <2>1, <2>2 DEF FileBehind
  <1>7. CASE Crash
    BY <1>2, <1>7 DEF Crash
  <1>8. ASSUME NEW t \in Threads,
               \/ Send(t) \/ Acquire(t) \/ Mine(t) \/ SaveFails(t) \/ Release(t) \/ Answer(t)
        PROVE  FileBehind'
    BY <1>2, <1>8 DEF Send, Acquire, Mine, SaveFails, Release, Answer
  <1> QED  BY <1>3, <1>4, <1>5, <1>6, <1>7, <1>8 DEF Next, Step

LEMMA StepPlaced ==
    ASSUME LedgerInv, LogInv, Next
    PROVE  Placed'
  <1> USE DEF LedgerInv, LockOK, Placed, At, Goto
  <1>1. Placed
    BY DEF LogInv
  <1>2. ASSUME NEW t \in Threads, AppendBlock(t) PROVE Placed'
    <2>1. /\ Len(chain) \in Nat /\ Len(chain) >= 1 /\ Len(chain') = Len(chain) + 1
          /\ \A i \in 1..Len(chain) : chain'[i] = chain[i]
          /\ chain'[Len(chain) + 1].data = msg[t]
          /\ block[t].index = Len(chain)
      BY <1>2, AppendedBlock
    <2>2. block' = block /\ msg' = msg /\ \A u \in Threads \ {t} : pc'[u] = pc[u]
      BY <1>2 DEF AppendBlock
    <2>3. block[t].index \in 1..(Len(chain') - 1) /\ chain'[block[t].index + 1].data = msg[t]
      BY <2>1
    <2>4. ASSUME NEW u \in Threads \ {t},
                 pc'[u] \in {"open", "write", "release", "answer"}
          PROVE  /\ block[u].index \in 1..(Len(chain') - 1)
                 /\ chain'[block[u].index + 1].data = msg[u]
      <3>1. /\ block[u].index \in 1..(Len(chain) - 1)
            /\ chain[block[u].index + 1].data = msg[u]
        BY <1>1, <2>2, <2>4
      <3>2. block[u].index + 1 \in 1..Len(chain)
        BY <2>1, <3>1
      <3> QED  BY <2>1, <3>1, <3>2
    <2> QED  BY <2>2, <2>3, <2>4
  <1>3. ASSUME NEW t \in Threads, Mine(t) PROVE Placed'
    BY <1>1, <1>3 DEF Mine
  <1>4. ASSUME NEW t \in Threads, Send(t) PROVE Placed'
    BY <1>1, <1>4 DEF Send
  <1>5. ASSUME NEW t \in Threads, Acquire(t) PROVE Placed'
    BY <1>1, <1>5 DEF Acquire
  <1>6. ASSUME NEW t \in Threads, OpenFile(t) PROVE Placed'
    BY <1>1, <1>6 DEF OpenFile
  <1>7. ASSUME NEW t \in Threads, WriteFile(t) PROVE Placed'
    BY <1>1, <1>7 DEF WriteFile
  <1>8. ASSUME NEW t \in Threads, SaveFails(t) PROVE Placed'
    BY <1>1, <1>8 DEF SaveFails
  <1>9. ASSUME NEW t \in Threads, Release(t) PROVE Placed'
    BY <1>1, <1>9 DEF Release
  <1>10. ASSUME NEW t \in Threads, Answer(t) PROVE Placed'
    BY <1>1, <1>10 DEF Answer
  <1>11. CASE Crash
    BY <1>11 DEF Crash
  <1>12. CASE Restart
    <2>1. \A t \in Threads : pc'[t] = "idle"
      BY <1>12 DEF Restart
    <2> QED  BY <2>1
  <1> QED
    BY <1>2, <1>3, <1>4, <1>5, <1>6, <1>7, <1>8, <1>9, <1>10, <1>11, <1>12
    DEF Next, Step

-----------------------------------------------------------------------------
(* Each step, seen in the log and its promises. *)

LEMMA LogSequence ==
    ASSUME LedgerInv
    PROVE  /\ IsSequence(log) /\ DOMAIN log = 1..(Len(chain) - 1)
           /\ Len(chain) \in Nat /\ Len(chain) >= 1 /\ Len(log) = Len(chain) - 1
  <1>1. PICK S : chain \in Seq(S) /\ chain # <<>>
    BY DEF LedgerInv, ChainsOK, IsSequence, IsChainValid
  <1>2. Len(chain) \in Nat /\ Len(chain) >= 1
    BY <1>1
  <1> DEFINE n == Len(chain) - 1
             T == {chain[i + 1].data : i \in 1..n}
  <1>3. n \in Nat /\ log \in [1..n -> T]
    BY <1>2 DEF log
  <1>4. log \in Seq(T)
    BY <1>3, SeqDef
  <1>5. DOMAIN log = 1..n /\ Len(log) = n
    BY <1>3, <1>4
  <1>6. IsSequence(log)
    BY <1>4 DEF IsSequence
  <1> QED  BY <1>2, <1>5, <1>6

LEMMA AppendPuts ==
    ASSUME LedgerInv, LogInv, NEW t \in Threads, AppendBlock(t)
    PROVE  Promised!Put
  <1>1. /\ Len(chain) \in Nat /\ Len(chain) >= 1 /\ Len(chain') = Len(chain) + 1
        /\ \A i \in 1..Len(chain) : chain'[i] = chain[i]
        /\ chain'[Len(chain) + 1].data = msg[t]
        /\ msg[t] \in 1..MaxSends
    BY AppendedBlock
  <1>2. log' = Append(log, msg[t])
    <2>1. log' = [i \in 1..Len(chain) |-> chain'[i + 1].data]
      BY <1>1 DEF log
    <2>2. Append(log, msg[t]) = [i \in 1..Len(chain) |->
                                    IF i = Len(chain) THEN msg[t] ELSE log[i]]
      BY <1>1, LogSequence DEF IsSequence
    <2>3. ASSUME NEW i \in 1..Len(chain)
          PROVE  chain'[i + 1].data = IF i = Len(chain) THEN msg[t] ELSE log[i]
      BY <1>1 DEF log
    <2> QED  BY <2>1, <2>2, <2>3
  <1>3. up /\ up' = up /\ promises' = promises
    BY DEF AppendBlock, At, promises
  <1> QED  BY <1>1, <1>2, <1>3 DEF Promised!Put

LEMMA AnswerPromises ==
    ASSUME LedgerInv, LogInv, NEW t \in Threads, Answer(t)
    PROVE  Promised!Promise
  <1>1. /\ block[t].index \in 1..(Len(chain) - 1)
        /\ chain[block[t].index + 1].data = msg[t]
    BY DEF LogInv, Placed, Answer, At
  <1>2. block[t].index \in DOMAIN log /\ log[block[t].index] = msg[t]
    BY <1>1 DEF log
  <1>3. promises' = promises \cup {[msg |-> msg[t], index |-> block[t].index]}
    <2> DEFINE new == [msg |-> msg[t], index |-> block[t].index, life |-> crashes]
    <2>1. acked' = acked \cup {new} /\ crashes' = crashes /\ new.life = crashes
      BY DEF Answer
    <2>2. {b \in acked' : b.life = crashes'} = {b \in acked : b.life = crashes} \cup {new}
      BY <2>1
    <2>3. new.msg = msg[t] /\ new.index = block[t].index
      OBVIOUS
    <2> HIDE DEF new
    <2> QED  BY <2>2, <2>3 DEF promises
  <1>4. up /\ up' = up /\ log' = log
    BY DEF Answer, At, log
  <1> QED  BY <1>2, <1>3, <1>4 DEF Promised!Promise

LEMMA CrashGoesDown ==
    ASSUME LogInv, Crash
    PROVE  Promised!GoDown
  <1>1. promises' = {}
    <2>1. \A a \in acked' : a.life # crashes'
      BY DEF Crash, LogInv, LivesPast
    <2> QED  BY <2>1 DEF promises
  <1>2. up /\ up' = FALSE /\ log' = log
    BY DEF Crash, log
  <1> QED  BY <1>1, <1>2 DEF Promised!GoDown

LEMMA WithinOne ==
    ASSUME NEW k \in Nat, NEW i \in 1..(k - 1)
    PROVE  i + 1 \in 1..k /\ k # 1
  OBVIOUS

LEMMA RestartComesBack ==
    ASSUME LedgerInv, LogInv, Restart
    PROVE  Promised!ComeBack
  <1>1. \/ IsPrefixOf(chain', chain)
        \/ IsSequence(chain') /\ Len(chain') = 1
    <2>1. chain' = Load(disk, crashes)
      BY DEF Restart
    <2>2. CASE disk.state = "whole"
      BY <2>1, <2>2 DEF Load, LogInv, FileBehind
    <2>3. CASE disk.state # "whole"
      <3>1. chain' = <<Genesis(crashes)>>
        BY <2>1, <2>3 DEF Load
      <3> QED  BY <3>1, GenesisChain
    <2> QED  BY <2>2, <2>3
  <1>2. Len(chain') \in Nat /\ Len(chain') >= 1 /\ Len(chain') <= Len(chain)
    <2>1. PICK S : chain' \in Seq(S)
      BY <1>1 DEF IsPrefixOf, IsSequence
    <2>2. Len(chain) \in Nat /\ Len(chain) >= 1
      BY LogSequence
    <2>3. chain' # <<>>
      <3>1. CASE IsPrefixOf(chain', chain)
        BY <3>1 DEF IsPrefixOf
      <3>2. CASE Len(chain') = 1
        BY <2>1, <3>2
      <3> QED  BY <1>1, <3>1, <3>2
    <2>4. Len(chain') \in Nat /\ Len(chain') >= 1
      BY <2>1, <2>3
    <2>5. Len(chain') <= Len(chain)
      <3>1. CASE IsPrefixOf(chain', chain)
        BY <3>1 DEF IsPrefixOf
      <3>2. CASE Len(chain') = 1
        BY <2>2, <3>2
      <3> QED  BY <1>1, <3>1, <3>2
    <2> QED  BY <2>4, <2>5
  <1> DEFINE n == Len(chain') - 1
  <1>3. n \in 0..Len(log)
    BY <1>2, LogSequence
  <1>4. log' = SubSeq(log, 1, n)
    <2>1. ASSUME NEW i \in 1..n
          PROVE  chain'[i + 1] = chain[i + 1] /\ i \in 1..(Len(chain) - 1)
      <3>1. i + 1 \in 1..Len(chain') /\ Len(chain') # 1
        BY <1>2, WithinOne
      <3>2. IsPrefixOf(chain', chain)
        BY <1>1, <3>1
      <3> QED  BY <1>2, <3>1, <3>2, LogSequence DEF IsPrefixOf
    <2>2. \A i \in 1..n : chain'[i + 1].data = log[i]
      BY <2>1 DEF log
    <2>3. SubSeq(log, 1, n) = [i \in 1..n |-> log[i]]
      BY <1>3, LogSequence DEF IsSequence
    <2> QED  BY <2>2, <2>3 DEF log
  <1>5. ~up /\ up' = TRUE /\ promises' = promises
    BY DEF Restart, promises
  <1> QED  BY <1>3, <1>4, <1>5 DEF Promised!ComeBack

LEMMA StepOfLog ==
    ASSUME LedgerInv, LogInv, [Next]_vars
    PROVE  [Promised!Next]_Promised!vars
  <1>1. ASSUME up' = up, chain' = chain, acked' = acked, crashes' = crashes
        PROVE  UNCHANGED Promised!vars
    BY <1>1 DEF Promised!vars, log, promises
  <1>2. CASE UNCHANGED vars
    BY <1>1, <1>2 DEF vars
  <1>3. ASSUME NEW t \in Threads,
               \/ Send(t) \/ Acquire(t) \/ Mine(t) \/ OpenFile(t) \/ WriteFile(t)
               \/ SaveFails(t) \/ Release(t)
        PROVE  UNCHANGED Promised!vars
    BY <1>1, <1>3 DEF Send, Acquire, Mine, OpenFile, WriteFile, SaveFails, Release
  <1>4. ASSUME NEW t \in Threads, AppendBlock(t) PROVE Promised!Next
    BY <1>4, AppendPuts DEF Promised!Next
  <1>5. ASSUME NEW t \in Threads, Answer(t) PROVE Promised!Next
    BY <1>5, AnswerPromises DEF Promised!Next
  <1>6. CASE Crash
    BY <1>6, CrashGoesDown DEF Promised!Next
  <1>7. CASE Restart
    BY <1>7, RestartComesBack DEF Promised!Next
  <1> QED  BY <1>2, <1>3, <1>4, <1>5, <1>6, <1>7 DEF Next, Step

(* The ledger implements the append-only log: whatever the senders, the    *)
(* disk and deaths of the server do, every step is one of the abstract     *)
(* log or leaves it alone (_handle_send_message, __init__).                *)
THEOREM LedgerImplementsLog == Spec => ImplementsLog
  <1>1. LedgerInv /\ LogInv /\ [Next]_vars => LogInv'
    <2>1. ASSUME LedgerInv, LogInv, Next PROVE LogInv'
      BY <2>1, StepSending, StepLivesPast, StepFileBehind, StepPlaced DEF LogInv
    <2>2. ASSUME LogInv, UNCHANGED vars PROVE LogInv'
      BY <2>2 DEF LogInv, Sending, LivesPast, FileBehind, Placed, vars
    <2> QED  BY <2>1, <2>2
  <1>2. Init => Promised!Init
    <2> SUFFICES ASSUME Init PROVE Promised!Init
      OBVIOUS
    <2>1. Len(chain) = 1 /\ 1..0 = {}
      BY DEF Init
    <2>2. log = <<>>
      BY <2>1 DEF log
    <2> QED  BY <2>2 DEF Init, Promised!Init, promises
  <1>3. LedgerInv /\ LogInv /\ [Next]_vars => [Promised!Next]_Promised!vars
    BY StepOfLog
  <1> QED
    BY <1>1, <1>2, <1>3, InitLogInv, LedgerInvariant, PTL
    DEF Spec, ImplementsLog, Promised!Spec

-----------------------------------------------------------------------------
(* Types.  They are the one place where digests must be something: the     *)
(* checks take numbers for them.                                           *)

DigestsAreNumbers == \A i, data, prev \in Nat : Hash(i, data, prev) \in Nat

LEMMA MinedBlockType ==
    ASSUME DigestsAreNumbers, NEW i \in Nat, NEW data \in Nat, NEW prev \in Nat
    PROVE  MinedBlock(i, data, prev) \in Block
  <1>1. Hash(i, data, prev) \in Nat
    BY DEF DigestsAreNumbers
  <1> QED  BY <1>1 DEF MinedBlock, Block

LEMMA GenesisType ==
    ASSUME DigestsAreNumbers, NEW life \in Nat
    PROVE  /\ Genesis(life) \in Block
           /\ <<Genesis(life)>> \in Seq(Block) /\ <<Genesis(life)>> # <<>>
  <1>1. Genesis(life) \in Block
    BY LedgerAssumption, MinedBlockType DEF Genesis
  <1> QED  BY <1>1

LEMMA InitTypeOK ==
    ASSUME DigestsAreNumbers, Init
    PROVE  TypeOK
  <1>1. LockHeld
    BY InitLedgerInv DEF LedgerInv, LockOK
  <1> QED  BY <1>1, GenesisType DEF Init, TypeOK, Absent

LEMMA StepTypeOK ==
    ASSUME DigestsAreNumbers, LedgerInv', TypeOK, Next
    PROVE  TypeOK'
  <1> USE DEF TypeOK, At, Goto
  <1>1. LockHeld' /\ lock' \in Threads \cup {NoThread}
        /\ pc' \in [Threads -> {"idle", "acquire", "answer"} \cup Critical]
    BY DEF LedgerInv, LockOK
  <1> USE <1>1
  <1>2. ASSUME NEW t \in Threads, Send(t) PROVE TypeOK'
    BY <1>2 DEF Send
  <1>3. ASSUME NEW t \in Threads, Acquire(t) PROVE TypeOK'
    BY <1>3 DEF Acquire
  <1>4. ASSUME NEW t \in Threads, Mine(t) PROVE TypeOK'
    <2>1. Len(chain) \in Nat /\ Latest(chain) \in Block
      BY DEF Latest
    <2>2. NewBlock(chain, msg[t]) \in Block
      BY <2>1, MinedBlockType DEF NewBlock, Block
    <2> QED  BY <1>4, <2>2 DEF Mine
  <1>5. ASSUME NEW t \in Threads, AppendBlock(t) PROVE TypeOK'
    <2>1. chain' \in Seq(Block) /\ chain' # <<>>
      BY <1>5, AppendProperties DEF AppendBlock
    <2> QED  BY <1>5, <2>1 DEF AppendBlock
  <1>6. ASSUME NEW t \in Threads, OpenFile(t) PROVE TypeOK'
    BY <1>6 DEF OpenFile, Torn
  <1>7. ASSUME NEW t \in Threads, WriteFile(t) PROVE TypeOK'
    BY <1>7 DEF WriteFile, Whole
  <1>8. ASSUME NEW t \in Threads, SaveFails(t) PROVE TypeOK'
    BY <1>8 DEF SaveFails
  <1>9. ASSUME NEW t \in Threads, Release(t) PROVE TypeOK'
    BY <1>9 DEF Release
  <1>10. ASSUME NEW t \in Threads, Answer(t) PROVE TypeOK'
    <2>1. [msg |-> msg[t], index |-> block[t].index, life |-> crashes]
            \in [msg : Nat, index : Nat, life : Nat]
      BY DEF Block
    <2> QED  BY <1>10, <2>1 DEF Answer
  <1>11. CASE Crash
    <2>1. up' \in BOOLEAN /\ saved' \in BOOLEAN
      BY <1>11, Zenon DEF Crash
    <2>2. crashes' \in Nat /\ sends' \in Nat
      BY <1>11 DEF Crash
    <2>3. UNCHANGED <<chain, disk, msg, block, acked>>
      BY <1>11 DEF Crash
    <2> QED  BY <2>1, <2>2, <2>3
  <1>12. CASE Restart
    <2>1. \/ disk.state = "whole" /\ chain' = disk.chain
          \/ chain' = <<Genesis(crashes)>>
      BY <1>12 DEF Restart, Load
    <2>2. chain' \in Seq(Block)
      BY <2>1, GenesisType
    <2>3. chain' # <<>>
      BY DEF LedgerInv, ChainsOK, IsChainValid
    <2> QED  BY <1>12, <2>2, <2>3 DEF Restart
  <1> QED
    BY <1>2, <1>3, <1>4, <1>5, <1>6, <1>7, <1>8, <1>9, <1>10, <1>11, <1>12
    DEF Next, Step

(* Every variable of Ledger keeps its type, and self.lock is held by the   *)
(* one thread between taking it and giving it back (_handle_send_message), *)
(* for any digest function with numbers for values.                        *)
THEOREM TypeCorrect == DigestsAreNumbers => (Spec => []TypeOK)
  <1> SUFFICES ASSUME DigestsAreNumbers PROVE Spec => []TypeOK
    OBVIOUS
  <1>1. Init => TypeOK
    BY InitTypeOK
  <1>2. LedgerInv' /\ TypeOK /\ [Next]_vars => TypeOK'
    <2>1. ASSUME TypeOK, UNCHANGED vars PROVE TypeOK'
      BY <2>1 DEF TypeOK, LockHeld, vars
    <2> QED  BY <2>1, StepTypeOK
  <1> QED  BY <1>1, <1>2, LedgerInvariant, PTL DEF Spec
=============================================================================
