----------------------- MODULE FallbackPlayback_proof -----------------------
(***************************************************************************)
(* Proofs about FallbackPlayback, for any number of frames, any buffer     *)
(* size and any number of writes per script.                               *)
(***************************************************************************)
EXTENDS FallbackPlayback, SequenceTheorems, TLAPS

Item == {1, 2, ResetScript}

(* Pushing a script that a deque does not hold adds just this script.      *)
LEMMA PushHolds ==
  ASSUME NEW q \in Seq(Item), NEW e \in Item
  PROVE  /\ Append(q, e) \in Seq(Item)
         /\ \A b \in Item : Holds(Append(q, e), b) <=> Holds(q, b) \/ b = e
         /\ NoDuplicate(q) /\ ~ Holds(q, e) => NoDuplicate(Append(q, e))
         /\ Len(Append(q, e)) = Len(q) + 1
         /\ Append(q, e)[Len(q) + 1] = e
         /\ \A i \in DOMAIN q : Append(q, e)[i] = q[i]
         /\ DOMAIN Append(q, e) = 1 .. Len(q) + 1
<1> DEFINE r == Append(q, e)
<1>1. /\ r \in Seq(Item)
      /\ Len(q) \in Nat
      /\ Len(r) = Len(q) + 1
      /\ DOMAIN q = 1 .. Len(q)
      /\ DOMAIN r = 1 .. Len(q) + 1
      /\ r[Len(q) + 1] = e
      /\ \A i \in 1 .. Len(q) : r[i] = q[i]
  BY AppendProperties, LenProperties
<1> HIDE DEF r
<1>2. \A b \in Item : Holds(r, b) <=> Holds(q, b) \/ b = e
  BY <1>1 DEF Holds
<1>3. NoDuplicate(q) /\ ~ Holds(q, e) => NoDuplicate(r)
  BY <1>1 DEF Holds, NoDuplicate
<1>4. QED
  BY <1>1, <1>2, <1>3 DEF r

(* Popping a deque without duplicates removes just the popped script.      *)
LEMMA PopHolds ==
  ASSUME NEW q \in Seq(Item), q # <<>>
  PROVE  /\ Head(q) \in Item
         /\ Head(q) = q[1]
         /\ Tail(q) \in Seq(Item)
         /\ Len(q) \in Nat \ {0}
         /\ Len(Tail(q)) = Len(q) - 1
         /\ DOMAIN q = 1 .. Len(q)
         /\ DOMAIN Tail(q) = 1 .. Len(q) - 1
         /\ \A i \in 1 .. Len(q) - 1 : Tail(q)[i] = q[i + 1]
         /\ \A b \in Item : Holds(q, b) <=> Holds(Tail(q), b) \/ b = Head(q)
         /\ NoDuplicate(q) => NoDuplicate(Tail(q)) /\ ~ Holds(Tail(q), Head(q))
<1> DEFINE r == Tail(q)
           h == Head(q)
<1>1. /\ h \in Item
      /\ h = q[1]
      /\ r \in Seq(Item)
      /\ Len(q) \in Nat \ {0}
      /\ Len(r) = Len(q) - 1
      /\ DOMAIN q = 1 .. Len(q)
      /\ DOMAIN r = 1 .. Len(q) - 1
      /\ \A i \in 1 .. Len(q) - 1 : r[i] = q[i + 1]
  BY HeadTailProperties, LenProperties, EmptySeq
<1> HIDE DEF r, h
<1>2. \A b \in Item : Holds(q, b) <=> Holds(r, b) \/ b = h
  <2> SUFFICES ASSUME NEW b \in Item
               PROVE  Holds(q, b) <=> Holds(r, b) \/ b = h
    OBVIOUS
  <2>1. ASSUME NEW i \in 1 .. Len(q), q[i] = b
        PROVE  Holds(r, b) \/ b = h
    <3>1. CASE i = 1
      BY <3>1, <2>1, <1>1
    <3>2. CASE i # 1
      <4>1. i - 1 \in 1 .. Len(q) - 1 /\ r[i - 1] = q[i]
        BY <3>2, <1>1
      <4>2. QED
        BY <4>1, <2>1, <1>1 DEF Holds
    <3>3. QED
      BY <3>1, <3>2
  <2>2. ASSUME NEW i \in 1 .. Len(q) - 1, r[i] = b
        PROVE  Holds(q, b)
    <3>1. i + 1 \in 1 .. Len(q) /\ q[i + 1] = b
      BY <2>2, <1>1
    <3>2. QED
      BY <3>1, <1>1 DEF Holds
  <2>3. b = h => Holds(q, b)
    BY <1>1 DEF Holds
  <2>4. QED
    BY <2>1, <2>2, <2>3, <1>1 DEF Holds
<1>3. ASSUME NoDuplicate(q)
      PROVE  NoDuplicate(r) /\ ~ Holds(r, h)
  <2>1. \A i, j \in 1 .. Len(q) : q[i] = q[j] => i = j
    BY <1>3, <1>1 DEF NoDuplicate
  <2>2. ASSUME NEW i \in 1 .. Len(q) - 1, NEW j \in 1 .. Len(q) - 1, r[i] = r[j]
        PROVE  i = j
    <3>1. i + 1 \in 1 .. Len(q) /\ j + 1 \in 1 .. Len(q) /\ q[i + 1] = q[j + 1]
      BY <2>2, <1>1
    <3>2. i + 1 = j + 1
      BY <3>1, <2>1
    <3>3. QED
      BY <3>2
  <2>3. ASSUME NEW i \in 1 .. Len(q) - 1, r[i] = h
        PROVE  FALSE
    <3>1. i + 1 \in 1 .. Len(q) /\ 1 \in 1 .. Len(q) /\ q[i + 1] = q[1]
      BY <2>3, <1>1
    <3>2. i + 1 = 1
      BY <3>1, <2>1
    <3>3. QED
      BY <3>2
  <2>4. QED
    BY <2>2, <2>3, <1>1 DEF Holds, NoDuplicate
<1>4. QED
  BY <1>1, <1>2, <1>3 DEF r, h

-----------------------------------------------------------------------------
(* Type correctness.  It needs PlayerOwns and EndAhead: the player stays   *)
(* inside the buffer only because it meets an end marker there.            *)

LEMMA RecordPokeType ==
  ASSUME NEW s \in Script, NEW len \in Slot, NEW p \in Poke
  PROVE  /\ RecordPoke(s, len, p) \in Script
         /\ RecordLen(len) \in Slot
         /\ MarkEnd(s, len) \in Script
         /\ MarkEnd(s, len)[len] = EndMarker
  BY ScriptAssumption DEF RecordPoke, RecordLen, MarkEnd, Fits, Script, Slot

LEMMA EmittedType ==
  ASSUME TypeOK, NEW reg \in Reg
  PROVE  <<frame * PokesPerFrame + Len(emitted) + 1, reg>> \in Poke
<1>1. frame * PokesPerFrame \in Nat
  BY FallbackAssumption DEF TypeOK
<1>2. Len(emitted) \in Nat
  BY LenProperties DEF TypeOK
<1>3. frame * PokesPerFrame + Len(emitted) + 1 \in Nat \ {0}
  BY <1>1, <1>2
<1>4. QED
  BY <1>3 DEF Poke

LEMMA InitIInv == Init => IInv
<1> SUFFICES ASSUME Init
             PROVE  IInv
  OBVIOUS
<1> USE ScriptAssumption, FallbackAssumption
<1>1. /\ pool \in Seq(Item)
      /\ work \in Seq(Item)
      /\ DOMAIN pool = {1, 2}
      /\ DOMAIN work = {}
  BY DEF Init, Item, ResetScript
<1>2. EmptyScript \in Script
  BY DEF EmptyScript, Script
<1>3. TypeOK
  <2>1. <<>> \in Seq(Poke)
    BY EmptySeq
  <2>2. mem \in [Buffer -> Script]
    BY <1>2 DEF Init
  <2>3. /\ 0 \in Slot
        /\ 0 \in 0 .. FrameLimit
    BY DEF Slot
  <2>4. QED
    BY <1>1, <2>1, <2>2, <2>3
       DEF Init, TypeOK, Item, NoBuf, MainPc, Beginning, PlayPc
<1>4. ExclusiveOwner
  BY <1>1 DEF Init, ExclusiveOwner, NoDuplicate, Holds, Buffer, InPool, InWork,
              Recorded, Played, NoBuf
<1>5. MainOwns /\ PlayerOwns
  BY DEF Init, MainOwns, PlayerOwns, Recording
<1>6. EndAhead
  BY <1>1 DEF Init, EndAhead, InWork, Played, Holds, Buffer, NoBuf
<1>7. ResetLast
  BY <1>1 DEF Init, ResetLast, InPool, InWork, Played, Holds, ResetScript, NoBuf
<1>8. MuteSoFar
  BY DEF Init, MuteSoFar, Played, ResetScript, NoBuf
<1>9. QED
  BY <1>3, <1>4, <1>5, <1>6, <1>7, <1>8 DEF IInv
-----------------------------------------------------------------------------
(* Every action of the main thread preserves the invariant.                *)

LEMMA FetchBufferIInv == IInv /\ FetchBuffer => IInv'
<1> SUFFICES ASSUME IInv, FetchBuffer
             PROVE  IInv'
  OBVIOUS
<1> USE DEF IInv, FetchBuffer, mainVars, playVars, shared
<1>1. /\ pool \in Seq(Item)
      /\ pool # <<>>
  BY DEF TypeOK, Item
<1>2. /\ pool' \in Seq(Item)
      /\ Head(pool) \in Item
      /\ \A b \in Item : Holds(pool, b) <=> Holds(pool', b) \/ b = Head(pool)
      /\ NoDuplicate(pool) => NoDuplicate(pool') /\ ~ Holds(pool', Head(pool))
  BY <1>1, PopHolds
<1>3. ~ Holds(pool, ResetScript)
  BY DEF ResetLast, InPool, Beginning
<1>4. Head(pool) \in Buffer
  BY <1>2, <1>3 DEF Item, Buffer
<1>5. Buffer \subseteq Item /\ ResetScript \in Item
  BY DEF Buffer, Item
<1>6. scriptBuf = NoBuf /\ NoBuf \notin Buffer
  BY DEF MainOwns, Beginning, Recording, Buffer, NoBuf
<1>7. TypeOK'
  <2>1. <<>> \in Seq(Poke)
    BY EmptySeq
  <2>2. 0 \in Slot
    BY ScriptAssumption DEF Slot
  <2>3. QED
    BY <1>2, <1>4, <2>1, <2>2 DEF TypeOK, Item, MainPc, Recording
<1>8. ExclusiveOwner'
  BY <1>2, <1>4, <1>5, <1>6
     DEF ExclusiveOwner, InPool, InWork, Recorded, Played
<1>9. (MainOwns /\ PlayerOwns)'
  BY <1>4, <1>6 DEF MainOwns, PlayerOwns, Recording, Beginning
<1>10. (EndAhead /\ MuteSoFar)'
  BY DEF EndAhead, MuteSoFar, InWork, Played
<1>11. ResetLast'
  BY <1>2, <1>3, <1>5 DEF ResetLast, InPool, InWork, Played, Beginning
<1>12. QED
  BY <1>7, <1>8, <1>9, <1>10, <1>11

LEMMA RecordSidWriteIInv == IInv /\ RecordSidWrite => IInv'
<1> SUFFICES ASSUME IInv, RecordSidWrite
             PROVE  IInv'
  OBVIOUS
<1> USE DEF IInv, playVars
<1>1. PICK reg \in Reg :
        LET p == <<frame * PokesPerFrame + Len(emitted) + 1, reg>>
        IN  /\ emitted' = Append(emitted, p)
            /\ mem' = [mem EXCEPT ![scriptBuf] = RecordPoke(@, scriptLen, p)]
  BY DEF RecordSidWrite
<1> DEFINE p == <<frame * PokesPerFrame + Len(emitted) + 1, reg>>
<1>2. p \in Poke
  BY EmittedType
<1> HIDE DEF p
<1>3. /\ emitted' = Append(emitted, p)
      /\ mem' = [mem EXCEPT ![scriptBuf] = RecordPoke(mem[scriptBuf], scriptLen, p)]
  BY <1>1 DEF p
<1>4. /\ scriptBuf \in Buffer
      /\ scriptLen \in Slot
      /\ mem \in [Buffer -> Script]
      /\ mem[scriptBuf] \in Script
  BY DEF RecordSidWrite, TypeOK, MainOwns, Recording
<1>5. /\ RecordPoke(mem[scriptBuf], scriptLen, p) \in Script
      /\ scriptLen' \in Slot
  BY <1>2, <1>4, RecordPokeType DEF RecordSidWrite
<1>6. mem' \in [Buffer -> Script]
  BY <1>3, <1>4, <1>5
<1>7. emitted' \in Seq(Poke)
  BY <1>2, <1>3, AppendProperties DEF TypeOK
<1>8. UNCHANGED <<scriptBuf, mainPc, frame, maxFrames, interrupted, pool,
                 waiting, work, runNext, playPc, playBuf, playPos, last, dirty>>
  BY DEF RecordSidWrite
<1>9. TypeOK'
  BY <1>5, <1>6, <1>7, <1>8 DEF TypeOK
<1>10. ExclusiveOwner'
  BY <1>8 DEF ExclusiveOwner, InPool, InWork, Recorded, Played
<1>11. (MainOwns /\ PlayerOwns)'
  BY <1>8 DEF MainOwns, PlayerOwns
<1>12. EndAhead'
  <2>1. \A b \in Buffer : InWork(b) \/ Played(b) => b # scriptBuf
    BY DEF ExclusiveOwner, Recorded
  <2>2. \A b \in Buffer : b # scriptBuf => mem'[b] = mem[b]
    BY <1>3, <1>4
  <2>3. QED
    BY <2>1, <2>2, <1>8 DEF EndAhead, InWork, Played
<1>13. (ResetLast /\ MuteSoFar)'
  BY <1>8 DEF ResetLast, MuteSoFar, InPool, InWork, Played
<1>14. QED
  BY <1>9, <1>10, <1>11, <1>12, <1>13

(* recordEnd: used for the first script and for every frame.               *)
LEMMA FeedBufferIInv ==
  ASSUME IInv, mainPc \in Recording, FeedBuffer, mainPc' = "loop",
         frame' \in Nat, maxFrames' \in 0 .. FrameLimit
  PROVE  IInv'
<1> USE DEF IInv, FeedBuffer, playVars
<1>1. /\ scriptBuf \in Buffer
      /\ scriptLen \in Slot
      /\ mem \in [Buffer -> Script]
      /\ work \in Seq(Item)
      /\ scriptBuf \in Item
      /\ scriptBuf # ResetScript
      /\ ResetScript \in Item
  BY DEF TypeOK, MainOwns, Item, Buffer, ResetScript, Recording, NoBuf
<1>2. /\ MarkEnd(mem[scriptBuf], scriptLen) \in Script
      /\ MarkEnd(mem[scriptBuf], scriptLen)[scriptLen] = EndMarker
  <2>1. EndMarker \in Poke \cup {EndMarker}
    OBVIOUS
  <2>2. QED
    BY <1>1 DEF MarkEnd, Script
<1>3. /\ mem' \in [Buffer -> Script]
      /\ \E i \in Slot : mem'[scriptBuf][i] = EndMarker
      /\ \A b \in Buffer : b # scriptBuf => mem'[b] = mem[b]
  BY <1>1, <1>2
<1>4. /\ ~ InWork(scriptBuf)
      /\ ~ Played(scriptBuf)
      /\ ~ InPool(scriptBuf)
  BY <1>1 DEF ExclusiveOwner, Recorded
<1>5. /\ work' \in Seq(Item)
      /\ \A b \in Item : Holds(work', b) <=> Holds(work, b) \/ b = scriptBuf
      /\ NoDuplicate(work) => NoDuplicate(work')
  BY <1>1, <1>4, PushHolds DEF InWork
<1>6. Buffer \subseteq Item
  BY DEF Buffer, Item
<1>7. TypeOK'
  BY <1>3, <1>5, ScriptAssumption
     DEF TypeOK, Item, Slot, MainPc, NoBuf
<1>8. ExclusiveOwner'
  <2>1. NoBuf \notin Buffer
    BY DEF NoBuf, Buffer
  <2>2. QED
    BY <1>1, <1>4, <1>5, <1>6, <2>1
       DEF ExclusiveOwner, InPool, InWork, Recorded, Played
<1>9. (MainOwns /\ PlayerOwns)'
  BY DEF MainOwns, PlayerOwns, Recording
<1>10. EndAhead'
  BY <1>1, <1>3, <1>4, <1>5, <1>6 DEF EndAhead, InWork, Played
<1>11. ResetLast'
  <2>1. /\ ~ InWork(ResetScript)
        /\ ~ Played(ResetScript)
        /\ ~ InPool(ResetScript)
        /\ playPc # "done"
    BY DEF ResetLast, Recording
  <2>2. ~ InWork(ResetScript)'
    BY <2>1, <1>1, <1>5 DEF InWork
  <2>3. \A i \in DOMAIN work' : work'[i] # ResetScript
    BY <2>2 DEF InWork, Holds
  <2>4. QED
    BY <2>1, <2>2, <2>3 DEF ResetLast, InPool, InWork, Played
<1>12. MuteSoFar'
  BY DEF MuteSoFar, Played
<1>13. QED
  BY <1>7, <1>8, <1>9, <1>10, <1>11, <1>12

LEMMA FinishLoadIInv == IInv /\ FinishLoad => IInv'
  BY FeedBufferIInv DEF FinishLoad, IInv, TypeOK, Recording

LEMMA FinishFrameIInv == IInv /\ FinishFrame => IInv'
  BY FeedBufferIInv DEF FinishFrame, IInv, TypeOK, Recording

LEMMA ResetSIDIInv == IInv /\ ResetSID => IInv'
<1> SUFFICES ASSUME IInv, ResetSID
             PROVE  IInv'
  OBVIOUS
<1> USE DEF IInv, ResetSID, playVars
<1>1. /\ work \in Seq(Item)
      /\ ResetScript \in Item
      /\ ResetScript \notin Buffer
      /\ Buffer \subseteq Item
  BY DEF TypeOK, Item, Buffer, ResetScript
<1>2. /\ ~ InWork(ResetScript)
      /\ ~ Played(ResetScript)
      /\ ~ InPool(ResetScript)
      /\ playPc # "done"
  BY DEF ResetLast
<1>3. /\ work' \in Seq(Item)
      /\ \A b \in Item : Holds(work', b) <=> Holds(work, b) \/ b = ResetScript
      /\ NoDuplicate(work) => NoDuplicate(work')
      /\ DOMAIN work' = 1 .. Len(work) + 1
      /\ Len(work') = Len(work) + 1
      /\ \A i \in DOMAIN work : work'[i] = work[i]
      /\ DOMAIN work = 1 .. Len(work)
      /\ Len(work) \in Nat
  BY <1>1, <1>2, PushHolds, LenProperties DEF InWork
<1>4. TypeOK'
  BY <1>3 DEF TypeOK, Item, MainPc
<1>5. ExclusiveOwner'
  BY <1>1, <1>3 DEF ExclusiveOwner, InPool, InWork, Recorded, Played
<1>6. (MainOwns /\ PlayerOwns)'
  BY DEF MainOwns, PlayerOwns, Recording
<1>7. EndAhead'
  BY <1>1, <1>3 DEF EndAhead, InWork, Played
<1>8. ResetLast'
  <2>1. ASSUME NEW i \in DOMAIN work', work'[i] = ResetScript
        PROVE  i = Len(work')
    <3>1. i \notin DOMAIN work
      BY <2>1, <1>2, <1>3 DEF InWork, Holds
    <3>2. QED
      BY <3>1, <2>1, <1>3
  <2>2. PlayerOwns /\ playPc # "killed" /\ runNext
    BY <1>2 DEF PlayerOwns, ResetLast
  <2>3. QED
    BY <1>1, <1>2, <1>3, <2>1, <2>2 DEF ResetLast, InPool, InWork, Played
<1>9. MuteSoFar'
  BY DEF MuteSoFar, Played
<1>10. QED
  BY <1>4, <1>5, <1>6, <1>7, <1>8, <1>9

(* The steps of main that touch neither buffers nor queues.                *)
LEMMA MainControlIInv ==
  IInv /\ (WaitForBuffer \/ SpuriousWakeup \/ NextFrame \/ Join
             \/ LoadFails \/ Interrupt) => IInv'
<1> SUFFICES ASSUME IInv,
                    WaitForBuffer \/ SpuriousWakeup \/ NextFrame \/ Join
                      \/ LoadFails \/ Interrupt
             PROVE  IInv'
  OBVIOUS
<1> USE FallbackAssumption
        DEF IInv, mainVars, playVars, shared, TypeOK, ExclusiveOwner, MainOwns,
            PlayerOwns, EndAhead, ResetLast, MuteSoFar, InPool, InWork,
            Recorded, Played
<1>1. CASE WaitForBuffer
  BY <1>1 DEF WaitForBuffer
<1>2. CASE SpuriousWakeup
  BY <1>2 DEF SpuriousWakeup
<1>3. CASE NextFrame
  BY <1>3 DEF NextFrame, MainPc, Beginning, Recording
<1>4. CASE Join
  BY <1>4 DEF Join, MainPc, Recording
<1>5. CASE LoadFails
  BY <1>5 DEF LoadFails, MainPc, PlayPc, Recording
<1>6. CASE Interrupt
  BY <1>6 DEF Interrupt
<1>7. QED
  BY <1>1, <1>2, <1>3, <1>4, <1>5, <1>6
-----------------------------------------------------------------------------
(* Every action of the player preserves the invariant.                     *)

LEMMA PopBufferIInv == IInv /\ PopBuffer => IInv'
<1> SUFFICES ASSUME IInv, PopBuffer
             PROVE  IInv'
  OBVIOUS
<1> USE DEF IInv, PopBuffer, mainVars
<1>1. /\ work \in Seq(Item)
      /\ work # <<>>
      /\ Buffer \subseteq Item
      /\ ResetScript \in Item
      /\ ResetScript \notin Buffer
      /\ NoBuf \notin Item
      /\ Item = Buffer \cup {ResetScript}
  BY DEF TypeOK, Item, Buffer, ResetScript, NoBuf
<1> DEFINE h == Head(work)
<1>2. /\ h \in Item
      /\ h = work[1]
      /\ work' \in Seq(Item)
      /\ Len(work) \in Nat \ {0}
      /\ Len(work') = Len(work) - 1
      /\ DOMAIN work = 1 .. Len(work)
      /\ DOMAIN work' = 1 .. Len(work) - 1
      /\ \A i \in 1 .. Len(work) - 1 : work'[i] = work[i + 1]
      /\ \A b \in Item : Holds(work, b) <=> Holds(work', b) \/ b = h
      /\ NoDuplicate(work) => NoDuplicate(work') /\ ~ Holds(work', h)
  BY <1>1, PopHolds
<1>3. playBuf' = h /\ playPos' = 0 /\ playPc' = "play" /\ runNext' = (h # ResetScript)
  OBVIOUS
<1> HIDE DEF h
<1>4. playBuf = NoBuf /\ runNext /\ playPc = "poll"
  BY DEF PlayerOwns
<1>5. TypeOK'
  BY <1>2, <1>3 DEF TypeOK, Item, PlayPc
<1>6. ExclusiveOwner'
  BY <1>1, <1>2, <1>3, <1>4 DEF ExclusiveOwner, InPool, InWork, Recorded, Played
<1>7. (MainOwns /\ PlayerOwns)'
  BY <1>1, <1>2, <1>3, <1>4 DEF MainOwns, PlayerOwns
<1>8. EndAhead'
  <2>1. \A b \in Buffer : InWork(b)' => InWork(b)
    BY <1>1, <1>2 DEF InWork
  <2>2. h \in Buffer => InWork(h)
    BY <1>1, <1>2 DEF InWork
  <2>3. QED
    BY <1>3, <2>1, <2>2, ScriptAssumption DEF EndAhead, InWork, Played, Slot
<1>9. ResetLast'
  <2>1. CASE h = ResetScript
    <3>1. Len(work) = 1
      BY <2>1, <1>2 DEF ResetLast
    <3>2. work' = <<>>
      BY <3>1, <1>2, EmptySeq
    <3>3. ~ InWork(ResetScript)'
      BY <3>2 DEF InWork, Holds
    <3>4. InWork(ResetScript)
      BY <2>1, <1>1, <1>2 DEF InWork
    <3>5. \A i \in DOMAIN work' : work'[i] # ResetScript
      BY <3>3 DEF InWork, Holds
    <3>6. QED
      BY <2>1, <3>2, <3>3, <3>4, <3>5, <1>3, <1>4
         DEF ResetLast, InPool, InWork, Played
  <2>2. CASE h # ResetScript
    <3>1. InWork(ResetScript)' <=> InWork(ResetScript)
      BY <2>2, <1>1, <1>2 DEF InWork
    <3>2. \A i \in DOMAIN work' : work'[i] = ResetScript => i = Len(work')
      BY <1>2 DEF ResetLast
    <3>3. QED
      BY <2>2, <3>1, <3>2, <1>1, <1>3, <1>4
         DEF ResetLast, InPool, InWork, Played, NoBuf, ResetScript
  <2>3. QED
    BY <2>1, <2>2
<1>10. MuteSoFar'
  BY <1>3, ScriptAssumption DEF MuteSoFar, Played, ResetLen
<1>11. QED
  BY <1>5, <1>6, <1>7, <1>8, <1>9, <1>10

LEMMA PlayPokeIInv == IInv /\ PlayPoke => IInv'
<1> SUFFICES ASSUME IInv, PlayPoke
             PROVE  IInv'
  OBVIOUS
<1> USE ScriptAssumption DEF IInv, PlayPoke, mainVars, shared
<1>1. /\ playBuf \in Buffer
      /\ playBuf # ResetScript
      /\ playPos \in Slot
      /\ mem[playBuf] \in Script
      /\ mem[playBuf][playPos] # EndMarker
  BY DEF TypeOK, EndAhead, Played, Buffer, ResetScript
<1>2. PICK i \in playPos .. MaxEntries : mem[playBuf][i] = EndMarker
  BY <1>1 DEF EndAhead, Played
<1>3. /\ i # playPos
      /\ playPos + 1 \in Slot
      /\ i \in (playPos + 1) .. MaxEntries
  BY <1>1, <1>2 DEF Slot
<1>4. /\ last' \in Poke
      /\ last'[2] \in Reg
      /\ dirty' = dirty \cup {last'[2]}
  <2>1. mem[playBuf][playPos] \in Poke
    BY <1>1 DEF Script
  <2>2. QED
    BY <2>1 DEF Poke
<1>5. TypeOK'
  BY <1>3, <1>4 DEF TypeOK, Slot
<1>6. ExclusiveOwner'
  BY DEF ExclusiveOwner, InPool, InWork, Recorded, Played
<1>7. (MainOwns /\ PlayerOwns)'
  BY DEF MainOwns, PlayerOwns
<1>8. EndAhead'
  BY <1>2, <1>3 DEF EndAhead, InWork, Played
<1>9. ResetLast'
  BY DEF ResetLast, InPool, InWork, Played
<1>10. MuteSoFar'
  BY <1>1 DEF MuteSoFar, Played
<1>11. QED
  BY <1>5, <1>6, <1>7, <1>8, <1>9, <1>10

LEMMA PlayResetIInv == IInv /\ PlayReset => IInv'
<1> SUFFICES ASSUME IInv, PlayReset
             PROVE  IInv'
  OBVIOUS
<1> USE ScriptAssumption DEF IInv, PlayReset, mainVars, shared
<1>1. playBuf = ResetScript /\ playBuf \notin Buffer
  BY DEF ResetScript, Buffer
<1>2. TypeOK'
  BY DEF TypeOK
<1>3. ExclusiveOwner'
  BY DEF ExclusiveOwner, InPool, InWork, Recorded, Played
<1>4. (MainOwns /\ PlayerOwns)'
  BY DEF MainOwns, PlayerOwns
<1>5. EndAhead'
  BY <1>1 DEF EndAhead, InWork, Played
<1>6. ResetLast'
  BY DEF ResetLast, InPool, InWork, Played
<1>7. MuteSoFar'
  <2>1. /\ playPos \in Nat
        /\ ResetLen \in Nat
        /\ playPos + 1 <= ResetLen
    BY DEF TypeOK, ResetLen
  <2>2. \A i \in 0 .. playPos : ResetReg(i) \notin dirty'
    <3> SUFFICES ASSUME NEW i \in 0 .. playPos
                 PROVE  ResetReg(i) \notin dirty'
      OBVIOUS
    <3>1. CASE i = playPos
      BY <3>1
    <3>2. CASE i # playPos
      <4>1. i \in 0 .. (playPos - 1)
        BY <3>2, <2>1
      <4>2. QED
        BY <4>1, <1>1 DEF MuteSoFar, Played
    <3>3. QED
      BY <3>1, <3>2
  <2>3. playPos' - 1 = playPos
    BY <2>1
  <2>4. QED
    BY <2>1, <2>2, <2>3 DEF MuteSoFar, Played
<1>8. QED
  BY <1>2, <1>3, <1>4, <1>5, <1>6, <1>7

LEMMA ScriptEndIInv == IInv /\ ScriptEnd => IInv'
<1> SUFFICES ASSUME IInv, ScriptEnd
             PROVE  IInv'
  OBVIOUS
<1> USE DEF IInv, ScriptEnd, mainVars, shared
<1>1. playBuf = ResetScript => playPos = ResetLen
  OBVIOUS
<1>2. TypeOK'
  BY DEF TypeOK, PlayPc
<1>3. ExclusiveOwner'
  BY DEF ExclusiveOwner, InPool, InWork, Recorded, Played
<1>4. (MainOwns /\ PlayerOwns)'
  BY DEF MainOwns, PlayerOwns
<1>5. EndAhead'
  BY DEF EndAhead, InWork, Played
<1>6. ResetLast'
  BY DEF ResetLast, InPool, InWork, Played
<1>7. MuteSoFar'
  BY <1>1 DEF MuteSoFar, Played
<1>8. QED
  BY <1>2, <1>3, <1>4, <1>5, <1>6, <1>7

LEMMA YieldBufferIInv == IInv /\ YieldBuffer => IInv'
<1> SUFFICES ASSUME IInv, YieldBuffer
             PROVE  IInv'
  OBVIOUS
<1> USE DEF IInv, YieldBuffer, mainVars
<1>1. /\ pool \in Seq(Item)
      /\ playBuf \in Item
      /\ Buffer \subseteq Item
      /\ ResetScript \in Item
      /\ NoBuf \notin Item
      /\ playBuf' = NoBuf
  BY DEF TypeOK, PlayerOwns, Item, Buffer, ResetScript, NoBuf
<1>2. ~ InPool(playBuf)
  <2>1. playBuf \in Buffer => ~ InPool(playBuf)
    BY DEF ExclusiveOwner, Played
  <2>2. ~ InPool(ResetScript)
    BY DEF ResetLast
  <2>3. QED
    BY <2>1, <2>2, <1>1 DEF Item, Buffer
<1>3. /\ pool' \in Seq(Item)
      /\ \A b \in Item : Holds(pool', b) <=> Holds(pool, b) \/ b = playBuf
      /\ NoDuplicate(pool')
  BY <1>1, <1>2, PushHolds DEF InPool, ExclusiveOwner
<1>4. runNext <=> playBuf # ResetScript
  BY DEF ResetLast, Played
<1>5. TypeOK'
  BY <1>3 DEF TypeOK, Item, PlayPc, NoBuf
<1>6. ExclusiveOwner'
  BY <1>1, <1>3 DEF ExclusiveOwner, InPool, InWork, Recorded, Played
<1>7. (MainOwns /\ PlayerOwns)'
  BY <1>1 DEF MainOwns, PlayerOwns
<1>8. EndAhead'
  BY <1>1 DEF EndAhead, InWork, Played
<1>9. ResetLast'
  <2>1. CASE playBuf = ResetScript
    BY <2>1, <1>1, <1>3, <1>4 DEF ResetLast, InPool, InWork, Played
  <2>2. CASE playBuf # ResetScript
    BY <2>2, <1>1, <1>3, <1>4 DEF ResetLast, InPool, InWork, Played
  <2>3. QED
    BY <2>1, <2>2
<1>10. MuteSoFar'
  BY <1>1, <1>4 DEF MuteSoFar, Played
<1>11. QED
  BY <1>5, <1>6, <1>7, <1>8, <1>9, <1>10
-----------------------------------------------------------------------------
LEMMA NextIInv == IInv /\ [Next]_vars => IInv'
<1> SUFFICES ASSUME IInv, [Next]_vars
             PROVE  IInv'
  OBVIOUS
<1>1. CASE Main
  BY <1>1, FetchBufferIInv, FinishLoadIInv, FinishFrameIInv, ResetSIDIInv,
     MainControlIInv DEF Main
<1>2. CASE RecordSidWrite
  BY <1>2, RecordSidWriteIInv
<1>3. CASE LoadFails \/ SpuriousWakeup \/ Interrupt
  BY <1>3, MainControlIInv
<1>4. CASE Player
  BY <1>4, PopBufferIInv, PlayPokeIInv, PlayResetIInv, ScriptEndIInv,
     YieldBufferIInv DEF Player
<1>5. CASE UNCHANGED vars
  BY <1>5 DEF vars, mainVars, playVars, shared, IInv, TypeOK, ExclusiveOwner,
              MainOwns, PlayerOwns, EndAhead, ResetLast, MuteSoFar,
              InPool, InWork, Recorded, Played
<1>6. QED
  BY <1>1, <1>2, <1>3, <1>4, <1>5 DEF Next, Terminated

(* The invariant that ties ownership, queue order and reset together holds *)
(* in every behaviour, whatever the sizes of buffers and song.             *)
THEOREM Invariance == Spec => []IInv
  BY InitIInv, NextIInv, PTL DEF Spec

(* No variable of the two threads ever leaves its range.                   *)
THEOREM TypeCorrect == Spec => []TypeOK
<1>1. IInv => TypeOK
  BY DEF IInv
<1>2. QED
  BY <1>1, Invariance, PTL

(* fallback_handler.cpp:212: no script buffer is ever used by both threads *)
(* or lost, for every interleaving of main, player and ctrl-C.             *)
THEOREM ExclusiveOwnership == Spec => []ExclusiveOwner
<1>1. IInv => ExclusiveOwner
  BY DEF IInv
<1>2. QED
  BY <1>1, Invariance, PTL

(* ~FallbackHandler returns only after all recorded scripts and the reset  *)
(* script behind them were played.                                         *)
THEOREM MuteBeforeExit == Spec => []MutedAtExit
<1>1. IInv => MutedAtExit
  BY DEF IInv, MutedAtExit, ResetLast, MuteSoFar
<1>2. QED
  BY <1>1, Invariance, PTL

(* playScript never runs past the end of a script buffer.                  *)
THEOREM PlayInsideBuffer == Spec => []PlayedScriptEnds
<1>1. IInv => PlayedScriptEnds
  <2> SUFFICES ASSUME IInv, NEW b \in Buffer, Played(b) \/ InWork(b)
               PROVE  \E i \in Slot : mem[b][i] = EndMarker
    BY DEF PlayedScriptEnds
  <2>1. CASE InWork(b)
    BY <2>1 DEF IInv, EndAhead
  <2>2. CASE Played(b)
    <3>1. PICK i \in playPos .. MaxEntries : mem[b][i] = EndMarker
      BY <2>2 DEF IInv, EndAhead
    <3>2. i \in Slot
      BY <2>2, ScriptAssumption DEF IInv, EndAhead, Slot
    <3>3. QED
      BY <3>1, <3>2
  <2>3. QED
    BY <2>1, <2>2
<1>2. QED
  BY <1>1, Invariance, PTL
-----------------------------------------------------------------------------
(* Once the limit is set, ctrl-C clears it for good.                       *)
LateInv == interrupted = "late" => maxFrames = 0 /\ mainPc \notin {"begin", "load"}

LEMMA LateStep == LateInv /\ [Next]_vars => LateInv'
<1> SUFFICES ASSUME LateInv, [Next]_vars
             PROVE  LateInv'
  OBVIOUS
<1> USE DEF LateInv
<1>1. CASE Main
  BY <1>1 DEF Main, FetchBuffer, WaitForBuffer, FinishLoad, FinishFrame,
              NextFrame, ResetSID, Join, FeedBuffer, mainVars, Beginning
<1>2. CASE RecordSidWrite \/ LoadFails \/ SpuriousWakeup \/ Interrupt
  BY <1>2 DEF RecordSidWrite, LoadFails, SpuriousWakeup, Interrupt, mainVars
<1>3. CASE Player
  BY <1>3 DEF Player, PopBuffer, PlayPoke, PlayReset, ScriptEnd, YieldBuffer,
              mainVars
<1>4. CASE UNCHANGED vars
  BY <1>4 DEF vars, mainVars
<1>5. QED
  BY <1>1, <1>2, <1>3, <1>4 DEF Next, Terminated

(* main.cpp:187: after a ctrl-C the play loop ends at its next iteration,  *)
(* provided the signal came after the frame limit was set.                 *)
THEOREM InterruptHonoured == Spec => InterruptEndsLoop
<1>1. Init => LateInv
  BY DEF Init, LateInv
<1>2. TypeOK /\ LateInv /\ [Next]_vars =>
        [interrupted = "late" /\ mainPc = "loop" => mainPc' # "beginFrame"]_vars
  <2> SUFFICES ASSUME TypeOK, LateInv, [Next]_vars, interrupted = "late",
                      mainPc = "loop", ~ UNCHANGED vars
               PROVE  mainPc' # "beginFrame"
    OBVIOUS
  <2>1. ~ (frame < maxFrames)
    BY DEF TypeOK, LateInv
  <2>2. CASE NextFrame
    BY <2>1, <2>2 DEF NextFrame
  <2>3. CASE ~ NextFrame
    BY <2>3 DEF Next, Main, Player, Terminated, FetchBuffer, WaitForBuffer,
                FinishLoad, FinishFrame, ResetSID, Join, RecordSidWrite,
                LoadFails, SpuriousWakeup, Interrupt, PopBuffer, PlayPoke,
                PlayReset, ScriptEnd, YieldBuffer, mainVars, Beginning, Recording
  <2>4. QED
    BY <2>2, <2>3
<1>3. QED
  BY <1>1, <1>2, LateStep, TypeCorrect, PTL DEF Spec, InterruptEndsLoop
-----------------------------------------------------------------------------
(* What a script holds: its writes up to the first end marker.             *)

LEMMA StopUnique ==
  ASSUME NEW s \in Script, NEW i \in Slot, NEW n \in Slot, StopsAt(s, i, n)
  PROVE  n = CHOOSE k \in Slot : StopsAt(s, i, k)
<1> DEFINE k == CHOOSE j \in Slot : StopsAt(s, i, j)
<1>1. k \in Slot /\ StopsAt(s, i, k)
  OBVIOUS
<1> HIDE DEF k
<1>2. n \in Nat /\ k \in Nat /\ i \in Nat
  BY <1>1, ScriptAssumption DEF Slot
<1>3. ~ (n < k) /\ ~ (k < n)
  BY <1>1, <1>2 DEF StopsAt
<1>4. QED
  BY <1>2, <1>3 DEF k

(* Remaining lists the entries from the slot to the stop, all of them      *)
(* writes.                                                                 *)
LEMMA RemainingIs ==
  ASSUME NEW s \in Script, NEW i \in Slot, NEW n \in Slot, StopsAt(s, i, n)
  PROVE  /\ Remaining(s, i) \in Seq(Poke)
         /\ Len(Remaining(s, i)) = n - i
         /\ \A j \in 1 .. n - i : Remaining(s, i)[j] = s[i + j - 1]
<1> DEFINE f == [k \in 1 .. MaxEntries |-> s[k - 1]]
<1>1. Remaining(s, i) = SubSeq(f, i + 1, n)
  BY StopUnique DEF Remaining
<1>2. /\ i \in Nat /\ n \in Nat /\ MaxEntries \in Nat
      /\ i <= n /\ n <= MaxEntries
  BY ScriptAssumption DEF Slot, StopsAt
<1>3. \A k \in (i + 1) .. n : f[k] = s[k - 1] /\ f[k] \in Poke
  <2> SUFFICES ASSUME NEW k \in (i + 1) .. n
               PROVE  f[k] = s[k - 1] /\ f[k] \in Poke
    OBVIOUS
  <2>1. k \in 1 .. MaxEntries /\ k - 1 \in Slot /\ k - 1 \in i .. (n - 1)
    BY <1>2 DEF Slot
  <2>2. s[k - 1] # EndMarker
    BY <2>1 DEF StopsAt
  <2>3. QED
    BY <2>1, <2>2 DEF Script
<1> HIDE DEF f
<1>4. /\ SubSeq(f, i + 1, n) \in Seq(Poke)
      /\ Len(SubSeq(f, i + 1, n)) = IF i + 1 <= n THEN n - (i + 1) + 1 ELSE 0
      /\ \A j \in 1 .. n - (i + 1) + 1 : SubSeq(f, i + 1, n)[j] = f[i + 1 + j - 1]
  BY <1>2, <1>3, SubSeqProperties
<1>5. Len(SubSeq(f, i + 1, n)) = n - i
  BY <1>2, <1>4
<1>6. ASSUME NEW j \in 1 .. n - i
      PROVE  SubSeq(f, i + 1, n)[j] = s[i + j - 1]
  <2>1. /\ j \in 1 .. n - (i + 1) + 1
        /\ i + 1 + j - 1 = i + j
        /\ i + j \in (i + 1) .. n
    BY <1>2
  <2>2. SubSeq(f, i + 1, n)[j] = f[i + j]
    BY <2>1, <1>4
  <2>3. f[i + j] = s[(i + j) - 1]
    BY <2>1, <1>3
  <2>4. QED
    BY <2>2, <2>3, <1>2
<1>7. QED
  BY <1>1, <1>4, <1>5, <1>6

(* Nothing remains at an end marker.                                       *)
LEMMA RemainingEmpty ==
  ASSUME NEW s \in Script, NEW i \in Slot, s[i] = EndMarker
  PROVE  StopsAt(s, i, i) /\ Remaining(s, i) = <<>>
<1>1. StopsAt(s, i, i)
  BY ScriptAssumption DEF StopsAt, Slot
<1>2. i - i = 0
  BY ScriptAssumption DEF Slot
<1>3. QED
  BY <1>1, <1>2, RemainingIs, EmptySeq

(* At a write, it is the first thing that remains.                         *)
LEMMA RemainingStep ==
  ASSUME NEW s \in Script, NEW i \in Slot, NEW n \in Slot, StopsAt(s, i, n),
         s[i] # EndMarker
  PROVE  /\ i + 1 \in Slot
         /\ s[i] \in Poke
         /\ StopsAt(s, i + 1, n)
         /\ Remaining(s, i) # <<>>
         /\ Head(Remaining(s, i)) = s[i]
         /\ Tail(Remaining(s, i)) = Remaining(s, i + 1)
<1>1. /\ i \in Nat /\ n \in Nat /\ MaxEntries \in Nat
      /\ i < n /\ n <= MaxEntries
  BY ScriptAssumption DEF Slot, StopsAt
<1>2. i + 1 \in Slot /\ s[i] \in Poke
  BY <1>1 DEF Slot, Script
<1>3. StopsAt(s, i + 1, n)
  BY <1>1 DEF StopsAt
<1> DEFINE q == Remaining(s, i)
           r == Remaining(s, i + 1)
<1>4. /\ q \in Seq(Poke)
      /\ Len(q) = n - i
      /\ \A j \in 1 .. n - i : q[j] = s[i + j - 1]
  BY RemainingIs
<1>5. /\ r \in Seq(Poke)
      /\ Len(r) = n - (i + 1)
      /\ \A j \in 1 .. n - (i + 1) : r[j] = s[i + 1 + j - 1]
  BY <1>2, <1>3, RemainingIs
<1> HIDE DEF q, r
<1>6. q # <<>>
  BY <1>1, <1>4, EmptySeq
<1>7. Head(q) = s[i]
  <2>1. Head(q) = q[1] /\ 1 \in 1 .. n - i /\ i + 1 - 1 = i
    BY <1>1, <1>4, <1>6
  <2>2. QED
    BY <2>1, <1>4
<1>8. /\ Tail(q) \in Seq(Poke)
      /\ Len(Tail(q)) = Len(q) - 1
      /\ \A j \in 1 .. Len(Tail(q)) : Tail(q)[j] = q[j + 1]
  BY <1>4, <1>6, HeadTailProperties
<1>9. Len(Tail(q)) = Len(r)
  BY <1>1, <1>4, <1>5, <1>8
<1>10. ASSUME NEW j \in 1 .. Len(Tail(q))
       PROVE  Tail(q)[j] = r[j]
  <2>1. /\ j \in 1 .. n - (i + 1)
        /\ j + 1 \in 1 .. n - i
        /\ i + (j + 1) - 1 = i + 1 + j - 1
    BY <1>1, <1>4, <1>8
  <2>2. QED
    BY <2>1, <1>4, <1>5, <1>8
<1>11. Tail(q) = r
  BY <1>5, <1>8, <1>9, <1>10, SeqEqual
<1>12. QED
  BY <1>2, <1>3, <1>6, <1>7, <1>11 DEF q, r
-----------------------------------------------------------------------------
(* The contents of the buffers: ContentInv, on top of IInv.                *)

LEMMA PokeIsNoEnd == EndMarker \notin Poke
  BY DEF EndMarker, Poke

(* recordEnd puts the end marker right behind what the emulator wrote.     *)
LEMMA FeedStops ==
  ASSUME IInv, RecordedSoFar, mainPc \in Recording, FeedBuffer
  PROVE  /\ scriptBuf \in Buffer
         /\ mem' \in [Buffer -> Script]
         /\ \A b \in Buffer : b # scriptBuf => mem'[b] = mem[b]
         /\ scriptLen \in Slot
         /\ StopsAt(mem'[scriptBuf], 0, scriptLen)
         /\ \A i \in 0 .. (scriptLen - 1) : mem'[scriptBuf][i] = emitted[i + 1]
<1>1. /\ scriptBuf \in Buffer
      /\ scriptLen \in Slot
      /\ mem \in [Buffer -> Script]
      /\ emitted \in Seq(Poke)
  BY DEF IInv, TypeOK, MainOwns, Recording, NoBuf
<1> DEFINE s == mem[scriptBuf]
           t == mem'[scriptBuf]
<1>2. s \in Script
  BY <1>1
<1>3. t = MarkEnd(s, scriptLen)
  BY <1>1 DEF FeedBuffer
<1>4. /\ t \in Script
      /\ t[scriptLen] = EndMarker
      /\ \A i \in Slot : i # scriptLen => t[i] = s[i]
  BY <1>1, <1>2, <1>3 DEF MarkEnd, Script
<1>5. /\ mem' \in [Buffer -> Script]
      /\ \A b \in Buffer : b # scriptBuf => mem'[b] = mem[b]
  BY <1>1, <1>3, <1>4 DEF FeedBuffer
<1>6. /\ Len(emitted) \in Nat
      /\ MaxEntries \in Nat
      /\ scriptLen \in Nat
      /\ scriptLen <= Len(emitted)
      /\ scriptLen <= MaxEntries
  BY <1>1, ScriptAssumption, LenProperties DEF RecordedSoFar, Slot
<1>7. ASSUME NEW i \in 0 .. (scriptLen - 1)
      PROVE  t[i] = emitted[i + 1] /\ t[i] # EndMarker
  <2>1. i \in Slot /\ i # scriptLen /\ i + 1 \in 1 .. Len(emitted)
    BY <1>6 DEF Slot
  <2>2. t[i] = emitted[i + 1]
    BY <2>1, <1>4 DEF RecordedSoFar
  <2>3. emitted[i + 1] \in Poke
    BY <2>1, <1>1, ElementOfSeq
  <2>4. QED
    BY <2>2, <2>3, PokeIsNoEnd
<1>8. StopsAt(t, 0, scriptLen)
  BY <1>4, <1>6, <1>7 DEF StopsAt
<1>9. QED
  BY <1>1, <1>5, <1>7, <1>8

LEMMA FeedContent ==
  ASSUME IInv, IInv', ContentInv, mainPc \in Recording, FeedBuffer,
         mainPc' = "loop"
  PROVE  ContentInv'
<1> USE DEF ContentInv, playVars
<1>1. /\ scriptBuf \in Buffer
      /\ \A b \in Buffer : b # scriptBuf => mem'[b] = mem[b]
      /\ scriptLen \in Slot
      /\ StopsAt(mem'[scriptBuf], 0, scriptLen)
  BY FeedStops
<1>2. work \in Seq(Item) /\ scriptBuf \in Item /\ Buffer \subseteq Item
  BY <1>1 DEF IInv, TypeOK, Item, Buffer, ResetScript
<1>3. \A b \in Item : Holds(work', b) <=> Holds(work, b) \/ b = scriptBuf
  BY <1>2, PushHolds DEF FeedBuffer
<1>4. ~ InWork(scriptBuf) /\ ~ Played(scriptBuf)
  BY <1>1 DEF IInv, ExclusiveOwner, Recorded
<1>5. StopKnown'
  BY <1>1, <1>2, <1>3, <1>4 DEF StopKnown, FeedBuffer, InWork, Played
<1>6. (RecordedSoFar /\ IdleAtFirst)'
  BY DEF RecordedSoFar, IdleAtFirst, Recording
<1>7. QED
  BY <1>5, <1>6

LEMMA RecordContent == IInv /\ ContentInv /\ RecordSidWrite => ContentInv'
<1> SUFFICES ASSUME IInv, ContentInv, RecordSidWrite
             PROVE  ContentInv'
  OBVIOUS
<1> USE DEF ContentInv, playVars
<1>1. PICK reg \in Reg :
        LET p == <<frame * PokesPerFrame + Len(emitted) + 1, reg>>
        IN  /\ emitted' = Append(emitted, p)
            /\ mem' = [mem EXCEPT ![scriptBuf] = RecordPoke(@, scriptLen, p)]
  BY DEF RecordSidWrite
<1> DEFINE p == <<frame * PokesPerFrame + Len(emitted) + 1, reg>>
<1>2. p \in Poke
  BY EmittedType DEF IInv
<1> HIDE DEF p
<1>3. /\ emitted' = Append(emitted, p)
      /\ mem' = [mem EXCEPT ![scriptBuf] = RecordPoke(mem[scriptBuf], scriptLen, p)]
  BY <1>1 DEF p
<1>4. /\ scriptBuf \in Buffer
      /\ scriptLen \in Slot
      /\ mem \in [Buffer -> Script]
      /\ mem[scriptBuf] \in Script
      /\ emitted \in Seq(Poke)
      /\ Len(emitted) \in Nat
  BY LenProperties DEF IInv, RecordSidWrite, TypeOK, MainOwns, Recording, NoBuf
<1>5. /\ Len(emitted') = Len(emitted) + 1
      /\ emitted'[Len(emitted) + 1] = p
      /\ \A i \in 1 .. Len(emitted) : emitted'[i] = emitted[i]
  BY <1>2, <1>3, <1>4, AppendProperties
<1>6. /\ mem'[scriptBuf] = RecordPoke(mem[scriptBuf], scriptLen, p)
      /\ \A b \in Buffer : b # scriptBuf => mem'[b] = mem[b]
  BY <1>3, <1>4
<1>7. /\ scriptLen' = RecordLen(scriptLen)
      /\ mainPc \in Recording
      /\ UNCHANGED <<scriptBuf, mainPc, work, playPc, playBuf, playPos>>
  BY DEF RecordSidWrite
<1>8. /\ scriptLen = IF Len(emitted) < MaxEntries THEN Len(emitted) ELSE MaxEntries
      /\ \A i \in 0 .. (scriptLen - 1) : mem[scriptBuf][i] = emitted[i + 1]
  BY <1>7 DEF RecordedSoFar
<1>9. RecordedSoFar'
  <2>1. CASE Len(emitted) < MaxEntries
    <3>1. /\ scriptLen' = Len(emitted) + 1
          /\ scriptLen = Len(emitted)
          /\ mem'[scriptBuf] = [mem[scriptBuf] EXCEPT ![scriptLen] = p]
      BY <2>1, <1>6, <1>7, <1>8 DEF RecordLen, RecordPoke, Fits
    <3>2. ASSUME NEW i \in 0 .. (scriptLen' - 1)
          PROVE  mem'[scriptBuf][i] = emitted'[i + 1]
      <4>1. i \in Slot /\ i + 1 \in 1 .. Len(emitted) + 1
        BY <2>1, <3>1, <1>4, ScriptAssumption DEF Slot
      <4>2. CASE i = scriptLen
        BY <4>1, <4>2, <3>1, <1>4, <1>5 DEF Script
      <4>3. CASE i # scriptLen
        <5>1. i \in 0 .. (scriptLen - 1) /\ i + 1 \in 1 .. Len(emitted)
          BY <4>3, <3>1, <1>4
        <5>2. mem'[scriptBuf][i] = mem[scriptBuf][i]
          BY <4>1, <4>3, <3>1, <1>4 DEF Script
        <5>3. QED
          BY <5>1, <5>2, <1>5, <1>8
      <4>4. QED
        BY <4>2, <4>3
    <3>3. scriptLen' = IF Len(emitted') < MaxEntries THEN Len(emitted')
                                                      ELSE MaxEntries
      BY <2>1, <3>1, <1>4, <1>5, ScriptAssumption
    <3>4. QED
      BY <3>2, <3>3, <1>7 DEF RecordedSoFar
  <2>2. CASE ~ (Len(emitted) < MaxEntries)
    <3>1. /\ scriptLen' = MaxEntries
          /\ scriptLen = MaxEntries
          /\ mem'[scriptBuf] = mem[scriptBuf]
      BY <2>2, <1>4, <1>6, <1>7, <1>8, ScriptAssumption
         DEF RecordLen, RecordPoke, Fits
    <3>2. ASSUME NEW i \in 0 .. (scriptLen' - 1)
          PROVE  mem'[scriptBuf][i] = emitted'[i + 1]
      <4>1. i \in 0 .. (scriptLen - 1) /\ i + 1 \in 1 .. Len(emitted)
        BY <2>2, <3>1, <1>4, ScriptAssumption
      <4>2. QED
        BY <4>1, <3>1, <1>5, <1>8
    <3>3. ~ (Len(emitted') < MaxEntries)
      BY <2>2, <1>4, <1>5, ScriptAssumption
    <3>4. QED
      BY <3>1, <3>2, <3>3, <1>7 DEF RecordedSoFar
  <2>3. QED
    BY <2>1, <2>2
<1>10. StopKnown'
  <2>1. \A b \in Buffer : InWork(b) \/ Played(b) => b # scriptBuf
    BY DEF IInv, ExclusiveOwner, Recorded
  <2>2. QED
    BY <2>1, <1>6, <1>7 DEF StopKnown, InWork, Played
<1>11. IdleAtFirst'
  BY <1>7 DEF IdleAtFirst
<1>12. QED
  BY <1>9, <1>10, <1>11

LEMMA MainContent ==
  IInv /\ IInv' /\ ContentInv
    /\ (Main \/ LoadFails \/ SpuriousWakeup \/ Interrupt) => ContentInv'
<1> SUFFICES ASSUME IInv, IInv', ContentInv,
                    Main \/ LoadFails \/ SpuriousWakeup \/ Interrupt
             PROVE  ContentInv'
  OBVIOUS
<1>1. CASE FetchBuffer
  <2>1. RecordedSoFar'
    BY <1>1, ScriptAssumption, EmptySeq DEF FetchBuffer, RecordedSoFar
  <2>2. (StopKnown /\ IdleAtFirst)'
    BY <1>1 DEF ContentInv, FetchBuffer, StopKnown, IdleAtFirst, InWork, Played,
                playVars, Beginning
  <2>3. QED
    BY <2>1, <2>2 DEF ContentInv
<1>2. CASE FinishLoad \/ FinishFrame
  BY <1>2, FeedContent DEF FinishLoad, FinishFrame, Recording
<1>3. CASE ResetSID
  <2>1. /\ work \in Seq(Item) /\ ResetScript \in Item
        /\ Buffer \subseteq Item /\ ResetScript \notin Buffer
    BY DEF IInv, TypeOK, Item, Buffer, ResetScript
  <2>2. \A b \in Buffer : InWork(b)' => InWork(b)
    BY <1>3, <2>1, PushHolds DEF ResetSID, InWork
  <2>3. QED
    BY <1>3, <2>2 DEF ResetSID, ContentInv, RecordedSoFar, StopKnown, Played,
                      IdleAtFirst, Recording, playVars
<1>4. CASE WaitForBuffer \/ SpuriousWakeup \/ Interrupt \/ NextFrame \/ Join
             \/ LoadFails
  BY <1>4 DEF WaitForBuffer, SpuriousWakeup, Interrupt, NextFrame, Join,
              LoadFails, mainVars, playVars, shared, ContentInv, RecordedSoFar,
              StopKnown, IdleAtFirst, InWork, Played, Recording, IInv, PlayerOwns
<1>5. QED
  BY <1>1, <1>2, <1>3, <1>4 DEF Main

LEMMA PlayerContent == IInv /\ IInv' /\ ContentInv /\ Player => ContentInv'
<1> SUFFICES ASSUME IInv, IInv', ContentInv, Player
             PROVE  ContentInv'
  OBVIOUS
<1>0. UNCHANGED <<mem, scriptBuf, scriptLen, emitted, mainPc>>
  BY DEF Player, PopBuffer, PlayPoke, PlayReset, ScriptEnd, YieldBuffer,
         mainVars, shared
<1>1. RecordedSoFar'
  BY <1>0 DEF ContentInv, RecordedSoFar
<1>2. CASE PopBuffer
  <2>1. work \in Seq(Item) /\ work # <<>> /\ Buffer \subseteq Item
    BY <1>2 DEF PopBuffer, IInv, TypeOK, Item, Buffer
  <2>2. /\ Head(work) \in Item
        /\ Holds(work, Head(work))
        /\ \A b \in Item : Holds(Tail(work), b) => Holds(work, b)
    BY <2>1, PopHolds
  <2>3. StopKnown'
    BY <1>0, <1>2, <2>1, <2>2 DEF PopBuffer, ContentInv, StopKnown, InWork, Played
  <2>4. IdleAtFirst'
    BY <1>0, <1>2 DEF PopBuffer, ContentInv, IdleAtFirst
  <2>5. QED
    BY <1>1, <2>3, <2>4 DEF ContentInv
<1>3. CASE PlayPoke
  <2>1. /\ playBuf \in Buffer /\ playPos \in Slot /\ mem[playBuf] \in Script
        /\ mem[playBuf][playPos] # EndMarker
    BY <1>3 DEF PlayPoke, IInv, TypeOK, EndAhead, Played
  <2>2. PICK n \in Slot : StopsAt(mem[playBuf], playPos, n)
    BY <2>1 DEF ContentInv, StopKnown, Played
  <2>3. StopsAt(mem[playBuf], playPos + 1, n)
    BY <2>1, <2>2, RemainingStep
  <2>4. QED
    BY <1>0, <1>1, <1>3, <2>2, <2>3
       DEF PlayPoke, ContentInv, StopKnown, IdleAtFirst, InWork, Played, shared
<1>4. CASE PlayReset
  <2>1. playBuf \notin Buffer
    BY <1>4 DEF PlayReset, ResetScript, Buffer
  <2>2. QED
    BY <1>0, <1>1, <1>4, <2>1
       DEF PlayReset, ContentInv, StopKnown, IdleAtFirst, InWork, Played, shared
<1>5. CASE ScriptEnd
  <2>1. playBuf \in Buffer => mem[playBuf][playPos] = EndMarker
    BY <1>5 DEF ScriptEnd, ResetScript, Buffer
  <2>2. QED
    BY <1>0, <1>1, <1>5, <2>1
       DEF ScriptEnd, ContentInv, StopKnown, IdleAtFirst, InWork, Played, shared
<1>6. CASE YieldBuffer
  <2>1. NoBuf \notin Buffer
    BY DEF NoBuf, Buffer
  <2>2. QED
    BY <1>0, <1>1, <1>6, <2>1
       DEF YieldBuffer, ContentInv, StopKnown, IdleAtFirst, InWork, Played
<1>7. QED
  BY <1>2, <1>3, <1>4, <1>5, <1>6 DEF Player

(* What is in the buffers is known in every behaviour.                     *)
THEOREM ContentInvariance == Spec => []ContentInv
<1>1. Init => ContentInv
  BY DEF Init, ContentInv, RecordedSoFar, StopKnown, IdleAtFirst, InWork, Holds,
         Played, NoBuf, Buffer, Recording
<1>2. IInv /\ IInv' /\ ContentInv /\ [Next]_vars => ContentInv'
  <2>1. UNCHANGED vars /\ ContentInv => ContentInv'
    BY DEF vars, mainVars, playVars, shared, ContentInv, RecordedSoFar,
           StopKnown, IdleAtFirst, InWork, Played
  <2>2. QED
    BY <2>1, RecordContent, MainContent, PlayerContent DEF Next, Terminated
<1>3. QED
  BY <1>1, <1>2, Invariance, PTL DEF Spec

(* recordEnd: the script that is handed over holds what the emulator wrote *)
(* since recordBegin, in that order and cut at MAX_ENTRIES, whatever the   *)
(* buffer held before.                                                     *)
THEOREM RecordsFaithfully == Spec => FedAsRecorded
<1> DEFINE Cut == IF Len(emitted) < MaxEntries THEN Len(emitted) ELSE MaxEntries
           Faithful == \A b \in Buffer : Recorded(b) /\ InWork(b)' =>
                         Remaining(mem'[b], 0) = SubSeq(emitted, 1, Cut)
<1>1. IInv /\ IInv' /\ ContentInv /\ [Next]_vars => [Faithful]_vars
  <2> SUFFICES ASSUME IInv, IInv', ContentInv, Next,
                      NEW b \in Buffer, Recorded(b), InWork(b)'
               PROVE  Remaining(mem'[b], 0) = SubSeq(emitted, 1, Cut)
    OBVIOUS
  <2>1. ~ InWork(b) /\ scriptBuf = b /\ b # NoBuf /\ b \in Item /\ b # ResetScript
    BY DEF IInv, ExclusiveOwner, Recorded, Buffer, NoBuf, Item, ResetScript
  <2>2. work \in Seq(Item) /\ ResetScript \in Item
    BY DEF IInv, TypeOK, Item
  <2>3. mainPc \in Recording /\ FeedBuffer
    <3>1. CASE ResetSID
      <4>1. Holds(work', b) => Holds(work, b)
        BY <2>1, <2>2, <3>1, PushHolds DEF ResetSID
      <4>2. QED
        BY <2>1, <4>1 DEF InWork
    <3>2. CASE PopBuffer
      <4>1. Holds(work', b) => Holds(work, b)
        BY <2>1, <2>2, <3>2, PopHolds DEF PopBuffer
      <4>2. QED
        BY <2>1, <4>1 DEF InWork
    <3>3. CASE FinishLoad \/ FinishFrame
      BY <3>3 DEF FinishLoad, FinishFrame, Recording
    <3>4. CASE work' = work
      BY <2>1, <3>4 DEF InWork
    <3>5. QED
      BY <3>1, <3>2, <3>3, <3>4
         DEF Next, Main, Player, Terminated, FetchBuffer, WaitForBuffer,
             NextFrame, Join, RecordSidWrite, LoadFails, SpuriousWakeup,
             Interrupt, PlayPoke, PlayReset, ScriptEnd, YieldBuffer, vars, shared
  <2>4. /\ mem'[b] \in Script
        /\ scriptLen \in Slot
        /\ StopsAt(mem'[b], 0, scriptLen)
        /\ \A i \in 0 .. (scriptLen - 1) : mem'[b][i] = emitted[i + 1]
    BY <2>1, <2>3, FeedStops DEF ContentInv
  <2>5. /\ scriptLen = Cut
        /\ scriptLen \in Nat
        /\ scriptLen <= Len(emitted)
        /\ Len(emitted) \in Nat
        /\ emitted \in Seq(Poke)
    BY <2>3, <2>4, ScriptAssumption, LenProperties
       DEF ContentInv, RecordedSoFar, IInv, TypeOK, Slot
  <2> HIDE DEF Cut
  <2> DEFINE r == Remaining(mem'[b], 0)
             q == SubSeq(emitted, 1, Cut)
  <2>6. /\ r \in Seq(Poke)
        /\ Len(r) = scriptLen - 0
        /\ \A j \in 1 .. scriptLen - 0 : r[j] = mem'[b][0 + j - 1]
    <3>1. 0 \in Slot
      BY ScriptAssumption DEF Slot
    <3>2. QED
      BY <2>4, <3>1, RemainingIs
  <2>7. \A j \in 1 .. scriptLen : emitted[j] \in Poke
    BY <2>5, ElementOfSeq
  <2>8. /\ q \in Seq(Poke)
        /\ Len(q) = IF 1 <= Cut THEN Cut - 1 + 1 ELSE 0
        /\ \A j \in 1 .. Cut - 1 + 1 : q[j] = emitted[1 + j - 1]
    BY <2>5, <2>7, SubSeqProperties
  <2> HIDE DEF r, q
  <2>9. Len(r) = Len(q)
    BY <2>5, <2>6, <2>8
  <2>10. ASSUME NEW j \in 1 .. Len(r)
         PROVE  r[j] = q[j]
    <3>1. /\ j \in 1 .. scriptLen - 0 /\ j \in 1 .. Cut - 1 + 1
          /\ j - 1 \in 0 .. (scriptLen - 1)
          /\ 0 + j - 1 = j - 1 /\ 1 + j - 1 = j /\ (j - 1) + 1 = j
      BY <2>5, <2>6
    <3>2. QED
      BY <3>1, <2>4, <2>6, <2>8
  <2>11. r = q
    BY <2>6, <2>8, <2>9, <2>10, SeqEqual
  <2>12. QED
    BY <2>11 DEF r, q
<1>2. QED
  BY <1>1, Invariance, ContentInvariance, PTL DEF Spec, FedAsRecorded
-----------------------------------------------------------------------------
(* The refinement of SidChannel.                                           *)

LEMMA HeadTailOfConcat ==
  ASSUME NEW S, NEW s \in Seq(S), NEW t \in Seq(S), s # <<>>
  PROVE  /\ s \o t # <<>>
         /\ Head(s \o t) = Head(s)
         /\ Tail(s \o t) = Tail(s) \o t
<1> DEFINE u == s \o t
           v == Tail(s) \o t
<1>1. /\ u \in Seq(S)
      /\ Len(u) = Len(s) + Len(t)
      /\ \A i \in 1 .. Len(s) + Len(t) :
           u[i] = IF i <= Len(s) THEN s[i] ELSE t[i - Len(s)]
  BY ConcatProperties
<1>2. /\ Len(s) \in Nat /\ Len(s) # 0 /\ Len(t) \in Nat
      /\ Tail(s) \in Seq(S)
      /\ Len(Tail(s)) = Len(s) - 1
      /\ \A i \in 1 .. Len(Tail(s)) : Tail(s)[i] = s[i + 1]
  BY LenProperties, EmptySeq, HeadTailProperties
<1>3. /\ v \in Seq(S)
      /\ Len(v) = Len(Tail(s)) + Len(t)
      /\ \A i \in 1 .. Len(Tail(s)) + Len(t) :
           v[i] = IF i <= Len(Tail(s)) THEN Tail(s)[i] ELSE t[i - Len(Tail(s))]
  BY <1>2, ConcatProperties
<1> HIDE DEF u, v
<1>4. u # <<>>
  BY <1>1, <1>2, EmptySeq
<1>5. Head(u) = Head(s)
  <2>1. Head(u) = u[1] /\ Head(s) = s[1] /\ 1 \in 1 .. Len(s) + Len(t) /\ 1 <= Len(s)
    BY <1>1, <1>2, <1>4
  <2>2. QED
    BY <2>1, <1>1
<1>6. /\ Tail(u) \in Seq(S)
      /\ Len(Tail(u)) = Len(u) - 1
      /\ \A i \in 1 .. Len(Tail(u)) : Tail(u)[i] = u[i + 1]
  BY <1>1, <1>4, HeadTailProperties
<1>7. Len(Tail(u)) = Len(v)
  BY <1>1, <1>2, <1>3, <1>6
<1>8. ASSUME NEW i \in 1 .. Len(Tail(u))
      PROVE  Tail(u)[i] = v[i]
  <2>1. /\ i \in Nat
        /\ i + 1 \in 1 .. Len(s) + Len(t)
        /\ i \in 1 .. Len(Tail(s)) + Len(t)
        /\ i + 1 <= Len(s) <=> i <= Len(Tail(s))
        /\ i <= Len(Tail(s)) => i \in 1 .. Len(Tail(s))
        /\ (i + 1) - Len(s) = i - Len(Tail(s))
    BY <1>1, <1>2, <1>3, <1>6
  <2>2. Tail(u)[i] = IF i + 1 <= Len(s) THEN s[i + 1] ELSE t[(i + 1) - Len(s)]
    BY <2>1, <1>1, <1>6
  <2>3. v[i] = IF i <= Len(Tail(s)) THEN Tail(s)[i] ELSE t[i - Len(Tail(s))]
    BY <2>1, <1>3
  <2>4. QED
    BY <2>1, <2>2, <2>3, <1>2
<1>9. Tail(u) = v
  BY <1>3, <1>6, <1>7, <1>8, SeqEqual
<1>10. QED
  BY <1>4, <1>5, <1>9 DEF u, v

LEMMA PrefixOfConcat ==
  ASSUME NEW S, NEW s \in Seq(S), NEW t \in Seq(S)
  PROVE  s \o t \in Seq(S) /\ Channel!IsPrefix(s, s \o t)
<1> DEFINE u == s \o t
           p == SubSeq(s, 1, Len(s))
           q == SubSeq(u, 1, Len(s))
<1>1. /\ u \in Seq(S)
      /\ Len(u) = Len(s) + Len(t)
      /\ \A i \in 1 .. Len(s) + Len(t) :
           u[i] = IF i <= Len(s) THEN s[i] ELSE t[i - Len(s)]
  BY ConcatProperties
<1>2. Len(s) \in Nat /\ Len(t) \in Nat
  BY LenProperties
<1>3. \A i \in 1 .. Len(s) : u[i] = s[i] /\ s[i] \in S
  BY <1>1, <1>2, ElementOfSeq
<1> HIDE DEF u
<1>4. /\ p \in Seq(S)
      /\ Len(p) = IF 1 <= Len(s) THEN Len(s) - 1 + 1 ELSE 0
      /\ \A i \in 1 .. Len(s) - 1 + 1 : p[i] = s[1 + i - 1]
  BY <1>2, <1>3, SubSeqProperties
<1>5. /\ q \in Seq(S)
      /\ Len(q) = IF 1 <= Len(s) THEN Len(s) - 1 + 1 ELSE 0
      /\ \A i \in 1 .. Len(s) - 1 + 1 : q[i] = u[1 + i - 1]
  BY <1>2, <1>3, SubSeqProperties
<1> HIDE DEF p, q
<1>6. Len(p) = Len(s) /\ Len(q) = Len(s)
  BY <1>2, <1>4, <1>5
<1>7. ASSUME NEW i \in 1 .. Len(p)
      PROVE  p[i] = q[i]
  <2>1. i \in 1 .. Len(s) /\ i \in 1 .. Len(s) - 1 + 1 /\ 1 + i - 1 = i
    BY <1>2, <1>6
  <2>2. QED
    BY <2>1, <1>3, <1>4, <1>5
<1>8. p = q
  BY <1>4, <1>5, <1>6, <1>7, SeqEqual
<1>9. Len(s) <= Len(u)
  BY <1>1, <1>2
<1>10. QED
  BY <1>1, <1>8, <1>9 DEF Channel!IsPrefix, p, q, u

(* Every part of PendingWrites is a sequence of writes.                    *)
LEMMA PartsTyped ==
  ASSUME IInv, ContentInv
  PROVE  /\ Playing \in Seq(Poke)
         /\ \A n \in Nat \ {0} : Queued(n) \in Seq(Poke)
<1>1. /\ mem \in [Buffer -> Script]
      /\ work \in Seq(Item)
      /\ <<>> \in Seq(Poke)
      /\ 0 \in Slot
  BY ScriptAssumption, EmptySeq DEF IInv, TypeOK, Item, Slot
<1>2. ASSUME NEW n \in Nat \ {0}
      PROVE  Queued(n) \in Seq(Poke)
  <2>1. CASE Len(work) >= n /\ work[n] \in Buffer
    <3>1. n \in DOMAIN work
      BY <2>1, <1>1, LenProperties
    <3>2. InWork(work[n])
      BY <3>1 DEF InWork, Holds
    <3>3. PICK k \in Slot : StopsAt(mem[work[n]], 0, k)
      BY <2>1, <3>2 DEF ContentInv, StopKnown
    <3>4. Remaining(mem[work[n]], 0) \in Seq(Poke)
      BY <2>1, <3>3, <1>1, RemainingIs
    <3>5. QED
      BY <2>1, <3>4 DEF Queued, Rest
  <2>2. CASE ~ (Len(work) >= n /\ work[n] \in Buffer)
    BY <2>2, <1>1 DEF Queued, Rest
  <2>3. QED
    BY <2>1, <2>2
<1>3. Playing \in Seq(Poke)
  <2>1. CASE playBuf \in Buffer /\ playPc \in {"play", "yield"}
    <3>1. playPos \in Slot
      BY <2>1 DEF IInv, EndAhead, Played
    <3>2. PICK k \in Slot : StopsAt(mem[playBuf], playPos, k)
      BY <2>1 DEF ContentInv, StopKnown, Played
    <3>3. Remaining(mem[playBuf], playPos) \in Seq(Poke)
      BY <2>1, <3>1, <3>2, <1>1, RemainingIs
    <3>4. QED
      BY <2>1, <3>3 DEF Playing, Rest
  <2>2. CASE ~ (playBuf \in Buffer /\ playPc \in {"play", "yield"})
    BY <2>2, <1>1 DEF Playing, Rest
  <2>3. QED
    BY <2>1, <2>2
<1>4. QED
  BY <1>2, <1>3

LEMMA WorkBounded ==
  ASSUME IInv
  PROVE  Len(work) \in 0 .. 3
<1>1. /\ work \in Seq(Item)
      /\ NoDuplicate(work)
      /\ Len(work) \in Nat
      /\ DOMAIN work = 1 .. Len(work)
  BY LenProperties DEF IInv, TypeOK, Item, ExclusiveOwner
<1>2. ASSUME Len(work) >= 4
      PROVE  FALSE
  <2>1. \A i \in {1, 2, 3, 4} : i \in 1 .. Len(work)
    BY <1>1, <1>2
  <2>2. \A i \in {1, 2, 3, 4} : work[i] \in Item
    BY <2>1, <1>1, ElementOfSeq
  <2>3. \A i, j \in {1, 2, 3, 4} : work[i] = work[j] => i = j
    BY <2>1, <1>1 DEF NoDuplicate
  <2>4. QED
    BY <2>2, <2>3 DEF Item, ResetScript
<1>3. QED
  BY <1>1, <1>2

(* A step that leaves the player, the queue and the buffers in it alone    *)
(* changes nothing of the channel but its phase.                           *)
LEMMA ChannelUnchanged ==
  ASSUME IInv, UNCHANGED <<work, playPc, playBuf, playPos, last>>,
         \A b \in Buffer : InWork(b) \/ Played(b) => mem'[b] = mem[b]
  PROVE  UNCHANGED <<PendingWrites, FedScripts, last>>
<1>1. work \in Seq(Item) /\ Len(work) \in Nat /\ DOMAIN work = 1 .. Len(work)
  BY LenProperties DEF IInv, TypeOK, Item
<1>2. Playing' = Playing
  BY DEF Playing, Rest, Played
<1>3. ASSUME NEW n \in Nat \ {0}, Len(work) >= n, work[n] \in Buffer
      PROVE  mem'[work[n]] = mem[work[n]]
  BY <1>1, <1>3 DEF InWork, Holds
<1>4. Queued(1)' = Queued(1) /\ Queued(2)' = Queued(2) /\ Queued(3)' = Queued(3)
  BY <1>3 DEF Queued, Rest
<1>5. PendingWrites' = PendingWrites
  BY <1>2, <1>4 DEF PendingWrites
<1>6. FedScripts' = FedScripts
  BY DEF FedScripts, Unfinished, InWork, Played
<1>7. QED
  BY <1>5, <1>6
-----------------------------------------------------------------------------
LEMMA FeedRefines ==
  ASSUME IInv, IInv', ContentInv, ContentInv', mainPc \in Recording, FeedBuffer,
         mainPc' = "loop"
  PROVE  Channel!Feed
<1>1. /\ scriptBuf \in Buffer
      /\ \A b \in Buffer : b # scriptBuf => mem'[b] = mem[b]
      /\ mem'[scriptBuf] \in Script
      /\ scriptLen \in Slot
      /\ StopsAt(mem'[scriptBuf], 0, scriptLen)
  BY FeedStops DEF ContentInv
<1>2. /\ work \in Seq(Item) /\ scriptBuf \in Item
      /\ Buffer \subseteq Item /\ scriptBuf # ResetScript
      /\ Len(work) \in Nat /\ DOMAIN work = 1 .. Len(work)
  BY <1>1, LenProperties DEF IInv, TypeOK, Item, Buffer, ResetScript
<1>3. /\ ~ InWork(scriptBuf) /\ ~ Played(scriptBuf)
      /\ ~ InWork(ResetScript) /\ playPc # "done"
      /\ NoDuplicate(work)
  BY <1>1 DEF IInv, ExclusiveOwner, Recorded, ResetLast, Recording
<1>4. /\ \A b \in Item : Holds(work', b) <=> Holds(work, b) \/ b = scriptBuf
      /\ Len(work') = Len(work) + 1
      /\ work'[Len(work) + 1] = scriptBuf
      /\ \A i \in 1 .. Len(work) : work'[i] = work[i]
  BY <1>2, PushHolds DEF FeedBuffer
<1>5. UNCHANGED <<playPc, playBuf, playPos, last>>
  BY DEF FeedBuffer, playVars
<1>6. \A i \in 1 .. Len(work) : work[i] \in Buffer \ {scriptBuf}
  <2>1. \A i \in 1 .. Len(work) : work[i] \in Item
    BY <1>2, ElementOfSeq
  <2>2. QED
    BY <2>1, <1>2, <1>3 DEF InWork, Holds, Item, Buffer
<1>7. Len(work) \in {0, 1}
  <2>1. ASSUME Len(work) >= 2
        PROVE  FALSE
    <3>1. 1 \in 1 .. Len(work) /\ 2 \in 1 .. Len(work)
      BY <2>1, <1>2
    <3>2. work[1] = work[2]
      BY <3>1, <1>1, <1>6 DEF Buffer
    <3>3. QED
      BY <3>1, <3>2, <1>2, <1>3 DEF NoDuplicate
  <2>2. QED
    BY <2>1, <1>2
<1>8. Playing' = Playing
  <2>1. playBuf \in Buffer => mem'[playBuf] = mem[playBuf]
    BY <1>1, <1>3 DEF Played
  <2>2. QED
    BY <2>1, <1>5 DEF Playing, Rest
<1> DEFINE new == Remaining(mem'[scriptBuf], 0)
<1>9. Playing \in Seq(Poke) /\ Queued(1) \in Seq(Poke) /\ new \in Seq(Poke)
  <2>1. 0 \in Slot
    BY ScriptAssumption DEF Slot
  <2>2. QED
    BY <2>1, <1>1, PartsTyped, RemainingIs
<1>10. PendingWrites' = PendingWrites \o new /\ PendingWrites \in Seq(Poke)
  <2>1. CASE Len(work) = 0
    <3>1. Queued(1) = <<>> /\ Queued(2) = <<>> /\ Queued(3) = <<>>
      BY <2>1 DEF Queued
    <3>2. Queued(1)' = new /\ Queued(2)' = <<>> /\ Queued(3)' = <<>>
      BY <2>1, <1>1, <1>4 DEF Queued, Rest
    <3> HIDE DEF new
    <3>3. PendingWrites = Playing
      BY <3>1, <1>9, EmptySeq, ConcatEmptySeq DEF PendingWrites
    <3>4. PendingWrites' = Playing \o new
      BY <3>2, <1>8, <1>9, EmptySeq, ConcatEmptySeq DEF PendingWrites
    <3>5. QED
      BY <3>3, <3>4, <1>9
  <2>2. CASE Len(work) = 1
    <3>1. Queued(2) = <<>> /\ Queued(3) = <<>>
      BY <2>2 DEF Queued
    <3>2. Queued(2)' = new /\ Queued(3)' = <<>>
      BY <2>2, <1>1, <1>4 DEF Queued, Rest
    <3> HIDE DEF new
    <3>3. Queued(1)' = Queued(1)
      <4>1. work'[1] = work[1] /\ work[1] \in Buffer /\ work[1] # scriptBuf
        BY <2>2, <1>4, <1>6
      <4>2. mem'[work[1]] = mem[work[1]]
        BY <4>1, <1>1
      <4>3. QED
        BY <4>1, <4>2, <2>2, <1>4 DEF Queued, Rest
    <3>4. PendingWrites = Playing \o Queued(1)
      BY <3>1, <1>9, EmptySeq, ConcatEmptySeq DEF PendingWrites
    <3>5. PendingWrites' = Playing \o (Queued(1) \o new)
      BY <3>2, <3>3, <1>8, <1>9, ConcatEmptySeq DEF PendingWrites
    <3>6. QED
      BY <3>4, <3>5, <1>9, ConcatAssociative, ConcatProperties
  <2>3. QED
    BY <2>1, <2>2, <1>7
<1>11. FedScripts < 2 /\ FedScripts' = FedScripts + 1
  <2>1. /\ InWork(1)' <=> InWork(1) \/ scriptBuf = 1
        /\ InWork(2)' <=> InWork(2) \/ scriptBuf = 2
    BY <1>2, <1>4 DEF InWork, Item
  <2>2. Played(1)' = Played(1) /\ Played(2)' = Played(2)
    BY <1>5 DEF Played
  <2>3. CASE scriptBuf = 1
    <3>1. ~ InWork(1) /\ ~ Played(1)
      BY <2>3, <1>3
    <3>2. QED
      BY <2>1, <2>2, <2>3, <3>1 DEF FedScripts, Unfinished
  <2>4. CASE scriptBuf = 2
    <3>1. ~ InWork(2) /\ ~ Played(2)
      BY <2>4, <1>3
    <3>2. QED
      BY <2>1, <2>2, <2>4, <3>1 DEF FedScripts, Unfinished
  <2>5. QED
    BY <1>1, <2>3, <2>4 DEF Buffer
<1>12. Phase = "open" /\ Phase' = "open"
  BY <1>3, <1>5 DEF Phase, Recording
<1>13. PendingWrites' \in Seq(Poke) /\ Channel!IsPrefix(PendingWrites, PendingWrites')
  BY <1>9, <1>10, PrefixOfConcat
<1>14. QED
  BY <1>5, <1>11, <1>12, <1>13 DEF Channel!Feed

LEMMA CloseRefines == IInv /\ ResetSID => Channel!Close
<1> SUFFICES ASSUME IInv, ResetSID
             PROVE  Channel!Close
  OBVIOUS
<1>1. /\ work \in Seq(Item) /\ ResetScript \in Item
      /\ Buffer \subseteq Item /\ ResetScript \notin Buffer
      /\ Len(work) \in Nat
  BY LenProperties DEF IInv, TypeOK, Item, Buffer, ResetScript
<1>2. /\ \A b \in Item : Holds(work', b) <=> Holds(work, b) \/ b = ResetScript
      /\ Len(work') = Len(work) + 1
      /\ work'[Len(work) + 1] = ResetScript
      /\ \A i \in 1 .. Len(work) : work'[i] = work[i]
  BY <1>1, PushHolds, LenProperties DEF ResetSID
<1>3. UNCHANGED <<mem, playPc, playBuf, playPos, last>>
  BY DEF ResetSID, playVars
<1>4. ASSUME NEW n \in Nat \ {0}
      PROVE  /\ Len(work') >= n /\ work'[n] \in Buffer
                  => Len(work) >= n /\ work[n] = work'[n]
             /\ Len(work) >= n => Len(work') >= n /\ work[n] = work'[n]
  BY <1>1, <1>2
<1>5. PendingWrites' = PendingWrites
  <2>1. Queued(1)' = Queued(1) /\ Queued(2)' = Queued(2) /\ Queued(3)' = Queued(3)
    BY <1>3, <1>4 DEF Queued, Rest
  <2>2. Playing' = Playing
    BY <1>3 DEF Playing, Rest
  <2>3. QED
    BY <2>1, <2>2 DEF PendingWrites
<1>6. FedScripts' = FedScripts
  BY <1>1, <1>2, <1>3 DEF FedScripts, Unfinished, Buffer, InWork, Played
<1>7. Phase = "open" /\ Phase' = "closing"
  BY <1>3 DEF Phase, ResetSID, IInv, ResetLast
<1>8. QED
  BY <1>3, <1>5, <1>6, <1>7 DEF Channel!Close

(* The other steps of main are invisible.                                  *)
LEMMA MainRefines ==
  IInv /\ ContentInv
    /\ (FetchBuffer \/ WaitForBuffer \/ NextFrame \/ Join \/ SpuriousWakeup
          \/ Interrupt \/ LoadFails \/ RecordSidWrite)
    => UNCHANGED Channel!channel
<1> SUFFICES ASSUME IInv, ContentInv,
                    FetchBuffer \/ WaitForBuffer \/ NextFrame \/ Join
                      \/ SpuriousWakeup \/ Interrupt \/ LoadFails \/ RecordSidWrite
             PROVE  UNCHANGED Channel!channel
  OBVIOUS
<1>1. CASE FetchBuffer \/ WaitForBuffer \/ NextFrame \/ Join \/ SpuriousWakeup
             \/ Interrupt
  <2>1. UNCHANGED <<work, mem, playPc, playBuf, playPos, last>>
    BY <1>1 DEF FetchBuffer, WaitForBuffer, NextFrame, Join, SpuriousWakeup,
                Interrupt, mainVars, playVars, shared
  <2>2. Phase' = Phase
    BY <1>1, <2>1 DEF Phase, FetchBuffer, WaitForBuffer, NextFrame, Join,
                      SpuriousWakeup, Interrupt, Beginning, mainVars
  <2>3. QED
    BY <2>1, <2>2, ChannelUnchanged DEF Channel!channel
<1>2. CASE RecordSidWrite
  <2>1. /\ UNCHANGED <<work, playPc, playBuf, playPos, last, mainPc, scriptBuf>>
        /\ mainPc \in Recording
    BY <1>2 DEF RecordSidWrite, playVars
  <2>2. \A b \in Buffer : b # scriptBuf => mem'[b] = mem[b]
    BY <1>2 DEF RecordSidWrite, IInv, TypeOK
  <2>3. \A b \in Buffer : InWork(b) \/ Played(b) => b # scriptBuf
    BY DEF IInv, ExclusiveOwner, Recorded
  <2>4. Phase' = Phase
    BY <2>1 DEF Phase
  <2>5. QED
    BY <2>1, <2>2, <2>3, <2>4, ChannelUnchanged DEF Channel!channel
<1>3. CASE LoadFails
  <2>1. /\ UNCHANGED <<work, mem, playBuf, playPos, last>>
        /\ work = <<>> /\ playBuf = NoBuf
        /\ playPc' = "killed" /\ playPc # "done" /\ mainPc' = "died"
        /\ mainPc = "load" /\ NoBuf \notin Buffer
    BY <1>3 DEF LoadFails, shared, ContentInv, IdleAtFirst, IInv, ResetLast,
                NoBuf, Buffer
  <2>2. Playing = <<>> /\ Playing' = <<>>
    BY <2>1 DEF Playing, Rest
  <2>3. PendingWrites' = PendingWrites
    BY <2>1, <2>2 DEF PendingWrites, Queued, Rest
  <2>4. FedScripts' = FedScripts
    BY <2>1 DEF FedScripts, Unfinished, InWork, Played
  <2>5. Phase' = Phase
    BY <2>1 DEF Phase
  <2>6. QED
    BY <2>1, <2>3, <2>4, <2>5 DEF Channel!channel
<1>4. QED
  BY <1>1, <1>2, <1>3
-----------------------------------------------------------------------------
LEMMA PopRefines == IInv /\ ContentInv /\ PopBuffer => UNCHANGED Channel!channel
<1> SUFFICES ASSUME IInv, ContentInv, PopBuffer
             PROVE  UNCHANGED Channel!channel
  OBVIOUS
<1> DEFINE h == Head(work)
<1>1. /\ work \in Seq(Item) /\ work # <<>> /\ Buffer \subseteq Item
      /\ NoBuf \notin Buffer
  BY DEF PopBuffer, IInv, TypeOK, Item, Buffer, NoBuf
<1>2. /\ h = work[1] /\ h \in Item
      /\ Len(work) \in Nat \ {0}
      /\ Len(work') = Len(work) - 1
      /\ \A i \in 1 .. Len(work) - 1 : work'[i] = work[i + 1]
      /\ \A b \in Item : Holds(work, b) <=> Holds(work', b) \/ b = h
  BY <1>1, PopHolds DEF PopBuffer
<1>3. /\ playBuf' = h /\ playPos' = 0 /\ playPc' = "play" /\ playPc = "poll"
      /\ UNCHANGED <<mem, mainPc, last>>
  BY DEF PopBuffer, mainVars
<1> HIDE DEF h
<1>4. Len(work) <= 3
  BY WorkBounded, <1>2
<1>5. playBuf = NoBuf
  BY <1>3 DEF IInv, PlayerOwns
<1>6. /\ Queued(1) \in Seq(Poke) /\ Queued(2) \in Seq(Poke) /\ Queued(3) \in Seq(Poke)
  BY PartsTyped
<1>7. Playing = <<>> /\ Playing' = Queued(1)
  BY <1>2, <1>3 DEF Playing, Queued, Rest
<1>8. Queued(1)' = Queued(2) /\ Queued(2)' = Queued(3) /\ Queued(3)' = <<>>
  <2>1. Queued(1)' = Queued(2)
    <3>1. /\ Len(work') >= 1 <=> Len(work) >= 2
          /\ Len(work') >= 1 => work'[1] = work[2]
      BY <1>2
    <3>2. QED
      BY <3>1, <1>3 DEF Queued, Rest
  <2>2. Queued(2)' = Queued(3)
    <3>1. /\ Len(work') >= 2 <=> Len(work) >= 3
          /\ Len(work') >= 2 => work'[2] = work[3]
      BY <1>2
    <3>2. QED
      BY <3>1, <1>3 DEF Queued, Rest
  <2>3. Queued(3)' = <<>>
    BY <1>2, <1>4 DEF Queued
  <2>4. QED
    BY <2>1, <2>2, <2>3
<1>9. PendingWrites' = PendingWrites
  <2>1. PendingWrites = Queued(1) \o (Queued(2) \o Queued(3))
    BY <1>6, <1>7, ConcatEmptySeq, ConcatProperties DEF PendingWrites
  <2>2. PendingWrites' = Queued(1) \o (Queued(2) \o Queued(3))
    BY <1>6, <1>7, <1>8, ConcatEmptySeq DEF PendingWrites
  <2>3. QED
    BY <2>1, <2>2
<1>10. FedScripts' = FedScripts
  BY <1>1, <1>2, <1>3, <1>5 DEF FedScripts, Unfinished, Buffer, InWork, Played
<1>11. Phase' = Phase
  BY <1>3 DEF Phase
<1>12. QED
  BY <1>3, <1>9, <1>10, <1>11 DEF Channel!channel

LEMMA PlayRefines == IInv /\ ContentInv /\ ContentInv' /\ IInv' /\ PlayPoke => Channel!Play
<1> SUFFICES ASSUME IInv, ContentInv, PlayPoke, IInv', ContentInv'
             PROVE  Channel!Play
  OBVIOUS
<1>1. /\ playBuf \in Buffer /\ playPos \in Slot /\ mem[playBuf] \in Script
      /\ mem[playBuf][playPos] # EndMarker
      /\ last' = mem[playBuf][playPos]
      /\ playPos' = playPos + 1
      /\ playPc = "play"
      /\ UNCHANGED <<work, mem, playBuf, playPc, mainPc>>
  BY DEF PlayPoke, mainVars, shared, IInv, TypeOK, EndAhead, Played
<1>2. PICK n \in Slot : StopsAt(mem[playBuf], playPos, n)
  BY <1>1 DEF ContentInv, StopKnown, Played
<1>3. /\ Remaining(mem[playBuf], playPos) # <<>>
      /\ Head(Remaining(mem[playBuf], playPos)) = mem[playBuf][playPos]
      /\ Tail(Remaining(mem[playBuf], playPos)) = Remaining(mem[playBuf], playPos + 1)
  BY <1>1, <1>2, RemainingStep
<1>4. Playing # <<>> /\ Head(Playing) = last' /\ Tail(Playing) = Playing'
  BY <1>1, <1>3 DEF Playing, Rest
<1>5. Queued(1)' = Queued(1) /\ Queued(2)' = Queued(2) /\ Queued(3)' = Queued(3)
  BY <1>1 DEF Queued, Rest
<1> DEFINE q == Queued(1) \o (Queued(2) \o Queued(3))
<1>6. Playing \in Seq(Poke) /\ q \in Seq(Poke)
  BY PartsTyped, ConcatProperties
<1>7. PendingWrites = Playing \o q /\ PendingWrites' = Playing' \o q
  BY <1>5 DEF PendingWrites
<1> HIDE DEF q
<1>8. /\ PendingWrites # <<>>
      /\ last' = Head(PendingWrites)
      /\ PendingWrites' = Tail(PendingWrites)
  BY <1>4, <1>6, <1>7, HeadTailOfConcat
<1>9. FedScripts' = FedScripts /\ Phase' = Phase
  BY <1>1 DEF FedScripts, Unfinished, InWork, Played, Phase
<1>10. QED
  BY <1>8, <1>9 DEF Channel!Play

(* Returning a recorded script retires it, returning the reset script      *)
(* means that the chip is mute.                                            *)
LEMMA YieldRefines ==
  IInv /\ ContentInv /\ YieldBuffer => Channel!Retire \/ Channel!Mute
<1> SUFFICES ASSUME IInv, ContentInv, YieldBuffer
             PROVE  Channel!Retire \/ Channel!Mute
  OBVIOUS
<1>1. /\ work \in Seq(Item) /\ Len(work) \in Nat /\ DOMAIN work = 1 .. Len(work)
      /\ playBuf \in Item /\ playBuf' = NoBuf /\ NoBuf \notin Buffer
      /\ Item = Buffer \cup {ResetScript} /\ ResetScript \notin Buffer
  BY LenProperties DEF YieldBuffer, IInv, TypeOK, PlayerOwns, Item, Buffer, NoBuf,
                       ResetScript
<1>2. /\ playPc = "yield" /\ playPc' = IF runNext THEN "poll" ELSE "done"
      /\ UNCHANGED <<work, mem, mainPc, last>>
  BY DEF YieldBuffer, mainVars
<1>3. Playing = <<>> /\ Playing' = <<>>
  <2>1. playBuf \in Buffer => Remaining(mem[playBuf], playPos) = <<>>
    BY <1>2, RemainingEmpty
       DEF ContentInv, StopKnown, Played, IInv, TypeOK, EndAhead
  <2>2. QED
    BY <2>1, <1>2 DEF Playing, Rest
<1>4. PendingWrites' = PendingWrites
  BY <1>2, <1>3 DEF PendingWrites, Queued, Rest
<1>5. (\A b \in Buffer : ~ InWork(b)) => PendingWrites = <<>>
  <2> SUFFICES ASSUME \A b \in Buffer : ~ InWork(b)
               PROVE  PendingWrites = <<>>
    OBVIOUS
  <2>1. \A n \in Nat \ {0} : Len(work) >= n => work[n] \notin Buffer
    BY <1>1 DEF InWork, Holds
  <2>2. Queued(1) = <<>> /\ Queued(2) = <<>> /\ Queued(3) = <<>>
    BY <2>1 DEF Queued, Rest
  <2>3. QED
    BY <2>2, <1>3, EmptySeq, ConcatEmptySeq DEF PendingWrites
<1>6. runNext <=> playBuf # ResetScript
  BY <1>2 DEF IInv, ResetLast, Played
<1>7. CASE playBuf \in Buffer
  <2>1. /\ ~ InWork(playBuf)
        /\ ~ Holds(work', playBuf)
        /\ \A b \in Buffer : /\ Holds(work', b) <=> InWork(b)
                            /\ playBuf' # b
    BY <1>1, <1>2, <1>7 DEF InWork, Played, IInv, ExclusiveOwner
  <2>2. playBuf \in {1, 2}
    BY <1>7 DEF Buffer
  <2>3. FedScripts > 0 /\ FedScripts' = FedScripts - 1
    BY <2>1, <2>2 DEF FedScripts, Unfinished, Buffer, InWork, Played
  <2>4. FedScripts = 1 => \A b \in Buffer : ~ InWork(b)
    BY <2>1, <2>2 DEF FedScripts, Unfinished, Buffer, InWork, Played
  <2>5. Phase' = Phase
    BY <1>1, <1>2, <1>6, <1>7 DEF Phase
  <2>6. Channel!Retire
    BY <1>2, <1>4, <1>5, <2>3, <2>4, <2>5 DEF Channel!Retire
  <2>7. QED
    BY <2>6
<1>8. CASE playBuf = ResetScript
  <2>1. work = <<>>
    BY <1>8 DEF IInv, ResetLast, Played
  <2>2. \A b \in Buffer : ~ InWork(b) /\ ~ Played(b) /\ ~ InWork(b)' /\ ~ Played(b)'
    BY <1>1, <1>2, <1>8, <2>1 DEF InWork, Played, Holds
  <2>3. FedScripts = 0 /\ FedScripts' = 0
    BY <2>2 DEF FedScripts, Unfinished, Buffer
  <2>4. Phase = "closing" /\ Phase' = "muted"
    BY <1>2, <1>6, <1>8 DEF Phase, IInv, ResetLast, Played
  <2>5. Channel!Mute
    BY <1>2, <1>4, <1>5, <2>2, <2>3, <2>4 DEF Channel!Mute
  <2>6. QED
    BY <2>5
<1>9. QED
  BY <1>1, <1>7, <1>8

(* The other steps of the player are invisible.                            *)
LEMMA PlayerRefines ==
  IInv /\ (PlayReset \/ ScriptEnd) => UNCHANGED Channel!channel
<1> SUFFICES ASSUME IInv, PlayReset \/ ScriptEnd
             PROVE  UNCHANGED Channel!channel
  OBVIOUS
<1>1. /\ UNCHANGED <<work, mem, mainPc, playBuf, last>>
      /\ playPc = "play" /\ playPc' \in {"play", "yield"}
      /\ playBuf \in Buffer => playPos' = playPos
  BY DEF PlayReset, ScriptEnd, mainVars, shared, ResetScript, Buffer
<1>2. PendingWrites' = PendingWrites
  BY <1>1 DEF PendingWrites, Playing, Queued, Rest
<1>3. FedScripts' = FedScripts /\ Phase' = Phase
  BY <1>1 DEF FedScripts, Unfinished, InWork, Played, Phase
<1>4. QED
  BY <1>1, <1>2, <1>3 DEF Channel!channel

(* The two threads, their pool and their queue implement the channel that  *)
(* SidChannel promises, whatever the sizes of buffers, scripts and song:   *)
(* every recorded write reaches the chip once and in order, never more     *)
(* than two scripts are ahead of it, and it is muted behind the last one.  *)
THEOREM ImplementsChannel == Spec => ChannelSpec
<1>1. Init => Channel!Init
  <2> SUFFICES ASSUME Init
               PROVE  Channel!Init
    OBVIOUS
  <2>1. Playing = <<>> /\ Queued(1) = <<>> /\ Queued(2) = <<>> /\ Queued(3) = <<>>
    BY DEF Init, Playing, Queued
  <2>2. PendingWrites = <<>>
    BY <2>1, EmptySeq, ConcatEmptySeq DEF PendingWrites
  <2>3. FedScripts = 0 /\ Phase = "open" /\ last = Channel!None
    BY DEF Init, FedScripts, Unfinished, InWork, Holds, Played, NoBuf, Phase,
           EndMarker, Channel!None
  <2>4. QED
    BY <2>2, <2>3 DEF Channel!Init
<1>2. IInv /\ IInv' /\ ContentInv /\ ContentInv' /\ [Next]_vars
        => [Channel!Next]_(Channel!channel)
  <2> SUFFICES ASSUME IInv, IInv', ContentInv, ContentInv', [Next]_vars
               PROVE  Channel!Next \/ UNCHANGED Channel!channel
    OBVIOUS
  <2>1. CASE FinishLoad \/ FinishFrame
    BY <2>1, FeedRefines DEF FinishLoad, FinishFrame, Recording, Channel!Next
  <2>2. CASE ResetSID
    BY <2>2, CloseRefines DEF Channel!Next
  <2>3. CASE FetchBuffer \/ WaitForBuffer \/ NextFrame \/ Join \/ SpuriousWakeup
               \/ Interrupt \/ LoadFails \/ RecordSidWrite
    BY <2>3, MainRefines
  <2>4. CASE PopBuffer \/ PlayReset \/ ScriptEnd
    BY <2>4, PopRefines, PlayerRefines
  <2>5. CASE PlayPoke
    BY <2>5, PlayRefines DEF Channel!Next
  <2>6. CASE YieldBuffer
    BY <2>6, YieldRefines DEF Channel!Next
  <2>7. CASE UNCHANGED vars
    <3>1. UNCHANGED <<work, mem, playPc, playBuf, playPos, last, mainPc>>
      BY <2>7 DEF vars, mainVars, playVars, shared
    <3>2. QED
      BY <3>1, ChannelUnchanged DEF Channel!channel, Phase
  <2>8. QED
    BY <2>1, <2>2, <2>3, <2>4, <2>5, <2>6, <2>7 DEF Next, Main, Player, Terminated
<1>3. QED
  BY <1>1, <1>2, Invariance, ContentInvariance, PTL
     DEF Spec, ChannelSpec, Channel!Spec
=============================================================================
