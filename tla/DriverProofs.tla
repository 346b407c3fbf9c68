---------------------------- MODULE DriverProofs ----------------------------
(***************************************************************************)
(* Proofs about the drivers.  The descriptor rings of EthRing, for any     *)
(* ring sizes, budgets, timeouts and numbers of frames: good frames reach  *)
(* lwIP once and in order, and hal_eth_tx() writes to no buffer of a DMA   *)
(* that is in time.  The card of SdCard, for any cards, blocks and data    *)
(* and any number of faults, swapped cards and resets: every block holds   *)
(* what the writes made to it let it hold, every good read gives that, and *)
(* a read of a card that stays put fails only by RetryMax faults.          *)
(***************************************************************************)
EXTENDS EthRing, SdCard, SequenceTheorems, WellFoundedInduction, TLAPS

(***************************************************************************)
(* The inductive invariant.                                                *)
(***************************************************************************)
\* A drain loop that goes on has budget left, and a frame on its way into the ring is
\* one of MaxTx.
EthTypes ==
    /\ EthTypeOK
    /\ desc \in [at : RxSlots, frame : 0 .. MaxRx, kind : FrameKinds]
    /\ stored \subseteq Nat /\ dropped \subseteq Nat /\ delivered \in Seq(Nat)
    /\ accepted \in Seq(Nat)
    /\ pc = "give" => skip > 0
    /\ back = "rx" /\ pc \notin {"poll", "rx", "give"} => skip > 0
    /\ pc \in {"spin", "write", "own"} => Len(accepted) < MaxTx

\* The frames that are the driver's, and the one it looks at, are distinct and new.
EachOnce ==
    /\ DeliveredOnce
    /\ \A i \in DOMAIN delivered : delivered[i] <= arrived
    /\ \A d \in RxSlots : ~ rxRing[d].own =>
         /\ rxRing[d].frame \in 1 .. arrived /\ rxRing[d].frame \notin Range(delivered)
         /\ \A e \in RxSlots : ~ rxRing[e].own /\ rxRing[e].frame = rxRing[d].frame => e = d
    /\ pc = "give" =>
         /\ desc.frame \in 1 .. arrived /\ desc.frame \notin Range(delivered)
         /\ \A d \in RxSlots : ~ rxRing[d].own /\ rxRing[d].frame = desc.frame => d = desc.at

\* How far on from place i of the ring place d is.
Dist(i, d) == IF i <= d THEN d - i ELSE d - i + RxDescs

\* The descriptors from rx_idx on to the DMA's are the driver's: all or none of them
\* when the two are at the same one.
RingSplit ==
    \/ rxIdx = rxDma /\ \A d \in RxSlots : rxRing[d].own
    \/ rxIdx = rxDma /\ \A d \in RxSlots : ~ rxRing[d].own
    \/ /\ rxIdx # rxDma
       /\ \A d \in RxSlots : ~ rxRing[d].own <=> Dist(rxIdx, d) < Dist(rxIdx, rxDma)

\* Going round the ring the driver meets later and later frames, all of them later than
\* those it met.
RingInOrder ==
    /\ \A d \in RxSlots, e \in RxSlots :
         ~ rxRing[d].own /\ ~ rxRing[e].own /\ Dist(rxIdx, d) < Dist(rxIdx, e)
           => rxRing[d].frame < rxRing[e].frame
    /\ \A d \in RxSlots, f \in Range(delivered) \cup dropped :
         ~ rxRing[d].own => f < rxRing[d].frame

NoneLost ==
    /\ stored = Range(delivered) \cup dropped \cup InRing
    /\ Range(delivered) \cap (dropped \cup InRing) = {} /\ dropped \cap InRing = {}
    /\ \A i, j \in DOMAIN delivered : i < j => delivered[i] < delivered[j]
    /\ \A f \in dropped : f <= arrived

LookedAt ==
    pc = "give" =>
        /\ ~ rxRing[rxIdx].own
        /\ desc = [at |-> rxIdx, frame |-> rxRing[rxIdx].frame, kind |-> rxRing[rxIdx].kind]

RxRight == RingSplit /\ RingInOrder /\ NoneLost /\ LookedAt

\* A descriptor that was waited for is the driver's.
TxRight == pc = "write" /\ ~ expired /\ inits = 0 => ~ txRing[txIdx].own

EthInv == EthTypes /\ EachOnce /\ (inits = 0 => RxRight) /\ TxRight
-----------------------------------------------------------------------------
(***************************************************************************)
(* Round the ring.                                                         *)
(***************************************************************************)
LEMMA NextPlace ==
    ASSUME NEW n \in Nat \ {0}, NEW i \in 0 .. n - 1
    PROVE  /\ (i + 1) % n = IF i + 1 = n THEN 0 ELSE i + 1
           /\ (i + 1) % n \in 0 .. n - 1
<1>1. CASE i + 1 = n
  <2>1. n % n = 0
    OBVIOUS
  <2> QED
    BY <1>1, <2>1
<1>2. CASE i + 1 < n
  <2>1. (i + 1) % n = i + 1
    BY <1>2
  <2> QED
    BY <1>2, <2>1
<1> QED
  BY <1>1, <1>2

LEMMA Distances ==
    ASSUME NEW i \in RxSlots, NEW d \in RxSlots
    PROVE  /\ Dist(i, d) \in RxSlots
           /\ Dist(i, d) = 0 <=> d = i
           /\ \A e \in RxSlots : Dist(i, e) = Dist(i, d) => e = d
BY RingAssumption DEF Dist, RxSlots

\* The driver's index moves on.
LEMMA DriverMoves ==
    ASSUME NEW i \in RxSlots, NEW d \in RxSlots, NEW kind
    PROVE  /\ NextRx(i, kind) \in RxSlots
           /\ Dist(NextRx(i, kind), d) = IF d = i THEN RxDescs - 1 ELSE Dist(i, d) - 1
<1>1. /\ NextRx(i, kind) = IF i + 1 = RxDescs THEN 0 ELSE i + 1
      /\ NextRx(i, kind) \in RxSlots
  BY NextPlace, RingAssumption DEF NextRx, RxSlots
<1> QED
  BY <1>1, RingAssumption DEF Dist, RxSlots

\* The DMA's index moves on.
LEMMA DmaMoves ==
    ASSUME NEW i \in RxSlots, NEW d \in RxSlots
    PROVE  /\ (d + 1) % RxDescs \in RxSlots
           /\ Dist(i, (d + 1) % RxDescs)
                = IF Dist(i, d) + 1 = RxDescs THEN 0 ELSE Dist(i, d) + 1
<1>1. PICK e \in RxSlots : e = (d + 1) % RxDescs /\ e = IF d + 1 = RxDescs THEN 0 ELSE d + 1
  BY NextPlace, RingAssumption DEF RxSlots
<1>2. Dist(i, e) = IF Dist(i, d) + 1 = RxDescs THEN 0 ELSE Dist(i, d) + 1
  BY <1>1, RingAssumption DEF Dist, RxSlots
<1> QED
  BY <1>1, <1>2

LEMMA RangeOf ==
    ASSUME NEW s \in Seq(Nat), NEW x \in Nat
    PROVE  /\ Append(s, x) \in Seq(Nat) /\ Len(Append(s, x)) = Len(s) + 1
           /\ DOMAIN s = 1 .. Len(s) /\ Len(s) \in Nat
           /\ DOMAIN Append(s, x) = 1 .. Len(s) + 1
           /\ \A i \in 1 .. Len(s) : Append(s, x)[i] = s[i]
           /\ Append(s, x)[Len(s) + 1] = x
           /\ Range(s) \subseteq Nat
           /\ Range(Append(s, x)) = Range(s) \cup {x}
           /\ \A f \in Nat : f \in Range(s) <=> \E i \in 1 .. Len(s) : s[i] = f
<1>1. /\ Append(s, x) \in Seq(Nat) /\ Len(Append(s, x)) = Len(s) + 1
      /\ DOMAIN s = 1 .. Len(s) /\ Len(s) \in Nat
      /\ DOMAIN Append(s, x) = 1 .. Len(s) + 1
      /\ \A i \in 1 .. Len(s) : Append(s, x)[i] = s[i]
      /\ Append(s, x)[Len(s) + 1] = x
      /\ \A i \in 1 .. Len(s) : s[i] \in Nat
  BY LenProperties, AppendProperties
<1>2. Range(s) = {s[i] : i \in 1 .. Len(s)}
  BY <1>1 DEF Range
<1>3. Range(Append(s, x)) = {Append(s, x)[i] : i \in 1 .. Len(s) + 1}
  BY <1>1 DEF Range
<1>4. Range(Append(s, x)) = Range(s) \cup {x}
  BY <1>1, <1>2, <1>3
<1> QED
  BY <1>1, <1>2, <1>4

LEMMA EthStart == EthInit => EthInv
<1> SUFFICES ASSUME EthInit PROVE EthInv
  OBVIOUS
<1>1. /\ RxDescs \in Nat \ {0} /\ TxDescs \in Nat \ {0} /\ SkipBudget \in Nat \ {0}
      /\ Timeout \in Nat \ {0} /\ MaxRx \in Nat /\ MaxTx \in Nat /\ MaxInits \in Nat
  BY RingAssumption, LoopAssumption, BoundAssumption
<1>2. /\ 0 \in RxSlots /\ 0 \in TxSlots /\ "good" \in FrameKinds
  BY <1>1 DEF RxSlots, TxSlots, FrameKinds
<1>3. EthTypeOK
  <2>1. rxRing \in [RxSlots -> [own : BOOLEAN, frame : 0 .. MaxRx, kind : FrameKinds]]
    BY <1>1, <1>2 DEF EthInit, EmptyRx
  <2>2. txRing \in [TxSlots -> [own : BOOLEAN, frame : 0 .. MaxTx]]
    BY <1>1, <1>2 DEF EthInit, EmptyTx
  <2>3. /\ rxIdx \in RxSlots /\ rxDma \in RxSlots /\ desc.at \in RxSlots
        /\ txIdx \in TxSlots /\ txDma \in TxSlots
    BY <1>2 DEF EthInit, NoDesc
  <2>4. /\ expired \in BOOLEAN /\ sending \in 0 .. MaxTx /\ pc \in Places /\ back \in {"poll", "rx"}
        /\ skip \in 0 .. SkipBudget /\ timeout \in 0 .. Timeout /\ pc # "rx"
        /\ arrived \in 0 .. MaxRx /\ inits \in 0 .. MaxInits
    <3>1. /\ sending = 0 /\ skip = 0 /\ timeout = 0 /\ arrived = 0 /\ inits = 0
          /\ pc = "poll" /\ back = "poll"
      BY DEF EthInit
    <3>2. expired \in BOOLEAN
      BY DEF EthInit
    <3>3. /\ 0 \in 0 .. MaxTx /\ 0 \in 0 .. SkipBudget /\ 0 \in 0 .. Timeout
          /\ 0 \in 0 .. MaxRx /\ 0 \in 0 .. MaxInits
      BY <1>1
    <3> QED
      BY <3>1, <3>2, <3>3 DEF Places
  <2> QED
    BY <2>1, <2>2, <2>3, <2>4 DEF EthTypeOK
<1>4. delivered = <<>> /\ Range(delivered) = {}
  BY DEF EthInit, Range
<1>5. EthTypes
  BY <1>1, <1>2, <1>3 DEF EthInit, EthTypes, NoDesc
<1>6. \A d \in RxSlots : rxRing[d].own
  BY DEF EthInit, EmptyRx
<1>7. EachOnce
  BY <1>4, <1>6 DEF EthInit, EachOnce, DeliveredOnce
<1>8. RxRight
  BY <1>4, <1>6 DEF EthInit, RxRight, RingSplit, RingInOrder, NoneLost, LookedAt, InRing
<1>9. TxRight
  BY DEF EthInit, TxRight
<1> QED
  BY <1>5, <1>7, <1>8, <1>9 DEF EthInv
-----------------------------------------------------------------------------
(***************************************************************************)
(* Steps that leave the receive ring and the frames given to lwIP alone.   *)
(***************************************************************************)
LEMMA ReceiveSame ==
    ASSUME EachOnce, inits = 0 => RxRight,
           UNCHANGED <<rxRing, rxIdx, rxDma, arrived, stored, delivered, dropped, inits>>,
           pc' # "give" \/ (pc' = pc /\ desc' = desc)
    PROVE  EachOnce' /\ (inits' = 0 => RxRight')
<1>1. EachOnce'
  BY DEF EachOnce, DeliveredOnce
<1>2. ASSUME inits = 0 PROVE RingSplit' /\ RingInOrder' /\ NoneLost' /\ LookedAt'
  BY <1>2 DEF RxRight, RingSplit, RingInOrder, NoneLost, LookedAt, InRing, Dist
<1> QED
  BY <1>1, <1>2 DEF RxRight

\* What the type invariant says, one variable at a time.
LEMMA EthVars ==
    EthTypes <=>
      /\ expired \in BOOLEAN
      /\ rxRing \in [RxSlots -> [own : BOOLEAN, frame : 0 .. MaxRx, kind : FrameKinds]]
      /\ txRing \in [TxSlots -> [own : BOOLEAN, frame : 0 .. MaxTx]]
      /\ rxIdx \in RxSlots /\ rxDma \in RxSlots /\ txIdx \in TxSlots /\ txDma \in TxSlots
      /\ sending \in 0 .. MaxTx
      /\ pc \in Places /\ back \in {"poll", "rx"}
      /\ skip \in 0 .. SkipBudget /\ timeout \in 0 .. Timeout
      /\ arrived \in 0 .. MaxRx /\ inits \in 0 .. MaxInits
      /\ desc \in [at : RxSlots, frame : 0 .. MaxRx, kind : FrameKinds]
      /\ stored \subseteq Nat /\ dropped \subseteq Nat /\ delivered \in Seq(Nat)
      /\ accepted \in Seq(Nat)
      /\ pc = "rx" => skip > 0
      /\ pc = "give" => skip > 0
      /\ back = "rx" /\ pc \notin {"poll", "rx", "give"} => skip > 0
      /\ pc \in {"spin", "write", "own"} => Len(accepted) < MaxTx
BY DEF EthTypes, EthTypeOK

LEMMA EthConstants ==
    /\ RxDescs \in Nat \ {0} /\ TxDescs \in Nat \ {0} /\ SkipBudget \in Nat \ {0}
    /\ Timeout \in Nat \ {0} /\ MaxRx \in Nat /\ MaxTx \in Nat /\ MaxInits \in Nat
BY RingAssumption, LoopAssumption, BoundAssumption

\* The DMA's side of the transmit ring.
LEMMA EthSend ==
    ASSUME EthInv, DmaSend
    PROVE  EthInv'
<1>1. EthTypes /\ EachOnce /\ (inits = 0 => RxRight) /\ TxRight
  BY DEF EthInv
<1>2. EachOnce' /\ (inits' = 0 => RxRight')
  BY <1>1, ReceiveSame DEF DmaSend, DmaFetch, DmaSent, rxVars, taskVars, rxLog
<1>3. CASE DmaFetch
  <2>1. EthTypes'
    BY <1>1, <1>3, EthVars DEF DmaFetch, EthTypes, EthTypeOK, rxVars, taskVars, rxLog, txLog
  <2>2. TxRight'
    BY <1>1, <1>3 DEF DmaFetch, TxRight, taskVars
  <2> QED
    BY <1>2, <2>1, <2>2 DEF EthInv
<1>4. CASE DmaSent
  <2>1. txRing' \in [TxSlots -> [own : BOOLEAN, frame : 0 .. MaxTx]]
        /\ txDma' \in TxSlots
    <3>1. txRing \in [TxSlots -> [own : BOOLEAN, frame : 0 .. MaxTx]] /\ txDma \in 0 .. TxDescs - 1
      BY <1>1, EthVars DEF TxSlots
    <3>2. txRing' = [txRing EXCEPT ![txDma].own = FALSE] /\ txDma' = (txDma + 1) % TxDescs
      BY <1>4 DEF DmaSent
    <3>3. txDma' \in TxSlots
      BY <3>1, <3>2, EthConstants, NextPlace DEF TxSlots
    <3>4. txRing' \in [TxSlots -> [own : BOOLEAN, frame : 0 .. MaxTx]]
      BY <3>1, <3>2
    <3> QED
      BY <3>3, <3>4
  <2>2. EthTypes'
    <3>1. sending' \in 0 .. MaxTx
      BY <1>4, EthConstants DEF DmaSent
    <3> QED
      BY <1>1, <1>4, <2>1, <3>1, EthVars DEF DmaSent, EthTypes, EthTypeOK, rxVars, taskVars, rxLog
  <2>3. txIdx \in TxSlots /\ (~ txRing[txIdx].own => ~ txRing'[txIdx].own)
    BY <1>1, <1>4, EthVars DEF DmaSent
  <2>4. TxRight'
    BY <1>1, <1>4, <2>3 DEF DmaSent, TxRight, taskVars
  <2> QED
    BY <1>2, <2>2, <2>4 DEF EthInv
<1> QED
  BY <1>3, <1>4 DEF DmaSend

\* hal_eth_init() begins again with rings that are empty.
LEMMA EthReinit ==
    ASSUME EthInv, Reinit
    PROVE  EthInv'
<1>1. EthTypes /\ EachOnce
  BY DEF EthInv
<1>2. inits' # 0 /\ inits' \in 0 .. MaxInits
  <2>1. inits \in 0 .. MaxInits /\ inits < MaxInits /\ inits' = inits + 1
    BY <1>1, EthVars DEF Reinit
  <2> QED
    BY <2>1, EthConstants
<1>3. /\ rxRing' \in [RxSlots -> [own : BOOLEAN, frame : 0 .. MaxRx, kind : FrameKinds]]
      /\ \A d \in RxSlots : rxRing'[d].own
  BY EthConstants DEF Reinit, EmptyRx, FrameKinds
<1>4. txRing' \in [TxSlots -> [own : BOOLEAN, frame : 0 .. MaxTx]]
  BY EthConstants DEF Reinit, EmptyTx
<1>5. 0 \in RxSlots /\ 0 \in TxSlots /\ 0 \in 0 .. MaxTx
  BY EthConstants DEF RxSlots, TxSlots
<1>6. EthTypes'
  BY <1>1, <1>2, <1>3, <1>4, <1>5, EthVars
     DEF Reinit, EthTypes, EthTypeOK, taskVars, rxLog, txLog
<1>7. EachOnce'
  BY <1>1, <1>3 DEF Reinit, EachOnce, DeliveredOnce, taskVars, rxLog
<1>8. TxRight'
  BY <1>2 DEF TxRight
<1> QED
  BY <1>2, <1>6, <1>7, <1>8 DEF EthInv
-----------------------------------------------------------------------------
(***************************************************************************)
(* The net task.                                                           *)
(***************************************************************************)
\* The steps that touch no frame of the receive ring.
NetStep ==
    Drain \/ RxNone \/ LwipReturn \/ Output \/ Spin \/ SpinFree \/ Copy \/ HandOver \/ SpinOver

LEMMA NetStepTypes ==
    ASSUME EthTypes, NetStep, UNCHANGED expired \/ SpinOver
    PROVE  EthTypes'
<1> USE DEF TaskStep, rxVars, txVars
<1>1. CASE Drain
  BY <1>1, EthVars, EthConstants DEF Drain, EthTypes, EthTypeOK, Places, SpinOver
<1>2. CASE RxNone
  BY <1>2, EthVars, EthConstants DEF RxNone, EthTypes, EthTypeOK, Places, SpinOver
<1>3. CASE LwipReturn
  BY <1>3, EthVars, EthConstants DEF LwipReturn, EthTypes, EthTypeOK, Places, SpinOver
<1>4. CASE Output
  BY <1>4, EthVars, EthConstants DEF Output, EthTypes, EthTypeOK, Places, SpinOver
<1>5. CASE Spin
  BY <1>5, EthVars, EthConstants DEF Spin, EthTypes, EthTypeOK, Places, SpinOver
<1>6. CASE SpinFree
  BY <1>6, EthVars, EthConstants DEF SpinFree, EthTypes, EthTypeOK, Places, SpinOver
<1>7. CASE Copy
  <2>1. PICK f \in 0 .. MaxTx : f = NewFrame
    <3>1. accepted \in Seq(Nat) /\ Len(accepted) < MaxTx
      BY <1>7, EthVars DEF Copy
    <3> QED
      BY <3>1, EthConstants, LenProperties DEF NewFrame
  <2>2. txRing' \in [TxSlots -> [own : BOOLEAN, frame : 0 .. MaxTx]]
    BY <1>7, <2>1, EthVars DEF Copy
  <2> QED
    BY <1>7, <2>2, EthVars, EthConstants DEF Copy, EthTypes, EthTypeOK, Places, SpinOver
<1>8. CASE HandOver
  <2>1. txRing' \in [TxSlots -> [own : BOOLEAN, frame : 0 .. MaxTx]]
    BY <1>8, EthVars DEF HandOver
  <2>2. txIdx' \in TxSlots
    BY <1>8, EthVars, EthConstants, NextPlace DEF HandOver, NextTx, TxSlots
  <2>3. accepted' \in Seq(Nat)
    <3>1. accepted \in Seq(Nat) /\ NewFrame \in Nat
      BY EthVars, LenProperties DEF NewFrame
    <3> QED
      BY <1>8, <3>1, AppendProperties DEF HandOver
  <2> QED
    BY <1>8, <2>1, <2>2, <2>3, EthVars, EthConstants
       DEF HandOver, EthTypes, EthTypeOK, Places, SpinOver
<1>9. CASE SpinOver
  BY <1>9, EthVars, EthConstants DEF SpinOver, EthTypes, EthTypeOK, Places
<1> QED
  BY <1>1, <1>2, <1>3, <1>4, <1>5, <1>6, <1>7, <1>8, <1>9 DEF NetStep

LEMMA EthNetStep ==
    ASSUME EthInv, NetStep, UNCHANGED expired \/ SpinOver
    PROVE  EthInv'
<1>1. EthTypes /\ EachOnce /\ (inits = 0 => RxRight) /\ TxRight
  BY DEF EthInv
<1>2. /\ UNCHANGED <<rxRing, rxIdx, rxDma, arrived, stored, delivered, dropped, inits>>
      /\ pc' # "give"
  <2>1. ASSUME LwipReturn PROVE pc' # "give"
    BY <1>1, <2>1, EthVars DEF LwipReturn
  <2> QED
    BY <2>1 DEF NetStep, Drain, RxNone, LwipReturn, Output, Spin, SpinFree, Copy, HandOver,
       SpinOver, TaskStep, rxVars
<1>3. EachOnce' /\ (inits' = 0 => RxRight')
  BY <1>1, <1>2, ReceiveSame
\* Only hal_eth_tx() gets to the buffer, with a descriptor that is the driver's.
<1>4. TxRight'
  <2>1. SUFFICES ASSUME pc' = "write", ~ expired' PROVE ~ txRing'[txIdx'].own
    BY DEF TxRight
  <2>2. SpinFree
    <3>1. ASSUME LwipReturn PROVE FALSE
      BY <1>1, <2>1, <3>1, EthVars DEF LwipReturn
    <3>2. ASSUME Spin PROVE FALSE
      BY <2>1, <3>2 DEF Spin, TaskStep
    <3> QED
      BY <2>1, <3>1, <3>2 DEF NetStep, Drain, RxNone, Output, Copy, HandOver, SpinOver
  <2> QED
    BY <2>2 DEF SpinFree, TaskStep, txVars
<1>5. EthTypes'
  BY <1>1, NetStepTypes
<1> QED
  BY <1>3, <1>4, <1>5 DEF EthInv

\* hal_eth_rx() reads the descriptor it looks at.
LEMMA EthTake ==
    ASSUME EthInv, RxTake, UNCHANGED expired
    PROVE  EthInv'
<1>1. EthTypes /\ EachOnce /\ (inits = 0 => RxRight)
  BY DEF EthInv
<1>2. /\ pc = "rx" /\ pc' = "give" /\ ~ rxRing[rxIdx].own /\ rxIdx \in RxSlots
      /\ desc' = [at |-> rxIdx, frame |-> rxRing[rxIdx].frame, kind |-> rxRing[rxIdx].kind]
      /\ UNCHANGED <<rxVars, txVars, arrived, stored, delivered, dropped, inits>>
  BY <1>1, EthVars DEF RxTake, TaskStep
<1>3. desc' \in [at : RxSlots, frame : 0 .. MaxRx, kind : FrameKinds]
  BY <1>1, <1>2, EthVars
<1>4. EthTypes'
  BY <1>1, <1>2, <1>3, EthVars, EthConstants
     DEF RxTake, TaskStep, EthTypes, EthTypeOK, Places, rxVars, txVars
<1>5. EachOnce'
  BY <1>1, <1>2 DEF EachOnce, DeliveredOnce, rxVars
<1>6. ASSUME inits = 0 PROVE RxRight'
  BY <1>1, <1>2, <1>6 DEF RxRight, RingSplit, RingInOrder, NoneLost, LookedAt, InRing, Dist, rxVars
<1>7. TxRight'
  BY <1>2 DEF TxRight
<1> QED
  BY <1>2, <1>4, <1>5, <1>6, <1>7 DEF EthInv
-----------------------------------------------------------------------------
(***************************************************************************)
(* A frame comes in.                                                       *)
(***************************************************************************)
LEMMA EthReceive ==
    ASSUME EthInv, DmaReceive
    PROVE  EthInv'
<1>1. EthTypes /\ EachOnce /\ (inits = 0 => RxRight) /\ TxRight
  BY DEF EthInv
<1>2. /\ UNCHANGED <<rxIdx, txVars, taskVars, delivered, dropped, txLog, inits, expired>>
      /\ arrived' = arrived + 1 /\ arrived < MaxRx /\ arrived \in Nat /\ rxDma \in RxSlots
      /\ rxIdx \in RxSlots /\ arrived' \in 0 .. MaxRx
  <2>1. arrived \in 0 .. MaxRx /\ rxDma \in RxSlots /\ rxIdx \in RxSlots
    BY <1>1, EthVars
  <2>2. /\ UNCHANGED <<rxIdx, txVars, taskVars, delivered, dropped, txLog, inits, expired>>
        /\ arrived' = arrived + 1 /\ arrived < MaxRx
    BY DEF DmaReceive
  <2> QED
    BY <2>1, <2>2, EthConstants
<1>3. TxRight'
  BY <1>1, <1>2 DEF TxRight, txVars, taskVars
<1>4. CASE ~ rxRing[rxDma].own
  <2>1. UNCHANGED <<rxRing, rxDma, stored>>
    BY <1>4 DEF DmaReceive
  <2>2. EthTypes'
    BY <1>1, <1>2, <2>1, EthVars DEF EthTypes, EthTypeOK, txVars, taskVars, txLog
  <2>3. EachOnce'
    <3>1. delivered \in Seq(Nat)
      BY <1>1, EthVars
    <3>2. \A i \in DOMAIN delivered : delivered[i] \in Nat
      BY <3>1
    <3> QED
      BY <1>1, <1>2, <2>1, <3>2 DEF EachOnce, DeliveredOnce, taskVars
  <2>4. ASSUME inits = 0 PROVE RxRight'
    <3>1. \A f \in dropped : f \in Nat
      BY <1>1, EthVars
    <3>2. NoneLost'
      BY <1>1, <1>2, <2>1, <2>4, <3>1 DEF RxRight, NoneLost, InRing
    <3> QED
      BY <1>1, <1>2, <2>1, <2>4, <3>2 DEF RxRight, RingSplit, RingInOrder, LookedAt, Dist, taskVars
  <2> QED
    BY <1>2, <1>3, <2>2, <2>3, <2>4 DEF EthInv
<1>5. CASE rxRing[rxDma].own
  <2>1. PICK k \in FrameKinds :
          /\ rxRing' = [rxRing EXCEPT ![rxDma] = [own |-> FALSE, frame |-> arrived', kind |-> k]]
          /\ rxDma' = (rxDma + 1) % RxDescs
          /\ stored' = IF k = "good" THEN stored \cup {arrived'} ELSE stored
    BY <1>5 DEF DmaReceive
  <2>2. PICK a \in 1 .. MaxRx : a = arrived' /\ a = arrived + 1 /\ a \in Nat /\ a > arrived
    BY <1>2, EthConstants
  <2>3. /\ rxRing' \in [RxSlots -> [own : BOOLEAN, frame : 0 .. MaxRx, kind : FrameKinds]]
        /\ ~ rxRing'[rxDma].own /\ rxRing'[rxDma].frame = a /\ rxRing'[rxDma].kind = k
        /\ \A d \in RxSlots : d # rxDma => rxRing'[d] = rxRing[d]
    BY <1>1, <1>2, <2>1, <2>2, EthVars, EthConstants
  <2>4. rxDma' \in RxSlots
    BY <1>2, <2>1, DmaMoves
  <2>5. stored' \subseteq Nat
    BY <1>1, <2>1, <2>2, EthVars
  <2>6. EthTypes'
    BY <1>1, <1>2, <2>3, <2>4, <2>5, EthVars DEF EthTypes, EthTypeOK, txVars, taskVars, txLog
  <2>7. /\ delivered \in Seq(Nat) /\ \A i \in DOMAIN delivered : delivered[i] \in Nat
        /\ \A f \in Range(delivered) : \E i \in DOMAIN delivered : f = delivered[i]
        /\ \A f \in dropped : f \in Nat
        /\ \A d \in RxSlots : rxRing[d].frame \in Nat
        /\ desc.frame \in Nat
    <3>1. /\ delivered \in Seq(Nat) /\ dropped \subseteq Nat
          /\ rxRing \in [RxSlots -> [own : BOOLEAN, frame : 0 .. MaxRx, kind : FrameKinds]]
          /\ desc \in [at : RxSlots, frame : 0 .. MaxRx, kind : FrameKinds]
      BY <1>1, EthVars
    <3>2. \A f \in 0 .. MaxRx : f \in Nat
      BY EthConstants
    <3>3. (\A d \in RxSlots : rxRing[d].frame \in Nat) /\ desc.frame \in Nat
      BY <3>1, <3>2
    <3>4. \A i \in DOMAIN delivered : delivered[i] \in Nat
      BY <3>1
    <3>5. \A f \in Range(delivered) : \E i \in DOMAIN delivered : f = delivered[i]
      BY DEF Range
    <3> QED
      BY <3>1, <3>3, <3>4, <3>5
  <2>8. \A f \in Range(delivered) : f \in Nat /\ f <= arrived
    BY <1>1, <2>7 DEF EachOnce
  <2>9. \A d \in RxSlots : ~ rxRing[d].own => rxRing[d].frame <= arrived
    BY <1>1, <1>2 DEF EachOnce
  \* The frame is later than all there were.
  <2>10. EachOnce'
    <3>1. DeliveredOnce' /\ \A i \in DOMAIN delivered' : delivered'[i] <= arrived'
      BY <1>1, <1>2, <2>7 DEF EachOnce, DeliveredOnce
    <3>2. ASSUME NEW d \in RxSlots, ~ rxRing'[d].own
          PROVE  /\ rxRing'[d].frame \in 1 .. arrived' /\ rxRing'[d].frame \notin Range(delivered')
                 /\ \A e \in RxSlots :
                      ~ rxRing'[e].own /\ rxRing'[e].frame = rxRing'[d].frame => e = d
      <4>1. CASE d = rxDma
        <5>1. rxRing'[d].frame = a /\ a \in 1 .. arrived'
          BY <2>2, <2>3, <4>1
        <5>2. a \notin Range(delivered')
          BY <1>2, <2>2, <2>8
        <5>3. \A e \in RxSlots : e # rxDma /\ ~ rxRing'[e].own => rxRing'[e].frame # a
          BY <1>2, <2>2, <2>3, <2>7, <2>9
        <5> QED
          BY <4>1, <5>1, <5>2, <5>3
      <4>2. CASE d # rxDma
        <5>1. rxRing'[d] = rxRing[d] /\ ~ rxRing[d].own
          BY <2>3, <3>2, <4>2
        <5>2. rxRing[d].frame \in 1 .. arrived'
          BY <1>1, <1>2, <5>1 DEF EachOnce
        <5>3. rxRing[d].frame # a
          BY <1>2, <2>2, <2>7, <2>9, <5>1
        <5>4. \A e \in RxSlots : ~ rxRing'[e].own /\ rxRing'[e].frame = rxRing[d].frame => e = d
          BY <1>1, <2>3, <5>1, <5>3 DEF EachOnce
        <5> QED
          BY <1>1, <1>2, <5>1, <5>2, <5>4 DEF EachOnce
      <4> QED
        BY <4>1, <4>2
    <3>3. ASSUME pc = "give"
          PROVE  /\ desc.frame \in 1 .. arrived' /\ desc.frame \notin Range(delivered)
                 /\ \A d \in RxSlots : ~ rxRing'[d].own /\ rxRing'[d].frame = desc.frame
                                         => d = desc.at
      <4>1. desc.frame \in 1 .. arrived /\ desc.frame # a
        BY <1>1, <1>2, <2>2, <3>3 DEF EachOnce
      <4> QED
        BY <1>1, <1>2, <2>3, <3>3, <4>1 DEF EachOnce
    <3> QED
      BY <1>2, <3>1, <3>2, <3>3 DEF EachOnce, taskVars
  <2>11. ASSUME inits = 0 PROVE RxRight'
    <3>1. RingSplit /\ RingInOrder /\ NoneLost /\ LookedAt
      BY <1>1, <2>11 DEF RxRight
    <3>2. /\ \A d \in RxSlots : Dist(rxIdx, d) \in RxSlots /\ (Dist(rxIdx, d) = 0 <=> d = rxIdx)
          /\ \A d, e \in RxSlots : Dist(rxIdx, e) = Dist(rxIdx, d) => e = d
      BY <1>2, Distances
    <3>3. Dist(rxIdx, rxDma') = IF Dist(rxIdx, rxDma) + 1 = RxDescs THEN 0
                                ELSE Dist(rxIdx, rxDma) + 1
      BY <1>2, <2>1, DmaMoves
    <3>4. PICK n \in RxSlots : n = Dist(rxIdx, rxDma)
      BY <1>2, <3>2
    \* Those of the driver are the n from rxIdx on, and now one more.
    <3>5. \A d \in RxSlots : ~ rxRing[d].own <=> Dist(rxIdx, d) < n
      <4>1. CASE rxIdx = rxDma
        <5>1. n = 0 /\ \A d \in RxSlots : rxRing[d].own
          BY <1>2, <1>5, <3>1, <3>2, <3>4, <4>1 DEF RingSplit
        <5>2. \A d \in RxSlots : ~ (Dist(rxIdx, d) < 0)
          BY <3>2 DEF RxSlots
        <5> QED
          BY <5>1, <5>2
      <4>2. CASE rxIdx # rxDma
        BY <3>1, <3>4, <4>2 DEF RingSplit
      <4> QED
        BY <4>1, <4>2
    <3>6. \A d \in RxSlots : ~ rxRing'[d].own <=> Dist(rxIdx, d) <= n
      <4>1. ASSUME NEW d \in RxSlots PROVE ~ rxRing'[d].own <=> Dist(rxIdx, d) <= n
        <5>1. CASE d = rxDma
          BY <2>3, <3>4, <5>1 DEF RxSlots
        <5>2. CASE d # rxDma
          <6>1. Dist(rxIdx, d) # n /\ Dist(rxIdx, d) \in Int /\ n \in Int
            BY <1>2, <3>2, <3>4, <5>2 DEF RxSlots
          <6>2. rxRing'[d].own = rxRing[d].own
            BY <2>3, <5>2
          <6>3. Dist(rxIdx, d) < n <=> Dist(rxIdx, d) <= n
            BY <6>1
          <6>4. ~ rxRing[d].own <=> Dist(rxIdx, d) < n
            BY <3>5
          <6> QED
            BY <6>2, <6>3, <6>4
        <5> QED
          BY <5>1, <5>2
      <4> QED
        BY <4>1
    <3>7. RingSplit'
      <4>1. CASE n + 1 = RxDescs
        <5>1. Dist(rxIdx, rxDma') = 0
          BY <3>3, <3>4, <4>1
        <5>2. rxIdx = rxDma'
          BY <2>4, <3>2, <5>1
        <5>3. \A d \in RxSlots : Dist(rxIdx, d) <= n
          BY <3>2, <4>1, EthConstants DEF RxSlots
        <5> QED
          BY <1>2, <3>6, <5>2, <5>3 DEF RingSplit
      <4>2. CASE n + 1 # RxDescs
        <5>1. Dist(rxIdx, rxDma') = n + 1 /\ n + 1 # 0
          BY <3>3, <3>4, <4>2 DEF RxSlots
        <5>2. rxIdx # rxDma'
          BY <1>2, <2>4, <3>2, <5>1
        <5>3. \A d \in RxSlots : ~ rxRing'[d].own <=> Dist(rxIdx, d) < Dist(rxIdx, rxDma')
          BY <3>2, <3>6, <5>1, EthConstants DEF RxSlots
        <5> QED
          BY <1>2, <5>2, <5>3 DEF RingSplit, Dist
      <4> QED
        BY <4>1, <4>2
    <3>8. RingInOrder'
      <4>1. ASSUME NEW d \in RxSlots, NEW e \in RxSlots, ~ rxRing'[d].own, ~ rxRing'[e].own,
                   Dist(rxIdx, d) < Dist(rxIdx, e)
            PROVE  rxRing'[d].frame < rxRing'[e].frame
        <5>1. d # rxDma
          <6>1. Dist(rxIdx, e) <= n
            BY <3>6, <4>1
          <6> QED
            BY <3>2, <3>4, <4>1, <6>1 DEF RxSlots
        <5>2. rxRing'[d].frame = rxRing[d].frame /\ ~ rxRing[d].own /\ rxRing[d].frame < a
          BY <1>2, <2>2, <2>3, <2>7, <2>9, <4>1, <5>1
        <5>3. CASE e = rxDma
          BY <2>3, <5>2, <5>3
        <5>4. CASE e # rxDma
          BY <2>3, <3>1, <4>1, <5>2, <5>4 DEF RingInOrder
        <5> QED
          BY <5>3, <5>4
      <4>2. ASSUME NEW d \in RxSlots, NEW f \in Range(delivered) \cup dropped, ~ rxRing'[d].own
            PROVE  f < rxRing'[d].frame
        <5>1. CASE d = rxDma
          <6>1. f \in Nat /\ f <= arrived
            BY <2>7, <2>8, <3>1 DEF NoneLost
          <6> QED
            BY <1>2, <2>2, <2>3, <5>1, <6>1
        <5>2. CASE d # rxDma
          BY <2>3, <3>1, <4>2, <5>2 DEF RingInOrder
        <5> QED
          BY <5>1, <5>2
      <4>3. Range(delivered') \cup dropped' = Range(delivered) \cup dropped
        BY <1>2
      <4> QED
        BY <1>2, <4>1, <4>2, <4>3 DEF RingInOrder, Dist
    <3>9. NoneLost'
      <4>1. InRing' = IF k = "good" THEN InRing \cup {a} ELSE InRing
        <5>1. \A d \in RxSlots : d # rxDma => (rxRing'[d] = rxRing[d])
          BY <2>3
        <5>2. InRing' = {rxRing'[d].frame : d \in {e \in RxSlots : ~ rxRing'[e].own /\ rxRing'[e].kind = "good"}}
          BY DEF InRing
        <5> QED
          BY <1>2, <1>5, <2>3, <5>1, <5>2 DEF InRing
      <4>2. a \notin Range(delivered) /\ a \notin dropped
        BY <1>2, <2>2, <2>7, <2>8, <3>1 DEF NoneLost
      <4>3. \A f \in dropped : f <= arrived'
        BY <1>2, <2>7, <3>1 DEF NoneLost
      <4>4. UNCHANGED <<delivered, dropped>>
        BY <1>2
      <4>5. /\ stored' = Range(delivered) \cup dropped \cup InRing'
            /\ Range(delivered) \cap (dropped \cup InRing') = {} /\ dropped \cap InRing' = {}
        BY <2>1, <2>2, <3>1, <4>1, <4>2 DEF NoneLost
      <4> QED
        BY <3>1, <4>3, <4>4, <4>5 DEF NoneLost
    <3>10. LookedAt'
      <4>1. pc = "give" => rxIdx # rxDma
        BY <1>5, <3>1 DEF LookedAt
      <4> QED
        BY <1>2, <2>3, <3>1, <4>1 DEF LookedAt, taskVars
    <3> QED
      BY <3>7, <3>8, <3>9, <3>10 DEF RxRight
  <2> QED
    BY <1>2, <1>3, <2>6, <2>10, <2>11 DEF EthInv
<1> QED
  BY <1>4, <1>5
-----------------------------------------------------------------------------
(***************************************************************************)
(* hal_eth_rx() gives the descriptor back.                                 *)
(***************************************************************************)
\* What becomes of the frame: lwIP has it, or there was no pbuf for it, or it was bad.
GiveOutcome ==
    \/ /\ desc.kind = "good" /\ delivered' = Append(delivered, desc.frame) /\ UNCHANGED dropped
       /\ pc' = "lwip" /\ back' = "rx" /\ skip' = SkipBudget
    \/ /\ desc.kind = "good" /\ dropped' = dropped \cup {desc.frame} /\ UNCHANGED delivered
       /\ pc' = "lwip" /\ back' = "poll" /\ skip' = skip
    \/ /\ desc.kind # "good" /\ UNCHANGED <<delivered, dropped>> /\ skip' = skip - 1
       /\ \/ skip' > 0 /\ pc' = "rx" /\ back' = back
          \/ pc' = "lwip" /\ back' = "poll"

LEMMA GiveFacts ==
    ASSUME EthTypes, RxGive
    PROVE  /\ pc = "give" /\ pc' # "give" /\ pc' # "write" /\ GiveOutcome
           /\ UNCHANGED <<rxDma, txVars, desc, timeout, accepted, arrived, stored, sent, inits>>
           /\ rxRing' \in [RxSlots -> [own : BOOLEAN, frame : 0 .. MaxRx, kind : FrameKinds]]
           /\ rxRing'[desc.at].own
           /\ \A d \in RxSlots : d # desc.at => rxRing'[d] = rxRing[d]
           /\ rxIdx' = NextRx(rxIdx, desc.kind) /\ rxIdx' \in RxSlots
<1>1. /\ pc = "give" /\ pc' # "give" /\ pc' # "write" /\ GiveOutcome
      /\ UNCHANGED <<rxDma, txVars, desc, timeout, accepted, arrived, stored, sent, inits>>
  BY DEF RxGive, TaskStep, GiveOutcome
<1>2. rxIdx' = NextRx(rxIdx, desc.kind) /\ rxIdx' \in RxSlots
  BY EthVars, DriverMoves DEF RxGive
<1>3. rxRing' = [rxRing EXCEPT ![desc.at].own = TRUE] /\ desc.at \in RxSlots
      /\ rxRing \in [RxSlots -> [own : BOOLEAN, frame : 0 .. MaxRx, kind : FrameKinds]]
  BY EthVars DEF RxGive, GivenBack
<1> QED
  BY <1>1, <1>2, <1>3

LEMMA GiveTypes ==
    ASSUME EthTypes, RxGive, UNCHANGED expired
    PROVE  EthTypes'
<1>1. /\ pc = "give" /\ GiveOutcome
      /\ UNCHANGED <<rxDma, txVars, desc, timeout, accepted, arrived, stored, sent, inits>>
      /\ rxRing' \in [RxSlots -> [own : BOOLEAN, frame : 0 .. MaxRx, kind : FrameKinds]]
      /\ rxIdx' \in RxSlots
  BY GiveFacts
<1>2. /\ desc.frame \in Nat /\ skip \in 1 .. SkipBudget /\ delivered \in Seq(Nat)
      /\ dropped \subseteq Nat /\ back \in {"poll", "rx"}
  <2>1. /\ desc \in [at : RxSlots, frame : 0 .. MaxRx, kind : FrameKinds] /\ skip \in 0 .. SkipBudget
        /\ skip > 0 /\ delivered \in Seq(Nat) /\ dropped \subseteq Nat /\ back \in {"poll", "rx"}
    BY <1>1, EthVars
  <2>2. \A f \in 0 .. MaxRx : f \in Nat
    BY EthConstants
  <2>3. desc.frame \in Nat
    BY <2>1, <2>2
  <2> QED
    BY <2>1, <2>3, EthConstants
<1>3. delivered' \in Seq(Nat) /\ dropped' \subseteq Nat
  <2>1. Append(delivered, desc.frame) \in Seq(Nat)
    BY <1>2, AppendProperties
  <2> QED
    BY <1>1, <1>2, <2>1 DEF GiveOutcome
<1>4. /\ skip' \in 0 .. SkipBudget /\ pc' \in {"rx", "lwip"} /\ back' \in {"poll", "rx"}
      /\ pc' = "rx" => skip' > 0
      /\ back' = "rx" /\ pc' # "rx" => skip' > 0
  BY <1>1, <1>2, EthConstants DEF GiveOutcome
<1> QED
  BY <1>1, <1>3, <1>4, EthVars DEF EthTypes, EthTypeOK, Places, txVars

LEMMA EthGive ==
    ASSUME EthInv, RxGive, UNCHANGED expired
    PROVE  EthInv'
<1>1. EthTypes /\ EachOnce /\ (inits = 0 => RxRight)
  BY DEF EthInv
<1>2. /\ pc = "give" /\ pc' # "give" /\ pc' # "write" /\ GiveOutcome
      /\ UNCHANGED <<rxDma, arrived, stored, inits>>
      /\ rxRing'[desc.at].own
      /\ \A d \in RxSlots : d # desc.at => rxRing'[d] = rxRing[d]
      /\ rxIdx' = NextRx(rxIdx, desc.kind) /\ rxIdx' \in RxSlots
  BY <1>1, GiveFacts
<1>3. EthTypes' /\ TxRight'
  BY <1>1, <1>2, GiveTypes DEF TxRight
<1>4. /\ delivered \in Seq(Nat) /\ dropped \subseteq Nat /\ arrived \in Nat
      /\ desc.frame \in Nat /\ desc.at \in RxSlots /\ rxIdx \in RxSlots /\ rxDma \in RxSlots
      /\ \A d \in RxSlots : rxRing[d].frame \in Nat
  <2>1. \A f \in 0 .. MaxRx : f \in Nat
    BY EthConstants
  <2>2. /\ rxRing \in [RxSlots -> [own : BOOLEAN, frame : 0 .. MaxRx, kind : FrameKinds]]
        /\ desc \in [at : RxSlots, frame : 0 .. MaxRx, kind : FrameKinds]
        /\ delivered \in Seq(Nat) /\ dropped \subseteq Nat /\ arrived \in 0 .. MaxRx
        /\ rxIdx \in RxSlots /\ rxDma \in RxSlots
    BY <1>1, EthVars
  <2> QED
    BY <2>1, <2>2
<1>5. PICK f \in Nat : f = desc.frame
  BY <1>4
<1>6. /\ f \in 1 .. arrived /\ f \notin Range(delivered)
      /\ \A d \in RxSlots : ~ rxRing[d].own /\ rxRing[d].frame = f => d = desc.at
  BY <1>1, <1>2, <1>5 DEF EachOnce
<1>7. \/ Range(delivered') = Range(delivered) \cup {f} /\ delivered' = Append(delivered, f)
         /\ dropped' = dropped /\ desc.kind = "good"
      \/ delivered' = delivered /\ dropped' = dropped \cup {f} /\ desc.kind = "good"
      \/ UNCHANGED <<delivered, dropped>> /\ desc.kind # "good"
  <2>1. Range(Append(delivered, f)) = Range(delivered) \cup {f}
    BY <1>4, RangeOf
  <2> QED
    BY <1>2, <1>5, <2>1 DEF GiveOutcome
<1>8. \A d \in RxSlots : ~ rxRing'[d].own => d # desc.at /\ ~ rxRing[d].own /\ rxRing'[d] = rxRing[d]
  BY <1>2
<1>9. EachOnce'
  <2>1. /\ DeliveredOnce' /\ \A i \in DOMAIN delivered' : delivered'[i] <= arrived
        /\ Range(delivered') \subseteq Range(delivered) \cup {f}
    <3>1. CASE delivered' = delivered
      BY <1>1, <3>1 DEF EachOnce, DeliveredOnce
    <3>2. CASE delivered' = Append(delivered, f) /\ Range(delivered') = Range(delivered) \cup {f}
      <4>1. /\ DOMAIN delivered' = 1 .. Len(delivered) + 1 /\ DOMAIN delivered = 1 .. Len(delivered)
            /\ Len(delivered) \in Nat /\ delivered'[Len(delivered) + 1] = f
            /\ \A i \in 1 .. Len(delivered) : delivered'[i] = delivered[i] /\ delivered[i] # f
        BY <1>4, <1>6, <3>2, RangeOf
      <4>2. DeliveredOnce'
        BY <1>1, <4>1 DEF EachOnce, DeliveredOnce
      <4>3. \A i \in DOMAIN delivered' : delivered'[i] <= arrived
        BY <1>1, <1>6, <4>1 DEF EachOnce
      <4> QED
        BY <3>2, <4>2, <4>3
    <3> QED
      BY <1>7, <3>1, <3>2
  <2>2. ASSUME NEW d \in RxSlots, ~ rxRing'[d].own
        PROVE  /\ rxRing'[d].frame \in 1 .. arrived /\ rxRing'[d].frame \notin Range(delivered')
               /\ \A e \in RxSlots :
                    ~ rxRing'[e].own /\ rxRing'[e].frame = rxRing'[d].frame => e = d
    BY <1>1, <1>6, <1>8, <2>1, <2>2 DEF EachOnce
  <2> QED
    BY <1>2, <2>1, <2>2 DEF EachOnce
<1>10. ASSUME inits = 0 PROVE RxRight'
  <2>1. RingSplit /\ RingInOrder /\ NoneLost /\ LookedAt
    BY <1>1, <1>10 DEF RxRight
  <2>2. /\ ~ rxRing[rxIdx].own /\ desc.at = rxIdx /\ rxRing[rxIdx].frame = f
        /\ rxRing[rxIdx].kind = desc.kind
    BY <1>2, <1>5, <2>1 DEF LookedAt
  <2>3. /\ \A d \in RxSlots : Dist(rxIdx, d) \in RxSlots /\ (Dist(rxIdx, d) = 0 <=> d = rxIdx)
        /\ \A d \in RxSlots : Dist(rxIdx', d) \in RxSlots /\ (Dist(rxIdx', d) = 0 <=> d = rxIdx')
        /\ \A d, e \in RxSlots : Dist(rxIdx, e) = Dist(rxIdx, d) => e = d
        /\ \A d \in RxSlots :
             Dist(rxIdx', d) = IF d = rxIdx THEN RxDescs - 1 ELSE Dist(rxIdx, d) - 1
    BY <1>2, <1>4, Distances, DriverMoves
  <2>4. PICK m \in 1 .. RxDescs :
          /\ m = IF rxIdx = rxDma THEN RxDescs ELSE Dist(rxIdx, rxDma)
          /\ \A d \in RxSlots : ~ rxRing[d].own <=> Dist(rxIdx, d) < m
    <3>1. CASE rxIdx = rxDma
      <4>1. \A d \in RxSlots : ~ rxRing[d].own
        BY <1>4, <2>1, <2>2, <3>1 DEF RingSplit
      <4>2. \A d \in RxSlots : Dist(rxIdx, d) < RxDescs
        BY <2>3, EthConstants DEF RxSlots
      <4> QED
        BY <3>1, <4>1, <4>2, EthConstants
    <3>2. CASE rxIdx # rxDma
      <4>1. Dist(rxIdx, rxDma) \in 1 .. RxDescs
        <5>1. Dist(rxIdx, rxDma) \in RxSlots /\ Dist(rxIdx, rxDma) # 0
          BY <1>4, <2>3, <3>2
        <5> QED
          BY <5>1, EthConstants DEF RxSlots
      <4> QED
        BY <2>1, <3>2, <4>1 DEF RingSplit
    <3> QED
      BY <3>1, <3>2
  \* One less is the driver's, from the next one on.
  <2>5. \A d \in RxSlots : ~ rxRing'[d].own <=> Dist(rxIdx', d) < m - 1
    <3>1. ASSUME NEW d \in RxSlots PROVE ~ rxRing'[d].own <=> Dist(rxIdx', d) < m - 1
      <4>1. CASE d = rxIdx
        <5>1. rxRing'[d].own /\ Dist(rxIdx', d) = RxDescs - 1
          BY <1>2, <2>2, <2>3, <4>1
        <5> QED
          BY <2>4, <5>1, EthConstants
      <4>2. CASE d # rxIdx
        <5>1. rxRing'[d].own = rxRing[d].own /\ Dist(rxIdx', d) = Dist(rxIdx, d) - 1
          BY <1>2, <2>2, <2>3, <4>2
        <5>2. Dist(rxIdx, d) \in Int /\ m \in Int
          BY <2>3, <2>4 DEF RxSlots
        <5> QED
          BY <2>4, <5>1, <5>2
      <4> QED
        BY <4>1, <4>2
    <3> QED
      BY <3>1
  <2>6. Dist(rxIdx', rxDma) = m - 1
    BY <1>4, <2>3, <2>4
  <2>7. RingSplit'
    <3>1. CASE m = 1
      <4>1. rxIdx' = rxDma
        BY <1>4, <2>3, <2>6, <3>1
      <4>2. \A d \in RxSlots : rxRing'[d].own
        BY <2>3, <2>5, <3>1 DEF RxSlots
      <4> QED
        BY <1>2, <4>1, <4>2 DEF RingSplit
    <3>2. CASE m # 1
      <4>1. rxIdx' # rxDma
        <5>1. m - 1 # 0
          BY <2>4, <3>2
        <5> QED
          BY <1>2, <1>4, <2>3, <2>6, <5>1
      <4> QED
        BY <1>2, <2>5, <2>6, <4>1 DEF RingSplit, Dist
    <3> QED
      BY <3>1, <3>2
  <2>8. \A d \in RxSlots : ~ rxRing'[d].own => f < rxRing[d].frame /\ rxRing'[d] = rxRing[d]
                                               /\ ~ rxRing[d].own /\ d # rxIdx
    <3>1. ASSUME NEW d \in RxSlots, ~ rxRing'[d].own PROVE f < rxRing[d].frame
      <4>1. d # rxIdx /\ ~ rxRing[d].own
        BY <1>8, <2>2, <3>1
      <4>2. Dist(rxIdx, rxIdx) = 0 /\ Dist(rxIdx, d) # 0 /\ Dist(rxIdx, d) \in Nat
        BY <1>4, <2>3, <4>1 DEF RxSlots
      <4>3. Dist(rxIdx, rxIdx) < Dist(rxIdx, d)
        BY <4>2
      <4> QED
        BY <1>4, <2>1, <2>2, <4>1, <4>3 DEF RingInOrder
    <3> QED
      BY <1>8, <2>2, <3>1
  <2>9. RingInOrder'
    <3>1. ASSUME NEW d \in RxSlots, NEW e \in RxSlots, ~ rxRing'[d].own, ~ rxRing'[e].own,
                 Dist(rxIdx', d) < Dist(rxIdx', e)
          PROVE  rxRing'[d].frame < rxRing'[e].frame
      <4>1. Dist(rxIdx, d) < Dist(rxIdx, e)
        <5>1. /\ Dist(rxIdx', d) = Dist(rxIdx, d) - 1 /\ Dist(rxIdx', e) = Dist(rxIdx, e) - 1
              /\ Dist(rxIdx, d) \in Int /\ Dist(rxIdx, e) \in Int
          BY <2>3, <2>8, <3>1 DEF RxSlots
        <5> QED
          BY <3>1, <5>1
      <4> QED
        BY <2>1, <2>8, <3>1, <4>1 DEF RingInOrder
    <3>2. ASSUME NEW d \in RxSlots, NEW g \in Range(delivered') \cup dropped', ~ rxRing'[d].own
          PROVE  g < rxRing'[d].frame
      <4>1. g = f \/ g \in Range(delivered) \cup dropped
        BY <1>7, <3>2
      <4> QED
        BY <2>1, <2>8, <3>2, <4>1 DEF RingInOrder
    <3> QED
      BY <3>1, <3>2 DEF RingInOrder, Dist
  <2>10. NoneLost'
    <3>1. InRing = IF desc.kind = "good" THEN InRing' \cup {f} ELSE InRing'
      BY <1>2, <1>4, <1>8, <2>2 DEF InRing
    <3>2. f \notin InRing' /\ f \notin dropped /\ f \notin Range(delivered)
      <4>1. \A d \in RxSlots : ~ rxRing'[d].own => rxRing'[d].frame # f
        BY <1>4, <2>8
      <4>2. \A g \in Range(delivered) \cup dropped : g < f
        BY <1>4, <2>1, <2>2 DEF RingInOrder
      <4> QED
        BY <1>5, <4>1, <4>2 DEF InRing
    <3>3. /\ stored' = Range(delivered') \cup dropped' \cup InRing'
          /\ Range(delivered') \cap (dropped' \cup InRing') = {} /\ dropped' \cap InRing' = {}
      <4>1. stored = Range(delivered) \cup dropped \cup InRing
            /\ Range(delivered) \cap (dropped \cup InRing) = {} /\ dropped \cap InRing = {}
        BY <2>1 DEF NoneLost
      <4>2. CASE Range(delivered') = Range(delivered) \cup {f} /\ dropped' = dropped
                 /\ desc.kind = "good"
        BY <1>2, <3>1, <3>2, <4>1, <4>2
      <4>3. CASE delivered' = delivered /\ dropped' = dropped \cup {f} /\ desc.kind = "good"
        BY <1>2, <3>1, <3>2, <4>1, <4>3
      <4>4. CASE UNCHANGED <<delivered, dropped>> /\ desc.kind # "good"
        BY <1>2, <3>1, <3>2, <4>1, <4>4
      <4> QED
        BY <1>7, <4>2, <4>3, <4>4
    <3>4. \A i, j \in DOMAIN delivered' : i < j => delivered'[i] < delivered'[j]
      <4>1. CASE delivered' = delivered
        BY <2>1, <4>1 DEF NoneLost
      <4>2. CASE delivered' = Append(delivered, f)
        <5>1. /\ DOMAIN delivered' = 1 .. Len(delivered) + 1
              /\ DOMAIN delivered = 1 .. Len(delivered)
              /\ Len(delivered) \in Nat /\ delivered'[Len(delivered) + 1] = f
              /\ \A i \in 1 .. Len(delivered) : delivered'[i] = delivered[i]
                                                /\ delivered[i] \in Range(delivered)
          BY <1>4, <4>2, RangeOf DEF Range
        <5>2. \A i \in 1 .. Len(delivered) : delivered[i] < f
          BY <1>4, <2>1, <2>2, <5>1 DEF RingInOrder
        <5>3. \A i, j \in 1 .. Len(delivered) : i < j => delivered[i] < delivered[j]
          BY <2>1, <5>1 DEF NoneLost
        <5> QED
          BY <5>1, <5>2, <5>3
      <4> QED
        BY <1>7, <4>1, <4>2
    <3>5. \A g \in dropped' : g <= arrived'
      BY <1>2, <1>6, <1>7, <2>1 DEF NoneLost
    <3> QED
      BY <3>3, <3>4, <3>5 DEF NoneLost
  <2>11. LookedAt'
    BY <1>2 DEF LookedAt
  <2> QED
    BY <2>7, <2>9, <2>10, <2>11 DEF RxRight
<1> QED
  BY <1>2, <1>3, <1>9, <1>10 DEF EthInv
-----------------------------------------------------------------------------
(***************************************************************************)
(* The theorems.                                                           *)
(***************************************************************************)
\* Every variable has its type, the two sides share the receive ring at their two
\* indices, and the driver meets new frames in the order of their arrival.
THEOREM EthInvariant == EthSpec => []EthInv
<1>1. EthInv /\ [EthNext]_ethVars => EthInv'
  <2>1. SUFFICES ASSUME EthInv, [EthNext]_ethVars PROVE EthInv'
    OBVIOUS
  <2>2. CASE DmaReceive
    BY <2>1, <2>2, EthReceive
  <2>3. CASE DmaSend
    BY <2>1, <2>3, EthSend
  <2>4. CASE Reinit
    BY <2>1, <2>4, EthReinit
  <2>5. CASE RxTake /\ UNCHANGED expired
    BY <2>1, <2>5, EthTake
  <2>6. CASE RxGive /\ UNCHANGED expired
    BY <2>1, <2>6, EthGive
  <2>7. CASE NetStep /\ (UNCHANGED expired \/ SpinOver)
    BY <2>1, <2>7, EthNetStep
  <2>8. CASE UNCHANGED ethVars
    <3>1. EthTypes /\ EachOnce /\ (inits = 0 => RxRight) /\ TxRight
      BY <2>1 DEF EthInv
    <3>2. EthTypes'
      BY <2>8, <3>1 DEF EthTypes, EthTypeOK, ethVars, rxVars, txVars, taskVars, rxLog, txLog
    <3>3. TxRight'
      BY <2>8, <3>1 DEF TxRight, ethVars, txVars, taskVars
    <3>4. EachOnce' /\ (inits' = 0 => RxRight')
      BY <2>8, <3>1, ReceiveSame DEF ethVars, rxVars, taskVars, rxLog
    <3> QED
      BY <3>2, <3>3, <3>4 DEF EthInv
  <2> QED
    BY <2>1, <2>2, <2>3, <2>4, <2>5, <2>6, <2>7, <2>8 DEF EthNext, NetTask, NetStep
<1> QED
  BY <1>1, EthStart, PTL DEF EthSpec

\* Through full rings, bad frames, missing pbufs and ended budgets every good frame is given
\* to lwIP once and in order or dropped for want of a pbuf, as long as no net init makes the
\* rings anew; and none is given to it twice even then.
THEOREM FramesInOrderCorrect == EthSpec => []FramesInOrder
<1>1. EthInv => FramesInOrder
  BY DEF EthInv, EthTypes, EachOnce, RxRight, NoneLost, FramesInOrder
<1> QED
  BY <1>1, EthInvariant, PTL

\* hal_eth_tx() changes no buffer that is the DMA's, while no wait of it has run out and no
\* net init has made the rings anew.
THEOREM BufferStableCorrect == EthSpec => BufferStableInTime
<1> DEFINE Stable == ~ expired' /\ inits' = 0
                       => \A d \in TxSlots : txRing[d].own => txRing'[d].frame = txRing[d].frame
<1>1. ASSUME EthInv, [EthNext]_ethVars PROVE Stable
  <2>1. EthTypes /\ TxRight
    BY <1>1 DEF EthInv
  <2>2. txRing \in [TxSlots -> [own : BOOLEAN, frame : 0 .. MaxTx]] /\ inits \in Nat
    BY <2>1, EthVars
  <2>3. CASE txRing' = txRing
    BY <2>3
  <2>4. CASE DmaSent
    BY <2>2, <2>4 DEF DmaSent
  <2>5. CASE Copy /\ UNCHANGED expired
    <3>1. pc = "write" /\ inits' = inits /\ txRing' = [txRing EXCEPT ![txIdx].frame = NewFrame]
      BY <2>5 DEF Copy, TaskStep
    <3> QED
      BY <2>1, <2>2, <2>5, <3>1 DEF TxRight
  <2>6. CASE HandOver
    BY <2>2, <2>6 DEF HandOver
  <2>7. CASE Reinit
    BY <2>2, <2>7 DEF Reinit
  <2> QED
    BY <1>1, <2>3, <2>4, <2>5, <2>6, <2>7
       DEF EthNext, DmaReceive, DmaSend, DmaFetch, NetTask, Drain, RxNone, RxTake, RxGive,
           LwipReturn, Output, Spin, SpinFree, SpinOver, txVars, ethVars
<1>2. EthSpec => [][Stable]_ethVars
  BY <1>1, EthInvariant, PTL DEF EthSpec
<1> QED
  BY <1>2, PTL DEF BufferStableInTime

-----------------------------------------------------------------------------
(***************************************************************************)
(* The inductive invariant.                                                *)
(***************************************************************************)
ReadAt  == {"CMD17", "fifo_read", "read_end"}
WriteAt == {"CMD24", "fifo_write", "write_end", "CMD13"}

\* The step a job is at is one of its kind; a transfer is of blocks there are, from an
\* initialized driver, and has attempts left.
JobRight ==
    /\ job.at \in InitAt => job.kind = "mount" /\ ~ initialized
    /\ job.at \in ReadAt => job.kind = "read"
    /\ job.at \in WriteAt => job.kind = "write" /\ job.data \in Seq(Data)
    /\ job.at \in XferAt =>
         /\ initialized /\ job.tries < RetryMax /\ job.i < Len(job.data)
         /\ \A k \in 1 .. Len(job.data) : job.lba + k - 1 \in Blocks

\* Only the card in the slot has power.
OnePowered == \A c \in Cards : state[c] # "off" => slot = c

\* The state a card is in that has answered all the commands before this one.
Expected(at) == CASE at = "CMD2"             -> "ready"
                  [] at = "CMD3"             -> "ident"
                  [] at \in {"CMD9", "CMD7"} -> "stby"
                  [] at = "CMD16"            -> "tran"

\* From ACMD41 on an initialization is of one card: one put in since is idle and will
\* not answer.
OneIdentified ==
    job.at \in {"CMD2", "CMD3", "CMD9", "CMD7", "CMD16"} =>
        \A c \in Cards :
            /\ state[c] \in {"off", "idle", Expected(job.at)}
            /\ state[c] = Expected(job.at) =>
                 /\ high = (c \in HighCapacity)
                 /\ job.at \in {"CMD9", "CMD7", "CMD16"} => rca = c

\* What a card holds and what it programs, the calls let its block hold.
CardsRight ==
    /\ KnownCard /\ OnePowered
    /\ initialized => rca \in Cards
    /\ \A c \in Cards :
         /\ \A b \in Blocks : blocks[c][b] \in may[c][b]
         /\ state[c] = "prg" => taken[c].data \in may[c][taken[c].block]

\* At CMD13 a card still programs the block of the call, or has it.
WaitRight ==
    job.at = "CMD13" => \A c \in Cards :
        /\ state[c] = "prg" => taken[c] = [block |-> job.lba + job.i, data |-> Now]
        /\ state[c] = "tran" => blocks[c][job.lba + job.i] = Now

\* The blocks read so far are right, the one whose end is waited for included.
ReadSoFar ==
    job.at \in ReadAt =>
        /\ \A k \in 1 .. job.i : job.data[k] \in may[rca][job.lba + k - 1]
        /\ job.at = "read_end" => job.data[job.i + 1] \in may[rca][job.lba + job.i]

\* A read of a card that was ready and is still there: each attempt lost cost a fault.
AttemptsLost ==
    /\ job.swaps <= swaps
    /\ job.at \in ReadAt /\ job.ready /\ swaps = job.swaps
         => Transfers /\ faults >= job.faults + job.tries

JobInv == JobRight /\ OneIdentified /\ WaitRight /\ ReadSoFar /\ DataRight
          /\ AttemptsLost /\ RetriesUsed

SdInv == SdTypeOK /\ CardsRight /\ JobInv
-----------------------------------------------------------------------------
(***************************************************************************)
(* Helpers.                                                                *)
(***************************************************************************)
LEMMA FirstBlockThere == FirstBlock \in Blocks
<1> DEFINE R == OpToRel(<, Nat)
<1>1. IsWellFoundedOn(R, Nat)
  BY NatLessThanWellFounded, Zenon
<1>2. \A x, y \in Nat : y < x => <<y, x>> \in R
  BY DEF OpToRel
<1>3. Blocks \subseteq Nat /\ Blocks # {}
  BY CardAssumption
<1>4. \E x \in Blocks : \A y \in Blocks : <<y, x>> \notin R
  <2> HIDE DEF R
  <2> QED
    BY <1>1, <1>3, WFMin, Zenon
<1>5. \E x \in Blocks : \A y \in Blocks : x <= y
  <2>1. PICK x \in Blocks : \A y \in Blocks : <<y, x>> \notin R
    BY <1>4, Zenon
  <2>2. \A y \in Blocks : ~ (y < x)
    BY <1>2, <1>3, <2>1, Zenon
  <2>3. \A y \in Blocks : x <= y
    BY <1>3, <2>2
  <2> QED
    BY <2>3
<1> QED
  BY <1>5 DEF FirstBlock

LEMMA SeqPut ==
    ASSUME NEW S, NEW s \in Seq(S), NEW i \in 1 .. Len(s), NEW x \in S
    PROVE  /\ [s EXCEPT ![i] = x] \in Seq(S)
           /\ Len([s EXCEPT ![i] = x]) = Len(s)
           /\ [s EXCEPT ![i] = x][i] = x
           /\ \A k \in 1 .. Len(s) : k # i => [s EXCEPT ![i] = x][k] = s[k]
OBVIOUS

\* A card of high capacity is given blocks, another one bytes: either takes the block.
LEMMA AddressOfBlock ==
    ASSUME NEW c \in Cards, NEW b \in Nat, high = (c \in HighCapacity)
    PROVE  BlockAt(c, Address(b)) = b
<1>1. BlockSize \in Nat \ {0}
  BY CardAssumption
<1>2. (b * BlockSize) \div BlockSize = b
  BY <1>1
<1> QED
  BY <1>2 DEF BlockAt, Address

LEMMA JobFields ==
    ASSUME SdTypeOK
    PROVE  /\ job.at \in InitAt \cup XferAt \cup {"ok", "error"} /\ job.kind \in Kinds
           /\ job.lba \in Blocks /\ job.lba \in Nat
           /\ job.data \in Seq(Data \cup {Junk}) /\ Len(job.data) \in Nat
           /\ job.i \in Nat /\ job.tries \in Nat /\ job.polls \in Nat
           /\ job.ready \in BOOLEAN /\ job.faults \in Nat /\ job.swaps \in Nat
           /\ RetryMax \in Nat \ {0} /\ faults \in Nat /\ swaps \in Nat
<1>1. job.data \in Seq(Data \cup {Junk}) /\ job.lba \in Blocks
  BY DEF SdTypeOK, Jobs
<1>2. Len(job.data) \in Nat
  BY <1>1, LenProperties
<1>3. job.lba \in Nat
  BY <1>1, CardAssumption
<1> QED
  BY <1>1, <1>2, <1>3, CardAssumption DEF SdTypeOK, Jobs

\* A card that takes transfers in a transfer is the one the driver knows, and it is
\* sent the block the job is at.
LEMMA TransferRight ==
    ASSUME SdTypeOK, KnownCard, JobRight, job.at \in XferAt,
           NEW c \in Cards, state[c] \in {"tran", "prg"}
    PROVE  /\ rca = c /\ job.lba + job.i \in Blocks
           /\ Addressed(c) = job.lba + job.i
<1>1. rca = c /\ high = (c \in HighCapacity)
  BY DEF KnownCard, JobRight
<1>2. job.lba + job.i \in Blocks /\ job.lba + job.i \in Nat
  <2>1. job.i + 1 \in 1 .. Len(job.data) /\ job.lba \in Nat /\ job.i \in Nat
    BY JobFields DEF JobRight
  <2>2. job.lba + (job.i + 1) - 1 \in Blocks
    BY <2>1 DEF JobRight
  <2> QED
    BY <2>1, <2>2
<1>3. Addressed(c) = job.lba + job.i
  BY <1>1, <1>2, AddressOfBlock DEF Addressed
<1> QED
  BY <1>1, <1>2, <1>3

\* What a call or a step that is over leaves nothing to say of.
LEMMA JobOver ==
    ASSUME job.at \in {"ok", "error"}
    PROVE  /\ JobRight /\ OneIdentified /\ WaitRight /\ ReadSoFar
           /\ job.swaps <= swaps => AttemptsLost
           /\ job.at = "error" \/ job.kind # "read" => DataRight
           /\ job.at = "ok" \/ job.kind # "read" => RetriesUsed
BY DEF JobRight, OneIdentified, WaitRight, ReadSoFar, AttemptsLost, DataRight, RetriesUsed,
   InitAt, XferAt, ReadAt, WriteAt

LEMMA JobOverNext ==
    ASSUME job'.at \in {"ok", "error"}
    PROVE  /\ (JobRight /\ OneIdentified /\ WaitRight /\ ReadSoFar)'
           /\ job'.swaps <= swaps' => AttemptsLost'
           /\ job'.at = "error" \/ job'.kind # "read" => DataRight'
           /\ job'.at = "ok" \/ job'.kind # "read" => RetriesUsed'
BY DEF JobRight, OneIdentified, WaitRight, ReadSoFar, AttemptsLost, DataRight, RetriesUsed,
   InitAt, XferAt, ReadAt, WriteAt

LEMMA CardsSame ==
    ASSUME CardsRight, UNCHANGED <<slot, state, blocks, taken, driver, may>>
    PROVE  CardsRight'
BY DEF CardsRight, KnownCard, OnePowered, driver

\* A job that begins.
LEMMA JobType ==
    ASSUME SdTypeOK, NEW kind \in Kinds, NEW lba \in Blocks, NEW data \in Seq(Data \cup {Junk}),
           NEW at \in InitAt \cup XferAt \cup {"ok", "error"}
    PROVE  /\ Job(kind, at, lba, data) \in Jobs
           /\ \A other \in InitAt \cup XferAt \cup {"ok", "error"} :
                [Job(kind, at, lba, data) EXCEPT !.at = other] = Job(kind, other, lba, data)
<1>1. PICK ready \in BOOLEAN : ready = (kind # "mount" /\ Transfers)
  OBVIOUS
<1>2. \A a \in InitAt \cup XferAt \cup {"ok", "error"} :
        Job(kind, a, lba, data)
          = [at |-> a, kind |-> kind, lba |-> lba, data |-> data, i |-> 0, tries |-> 0,
             polls |-> 0, ready |-> ready, faults |-> faults, swaps |-> swaps]
  BY <1>1 DEF Job
<1>3. faults \in Nat /\ swaps \in Nat
  BY DEF SdTypeOK
<1> QED
  BY <1>2, <1>3 DEF Jobs

LEMMA InitSd == Init => SdInv
<1> SUFFICES ASSUME Init PROVE SdInv
  OBVIOUS
<1>1. FirstBlock \in Blocks /\ Zero \in Data /\ <<>> \in Seq(Data \cup {Junk})
  BY FirstBlockThere, CardAssumption
<1>2. job \in Jobs /\ job.at = "error" /\ job.kind = "mount" /\ job.swaps = 0
  BY <1>1 DEF Init, Booted, Job, Jobs, Kinds
<1>3. SdTypeOK
  BY <1>1, <1>2 DEF Init, SdTypeOK, Nothing
<1>4. CardsRight
  BY <1>1 DEF Init, CardsRight, KnownCard, OnePowered
<1>5. JobInv
  BY <1>2, JobOver DEF JobInv, Init
<1> QED
  BY <1>3, <1>4, <1>5 DEF SdInv
-----------------------------------------------------------------------------
(***************************************************************************)
(* The calls.                                                              *)
(***************************************************************************)
LEMMA NewRead ==
    ASSUME SdTypeOK, NEW lba \in Blocks, NEW data \in Seq(Data \cup {Junk}), Len(data) > 0,
           \A k \in 1 .. Len(data) : lba + k - 1 \in Blocks,
           job' = Job("read", "CMD17", lba, data), initialized' = TRUE,
           UNCHANGED <<slot, state, faults, swaps>>
    PROVE  job' \in Jobs /\ JobInv'
<1>1. /\ job'.at = "CMD17" /\ job'.kind = "read" /\ job'.lba = lba /\ job'.data = data
      /\ job'.i = 0 /\ job'.tries = 0 /\ job'.swaps = swaps /\ job'.faults = faults
      /\ job'.ready => Transfers
  BY DEF Job
<1>2. job' \in Jobs
  BY JobType DEF Kinds, XferAt
<1>3. RetryMax \in Nat \ {0} /\ faults \in Nat /\ swaps \in Nat
  BY JobFields
<1>4. JobRight'
  BY <1>1, <1>3 DEF JobRight, InitAt, ReadAt, WriteAt
<1>5. OneIdentified' /\ WaitRight' /\ ReadSoFar' /\ DataRight' /\ RetriesUsed'
  BY <1>1 DEF OneIdentified, WaitRight, ReadSoFar, DataRight, RetriesUsed
<1>6. AttemptsLost'
  BY <1>1, <1>3 DEF AttemptsLost, Transfers
<1> QED
  BY <1>2, <1>4, <1>5, <1>6 DEF JobInv

LEMMA NewWrite ==
    ASSUME SdTypeOK, NEW lba \in Blocks, NEW data \in Seq(Data), Len(data) > 0,
           \A k \in 1 .. Len(data) : lba + k - 1 \in Blocks,
           job' = Job("write", "CMD24", lba, data), initialized' = TRUE,
           UNCHANGED <<swaps>>
    PROVE  job' \in Jobs /\ JobInv'
<1>1. /\ job'.at = "CMD24" /\ job'.kind = "write" /\ job'.lba = lba /\ job'.data = data
      /\ job'.i = 0 /\ job'.tries = 0 /\ job'.swaps = swaps
  BY DEF Job
<1>2. job' \in Jobs
  <2>1. data \in Seq(Data \cup {Junk})
    OBVIOUS
  <2> QED
    BY <2>1, JobType DEF Kinds, XferAt
<1>3. RetryMax \in Nat \ {0} /\ swaps \in Nat
  BY JobFields
<1>4. JobRight'
  BY <1>1, <1>3 DEF JobRight, InitAt, ReadAt, WriteAt
<1>5. OneIdentified' /\ WaitRight' /\ ReadSoFar' /\ DataRight' /\ RetriesUsed'
  BY <1>1 DEF OneIdentified, WaitRight, ReadSoFar, DataRight, RetriesUsed, ReadAt
<1>6. AttemptsLost'
  BY <1>1, <1>3 DEF AttemptsLost, ReadAt
<1> QED
  BY <1>2, <1>4, <1>5, <1>6 DEF JobInv

\* A call of the disk layer that is turned away: the disk is not ready.
LEMMA TurnedAway ==
    ASSUME SdTypeOK, NEW kind \in Kinds, NEW lba \in Blocks, NEW data \in Seq(Data \cup {Junk}),
           job' = Job(kind, "error", lba, data), noinit' = TRUE \/ kind # "read",
           UNCHANGED <<swaps>>
    PROVE  job' \in Jobs /\ JobInv'
<1>1. job' \in Jobs
  BY JobType
<1>2. job'.at = "error" /\ job'.swaps = swaps /\ job'.kind = kind /\ swaps \in Nat
  BY JobFields DEF Job
<1>3. (JobRight /\ OneIdentified /\ WaitRight /\ ReadSoFar)'
  BY <1>2, JobOverNext
<1>4. (AttemptsLost /\ DataRight /\ RetriesUsed)'
  BY <1>2 DEF AttemptsLost, DataRight, RetriesUsed, ReadAt
<1> QED
  BY <1>1, <1>3, <1>4 DEF JobInv

LEMMA SdStart ==
    ASSUME SdInv, NEW kind \in {"read", "write"}, NEW lba \in Blocks,
           NEW data \in Seq(Data \cup {Junk}), kind = "write" => data \in Seq(Data),
           Len(data) > 0, \A k \in 1 .. Len(data) : lba + k - 1 \in Blocks,
           Start(kind, IF kind = "read" THEN "CMD17" ELSE "CMD24", lba, data)
    PROVE  SdInv'
<1>1. SdTypeOK /\ CardsRight /\ initialized \in BOOLEAN /\ noinit \in BOOLEAN
  BY DEF SdInv, SdTypeOK
<1>2. UNCHANGED <<slot, state, blocks, taken, initialized, rca, high, noinit, may, faults, swaps>>
  BY DEF Start
<1>3. noinit \/ initialized
  BY <1>1 DEF CardsRight, KnownCard
<1>4. job' = [Job(kind, IF kind = "read" THEN "CMD17" ELSE "CMD24", lba, data)
               EXCEPT !.at = IF noinit \/ ~initialized THEN "error" ELSE @]
  BY DEF Start
<1>5. CASE noinit
  <2>1. job' = Job(kind, "error", lba, data)
    BY <1>4, <1>5 DEF Job
  <2>2. noinit' = TRUE
    BY <1>1, <1>2, <1>5
  <2> QED
    BY <1>1, <1>2, <2>1, <2>2, TurnedAway, CardsSame DEF SdInv, SdTypeOK, driver, Kinds
<1>6. CASE ~ noinit /\ kind = "read"
  <2>1. job' = Job("read", "CMD17", lba, data) /\ initialized' = TRUE
    BY <1>1, <1>2, <1>3, <1>4, <1>6 DEF Job
  <2>2. job' \in Jobs /\ JobInv'
    BY <1>1, <1>2, <2>1, NewRead
  <2> QED
    BY <1>1, <1>2, <2>2, CardsSame DEF SdInv, SdTypeOK, driver
<1>7. CASE ~ noinit /\ kind = "write"
  <2>1. job' = Job("write", "CMD24", lba, data) /\ initialized' = TRUE
    BY <1>1, <1>2, <1>3, <1>4, <1>7 DEF Job
  <2>2. job' \in Jobs /\ JobInv'
    BY <1>1, <1>2, <1>7, <2>1, NewWrite
  <2> QED
    BY <1>1, <1>2, <2>2, CardsSame DEF SdInv, SdTypeOK, driver
<1> QED
  BY <1>5, <1>6, <1>7

LEMMA FirstRead ==
    /\ FirstBlock \in Blocks /\ <<Junk>> \in Seq(Data \cup {Junk}) /\ Len(<<Junk>>) = 1
    /\ \A k \in 1 .. Len(<<Junk>>) : FirstBlock + k - 1 \in Blocks
<1>1. FirstBlock \in Nat /\ FirstBlock \in Blocks
  BY FirstBlockThere, CardAssumption
<1> QED
  BY <1>1

LEMMA NewFirstRead ==
    ASSUME SdTypeOK, job' = Job("read", "CMD17", FirstBlock, <<Junk>>), initialized' = TRUE,
           UNCHANGED <<slot, state, faults, swaps>>
    PROVE  job' \in Jobs /\ JobInv'
<1>1. PICK data : data = <<Junk>>
  OBVIOUS
<1>2. /\ data \in Seq(Data \cup {Junk}) /\ Len(data) > 0
      /\ \A k \in 1 .. Len(data) : FirstBlock + k - 1 \in Blocks
      /\ job' = Job("read", "CMD17", FirstBlock, data)
  BY <1>1, FirstRead
<1> QED
  BY <1>2, FirstBlockThere, NewRead

LEMMA SdCalls ==
    ASSUME SdInv, Calls
    PROVE  SdInv'
<1>1. SdTypeOK /\ CardsRight /\ JobInv /\ initialized \in BOOLEAN /\ noinit \in BOOLEAN
  BY DEF SdInv, SdTypeOK
<1>2. CASE sd_mount
  <2>1. UNCHANGED <<slot, state, blocks, taken, may, faults, swaps>>
    BY <1>2 DEF sd_mount
  <2>2. CASE initialized
    <3>1. /\ noinit' = FALSE /\ job' = Job("read", "CMD17", FirstBlock, <<Junk>>)
          /\ UNCHANGED <<initialized, rca, high>>
      BY <1>2, <2>2 DEF sd_mount, f_mount
    <3>2. initialized' = TRUE
      BY <1>1, <2>2, <3>1
    <3>3. job' \in Jobs /\ JobInv'
      BY <1>1, <2>1, <3>1, <3>2, NewFirstRead
    <3>4. CardsRight'
      BY <1>1, <2>1, <3>1, <3>2 DEF CardsRight, KnownCard, OnePowered
    <3> QED
      BY <1>1, <2>1, <3>1, <3>3, <3>4 DEF SdInv, SdTypeOK
  <2>3. CASE ~ initialized
    <3>1. /\ rca' = NoCard /\ high' = FALSE /\ UNCHANGED <<initialized, noinit>>
          /\ job' = [Job("mount", "CMD0", FirstBlock, <<>>)
                       EXCEPT !.at = IF slot = NoCard THEN "error" ELSE @]
      BY <1>2, <2>3 DEF sd_mount
    <3>2. /\ job' = Job("mount", "error", FirstBlock, <<>>)
             \/ job' = Job("mount", "CMD0", FirstBlock, <<>>)
          /\ <<>> \in Seq(Data \cup {Junk})
      BY <3>1 DEF Job
    <3>3. job' \in Jobs
      <4>1. /\ Job("mount", "error", FirstBlock, <<>>) \in Jobs
            /\ Job("mount", "CMD0", FirstBlock, <<>>) \in Jobs
        <5>1. /\ "mount" \in Kinds /\ "CMD0" \in InitAt \cup XferAt \cup {"ok", "error"}
          BY DEF Kinds, InitAt
        <5>2. \A at \in InitAt \cup XferAt \cup {"ok", "error"} :
                Job("mount", at, FirstBlock, <<>>) \in Jobs
          BY <1>1, <3>2, <5>1, FirstBlockThere, JobType
        <5> QED
          BY <5>1, <5>2
      <4> QED
        BY <3>2, <4>1
    <3>4. /\ job'.kind = "mount" /\ job'.swaps = swaps
          /\ job'.at \in {"error", "CMD0"}
      BY <3>2 DEF Job
    <3>5. swaps \in Nat
      BY <1>1, JobFields
    <3>6. JobInv'
      BY <2>1, <2>3, <3>1, <3>4, <3>5 DEF JobInv, JobRight, OneIdentified, WaitRight, ReadSoFar,
         DataRight, AttemptsLost, RetriesUsed, InitAt, XferAt, ReadAt, WriteAt
    <3>7. CardsRight'
      BY <1>1, <2>1, <2>3, <3>1 DEF CardsRight, KnownCard, OnePowered
    <3> QED
      BY <1>1, <2>1, <3>1, <3>3, <3>6, <3>7 DEF SdInv, SdTypeOK
  <2> QED
    BY <2>2, <2>3
<1>3. CASE sd_unmount
  <2>1. /\ noinit' = TRUE
        /\ UNCHANGED <<slot, state, blocks, taken, initialized, rca, high, job, may, faults, swaps>>
    BY <1>3 DEF sd_unmount
  <2>2. CardsRight'
    BY <1>1, <2>1 DEF CardsRight, KnownCard, OnePowered
  <2>3. JobInv'
    BY <1>1, <2>1 DEF JobInv, JobRight, OneIdentified, WaitRight, ReadSoFar, Now,
       DataRight, AttemptsLost, RetriesUsed, Transfers
  <2> QED
    BY <1>1, <2>1, <2>2, <2>3 DEF SdInv, SdTypeOK
<1>4. CASE cli_sd_inspect
  <2>1. UNCHANGED <<slot, state, blocks, taken, initialized, rca, high, noinit, may, faults, swaps>>
    BY <1>4 DEF cli_sd_inspect
  <2>2. job' = [Job("read", "CMD17", FirstBlock, <<Junk>>)
                  EXCEPT !.at = IF initialized THEN @ ELSE "error"]
    BY <1>4 DEF cli_sd_inspect, f_mount
  <2>3. CASE initialized
    <3>1. job' = Job("read", "CMD17", FirstBlock, <<Junk>>) /\ initialized' = TRUE
      BY <1>1, <2>1, <2>2, <2>3 DEF Job
    <3>2. job' \in Jobs /\ JobInv'
      BY <1>1, <2>1, <3>1, NewFirstRead
    <3> QED
      BY <1>1, <2>1, <3>2, CardsSame DEF SdInv, SdTypeOK, driver
  <2>4. CASE ~ initialized
    <3>1. job' = Job("read", "error", FirstBlock, <<Junk>>) /\ noinit' = TRUE
      BY <1>1, <2>1, <2>2, <2>4 DEF Job, CardsRight, KnownCard
    <3>2. job' \in Jobs /\ JobInv'
      BY <1>1, <2>1, <3>1, FirstRead, TurnedAway DEF Kinds
    <3> QED
      BY <1>1, <2>1, <3>2, CardsSame DEF SdInv, SdTypeOK, driver
  <2> QED
    BY <2>3, <2>4
<1>5. ASSUME NEW lba \in Blocks, NEW n \in 1 .. 2, lba + n - 1 \in Blocks
      PROVE  \A k \in 1 .. n : lba + k - 1 \in Blocks
  <2>1. lba \in Nat
    BY CardAssumption
  <2> QED
    BY <1>5, <2>1
<1>6. CASE \E lba \in Blocks, n \in 1 .. 2 : lba + n - 1 \in Blocks /\ disk_read(lba, n)
  <2>1. PICK lba \in Blocks, n \in 1 .. 2 : lba + n - 1 \in Blocks /\ disk_read(lba, n)
    BY <1>6
  <2>2. PICK data : data = [k \in 1 .. n |-> Junk]
    OBVIOUS
  <2>3. data \in Seq(Data \cup {Junk}) /\ Len(data) = n
    BY <2>2
  <2>4. Start("read", "CMD17", lba, data)
    BY <2>1, <2>2 DEF disk_read
  <2>5. \A k \in 1 .. Len(data) : lba + k - 1 \in Blocks
    BY <1>5, <2>1, <2>3
  <2> QED
    BY <2>3, <2>4, <2>5, SdStart
<1>7. CASE \E lba \in Blocks, n \in 1 .. 2 : \E data \in [1 .. n -> Data] :
             lba + n - 1 \in Blocks /\ disk_write(lba, data)
  <2>0. PICK lba \in Blocks, n \in 1 .. 2 : \E data \in [1 .. n -> Data] :
          lba + n - 1 \in Blocks /\ disk_write(lba, data)
    BY <1>7
  <2>1. PICK data \in [1 .. n -> Data] : lba + n - 1 \in Blocks /\ disk_write(lba, data)
    BY <2>0
  <2>2. data \in Seq(Data) /\ data \in Seq(Data \cup {Junk}) /\ Len(data) = n
    OBVIOUS
  <2>3. Start("write", "CMD24", lba, data)
    BY <2>1 DEF disk_write
  <2>4. \A k \in 1 .. Len(data) : lba + k - 1 \in Blocks
    BY <1>5, <2>1, <2>2
  <2> QED
    BY <2>2, <2>3, <2>4, SdStart
<1> QED
  BY <1>2, <1>3, <1>4, <1>6, <1>7 DEF Calls
-----------------------------------------------------------------------------
(***************************************************************************)
(* hal_sdmmc_init().                                                       *)
(***************************************************************************)
CardStates == {"off", "idle", "ready", "ident", "stby", "tran", "prg"}

\* What a command that is sent may do, heard, refused or lost.
Sent(cmd) == Answered(cmd) \/ Refused(cmd) \/ Unheard(cmd)

LEMMA SentEffect ==
    ASSUME SdTypeOK, NEW cmd, Sent(cmd)
    PROVE  /\ faults' \in Nat /\ state' \in [Cards -> CardStates]
           /\ \/ state' = state
              \/ /\ slot \in Cards /\ Hears(slot, cmd)
                 /\ \E s \in Moved(slot, cmd) : state' = [state EXCEPT ![slot] = s]
<1>1. faults' \in Nat
  BY DEF Sent, Answered, Refused, Unheard, Good, Faulty, SdTypeOK
<1>2. \/ state' = state
      \/ /\ slot \in Cards /\ Hears(slot, cmd)
         /\ \E s \in Moved(slot, cmd) : state' = [state EXCEPT ![slot] = s]
  BY DEF Sent, Answered, Refused, Unheard, Heard, SdTypeOK
<1>3. slot \in Cards => Moved(slot, cmd) \subseteq CardStates
  BY DEF Moved, CardStates, SdTypeOK
<1>4. state \in [Cards -> CardStates]
  BY DEF SdTypeOK, CardStates
<1> QED
  BY <1>1, <1>2, <1>3, <1>4

\* No command but CMD7 makes a card take transfers, and none makes one program.
LEMMA SentStates ==
    ASSUME SdTypeOK, OnePowered, NEW cmd, Sent(cmd), NEW c \in Cards
    PROVE  /\ state'[c] # "off" => slot = c
           /\ state'[c] = "prg" => state[c] = "prg"
           /\ cmd # "CMD7" /\ state'[c] = "tran" => state[c] = "tran"
<1>1. CASE state' = state
  BY <1>1 DEF OnePowered
<1>2. CASE /\ slot \in Cards /\ Hears(slot, cmd)
           /\ \E s \in Moved(slot, cmd) : state' = [state EXCEPT ![slot] = s]
  <2>1. PICK s \in Moved(slot, cmd) : state' = [state EXCEPT ![slot] = s]
    BY <1>2
  <2>2. state \in [Cards -> CardStates]
    BY DEF SdTypeOK, CardStates
  <2>3. c # slot => state'[c] = state[c]
    BY <2>1, <2>2
  <2>4. /\ s = "prg" => state[slot] = "prg"
        /\ cmd # "CMD7" /\ s = "tran" => state[slot] = "tran"
    BY <2>1 DEF Moved
  <2> QED
    BY <1>2, <2>1, <2>2, <2>3, <2>4 DEF OnePowered
<1> QED
  BY <1>1, <1>2, SentEffect

\* Every step of the initialization sends the command it is at.
LEMMA InitStepSends ==
    ASSUME SdTypeOK, InitStep
    PROVE  /\ job.at \in InitAt /\ Sent(job.at)
           /\ UNCHANGED <<slot, blocks, taken, may, swaps>>
<1> USE DEF Sent
<1>1. CASE GoIdle
  BY <1>1 DEF GoIdle, InitAt, InitStep
<1>2. CASE InterfaceCondition
  BY <1>2 DEF InterfaceCondition, InitAt, InitStep
<1>3. CASE OperatingCondition
  BY <1>3 DEF OperatingCondition, InitAt, InitStep, Refused
<1>4. CASE Identify
  BY <1>4 DEF Identify, InitAt, InitStep
<1>5. CASE SetBlockLength
  BY <1>5 DEF SetBlockLength, InitAt, InitStep
<1> QED
  BY <1>1, <1>2, <1>3, <1>4, <1>5 DEF InitStep

\* A step that leaves the driver uninitialized.
LEMMA CardsUninitialized ==
    ASSUME SdTypeOK, CardsRight, InitStep, ~ initialized, UNCHANGED <<initialized, noinit>>
    PROVE  CardsRight'
<1>1. UNCHANGED <<slot, blocks, taken, may>> /\ Sent(job.at)
  BY InitStepSends
<1>2. OnePowered' /\ \A c \in Cards : state'[c] = "prg" => state[c] = "prg"
  BY <1>1, SentStates DEF CardsRight, OnePowered
<1>3. noinit
  BY DEF CardsRight, KnownCard
<1> QED
  BY <1>1, <1>2, <1>3 DEF CardsRight, KnownCard

\* The job goes on to another step of the initialization, or is over.
LEMMA JobGoesOn ==
    ASSUME SdInv, InitStep, NEW at \in InitAt \cup {"error"}, NEW n \in Nat,
           job' = [job EXCEPT !.at = at, !.tries = n],
           UNCHANGED initialized, OneIdentified'
    PROVE  job' \in Jobs /\ JobInv'
<1>1. SdTypeOK /\ JobInv /\ job \in Jobs
  BY DEF SdInv, SdTypeOK
<1>2. /\ job.kind = "mount" /\ ~ initialized /\ job.swaps <= swaps /\ UNCHANGED swaps
  BY <1>1, InitStepSends DEF JobInv, JobRight, AttemptsLost
<1>3. /\ job'.at = at /\ job'.kind = job.kind /\ job'.swaps = job.swaps
      /\ job' \in Jobs
  BY <1>1 DEF Jobs
<1>4. at \notin XferAt /\ at \notin ReadAt /\ at \notin WriteAt /\ at # "CMD13"
  BY DEF InitAt, XferAt, ReadAt, WriteAt
<1>5. JobRight' /\ WaitRight' /\ ReadSoFar'
  BY <1>2, <1>3, <1>4 DEF JobRight, WaitRight, ReadSoFar
<1>6. DataRight' /\ AttemptsLost' /\ RetriesUsed'
  BY <1>2, <1>3, <1>4 DEF DataRight, AttemptsLost, RetriesUsed
<1> QED
  BY <1>3, <1>5, <1>6 DEF JobInv

IdentifyAt == {"CMD2", "CMD3", "CMD9", "CMD7", "CMD16"}

\* The steps that do not finish the initialization.
LEMMA SdInitGoesOn ==
    ASSUME SdInv, InitStep, NEW at \in InitAt \cup {"error"}, NEW n \in Nat,
           job' = [job EXCEPT !.at = at, !.tries = n], UNCHANGED <<initialized, noinit>>,
           rca' \in Cards \cup {NoCard}, high' \in BOOLEAN, OneIdentified'
    PROVE  SdInv'
<1>1. SdTypeOK /\ CardsRight /\ JobInv
  BY DEF SdInv
<1>2. ~ initialized /\ Sent(job.at) /\ UNCHANGED <<slot, blocks, taken, may, swaps>>
  BY <1>1, InitStepSends DEF JobInv, JobRight
<1>3. faults' \in Nat /\ state' \in [Cards -> CardStates]
  BY <1>1, <1>2, SentEffect
<1>4. job' \in Jobs /\ JobInv'
  BY JobGoesOn
<1>5. CardsRight'
  BY <1>1, <1>2, CardsUninitialized
<1>6. SdTypeOK'
  BY <1>1, <1>2, <1>3, <1>4 DEF SdTypeOK, CardStates
<1> QED
  BY <1>4, <1>5, <1>6 DEF SdInv

LEMMA SdInitStep ==
    ASSUME SdInv, InitStep, ~misread'
    PROVE  SdInv'
<1>1. /\ SdTypeOK /\ CardsRight /\ JobInv /\ job \in Jobs /\ job.tries \in Nat
      /\ JobRight /\ OneIdentified /\ OnePowered /\ state \in [Cards -> CardStates]
      /\ rca \in Cards \cup {NoCard} /\ high \in BOOLEAN
  BY JobFields DEF SdInv, SdTypeOK, JobInv, CardsRight, CardStates
<1>2. ~ initialized /\ Sent(job.at) /\ UNCHANGED <<slot, blocks, taken, may, swaps>>
      /\ job.at \in InitAt
  BY <1>1, InitStepSends DEF JobRight
<1>3. ASSUME NEW at \in {"CMD8", "CMD55", "ACMD41", "error"}, NEW n \in Nat,
             job' = [job EXCEPT !.at = at, !.tries = n], UNCHANGED <<initialized, noinit>>,
             rca' \in Cards \cup {NoCard}, high' \in BOOLEAN
      PROVE  SdInv'
  <2>1. job'.at = at
    BY <1>1, <1>3 DEF Jobs
  <2>2. OneIdentified'
    BY <2>1 DEF OneIdentified
  <2>3. at \in InitAt \cup {"error"}
    BY DEF InitAt
  <2> QED
    BY <1>3, <2>2, <2>3, SdInitGoesOn
<1>4. \A at : At(at) => job' = [job EXCEPT !.at = at, !.tries = job.tries]
  BY <1>1 DEF At, Jobs
<1>5. ASSUME NEW at, Again(at) PROVE \E n \in Nat : job' = [job EXCEPT !.at = at, !.tries = n]
  <2>1. PICK n \in Nat : n = job.tries + 1
    BY <1>1
  <2>2. job' = [job EXCEPT !.at = at, !.tries = n]
    BY <1>1, <1>5, <2>1 DEF Again, Jobs
  <2> QED
    BY <2>2
<1>6. CASE GoIdle
  BY <1>1, <1>3, <1>4, <1>6 DEF GoIdle, driver
<1>7. CASE InterfaceCondition
  <2>1. /\ UNCHANGED <<initialized, noinit>> /\ rca' \in Cards \cup {NoCard} /\ high' \in BOOLEAN
    BY <1>1, <1>7 DEF InterfaceCondition, driver
  <2>2. CASE job' = [job EXCEPT !.at = "CMD55", !.tries = 0]
    BY <1>3, <2>1, <2>2
  <2>3. CASE Again("CMD8")
    <3>1. PICK n \in Nat : job' = [job EXCEPT !.at = "CMD8", !.tries = n]
      BY <1>1, <1>5, <2>3
    <3> QED
      BY <1>3, <2>1, <3>1
  <2> QED
    BY <1>7, <2>2, <2>3 DEF InterfaceCondition
<1>8. ASSUME NEW at \in {"CMD8", "CMD55", "ACMD41", "error"}, At(at) \/ Again(at),
             UNCHANGED <<initialized, noinit>>,
             rca' \in Cards \cup {NoCard}, high' \in BOOLEAN
      PROVE  SdInv'
  <2>1. CASE At(at)
    <3>1. job' = [job EXCEPT !.at = at, !.tries = job.tries] /\ job.tries \in Nat
      BY <1>1, <1>4, <2>1
    <3> QED
      BY <1>3, <1>8, <3>1
  <2>2. CASE Again(at)
    <3>1. PICK n \in Nat : job' = [job EXCEPT !.at = at, !.tries = n]
      BY <1>1, <1>5, <2>2
    <3> QED
      BY <1>3, <1>8, <3>1
  <2> QED
    BY <1>8, <2>1, <2>2
<1>9. CASE OperatingCondition
  <2>1. UNCHANGED <<initialized, rca, noinit>> /\ rca' \in Cards \cup {NoCard}
    BY <1>1, <1>9 DEF OperatingCondition, driver
  <2>2. \/ UNCHANGED high /\ (At("ACMD41") \/ At("error") \/ Again("CMD55"))
        \/ /\ Sent("ACMD41") /\ Heard("ACMD41") /\ high' \in BOOLEAN /\ At("CMD2")
           /\ state'[slot] = "ready" => high' = (slot \in HighCapacity)
    <3>1. CASE job.at = "CMD55"
      BY <1>9, <3>1 DEF OperatingCondition, driver
    <3>2. ASSUME NEW ready \in BOOLEAN, NEW kind \in BOOLEAN, Heard("ACMD41"), Sent("ACMD41"), OcrTaken(ready, kind)
          PROVE  \/ UNCHANGED high /\ (At("error") \/ Again("CMD55"))
                 \/ /\ Sent("ACMD41") /\ Heard("ACMD41") /\ high' \in BOOLEAN /\ At("CMD2")
                    /\ state'[slot] = "ready" => high' = (slot \in HighCapacity)
      <4>1. CASE ready
        <5>1. high' = kind /\ At("CMD2") /\ (~misread' => ~(state'[slot] = "ready" /\ kind # (slot \in HighCapacity)))
          BY <3>2, <4>1, Zenon DEF OcrTaken
        <5>2. high' \in BOOLEAN
          BY <5>1, Zenon
        <5>3. state'[slot] = "ready" => high' = (slot \in HighCapacity)
          BY <1>1, <5>1, Zenon
        <5> QED
          BY <3>2, <5>1, <5>2, <5>3
      <4>2. CASE ~ready
        BY <3>2, <4>2 DEF OcrTaken
      <4> QED
        BY <4>1, <4>2
    <3>3. CASE Answered("ACMD41") /\ OcrTaken(state'[slot] = "ready", slot \in HighCapacity)
      <4>1. PICK ready \in BOOLEAN, kind \in BOOLEAN : OcrTaken(ready, kind)
        <5>1. (state'[slot] = "ready") \in BOOLEAN /\ (slot \in HighCapacity) \in BOOLEAN
          OBVIOUS
        <5> QED
          BY <3>3, <5>1, Zenon
      <4>2. Heard("ACMD41") /\ Sent("ACMD41")
        BY <3>3 DEF Answered, Sent
      <4> QED
        BY <3>2, <4>1, <4>2
    <3>4. CASE Heard("ACMD41") /\ Faulty /\ \E ready, kind \in BOOLEAN : OcrTaken(ready, kind)
      <4>1. PICK ready \in BOOLEAN, kind \in BOOLEAN : OcrTaken(ready, kind)
        BY <3>4
      <4>2. Heard("ACMD41") /\ Sent("ACMD41")
        BY <3>4 DEF Refused, Sent
      <4> QED
        BY <3>2, <4>1, <4>2
    <3>5. CASE Refused("ACMD41") /\ At("error") /\ UNCHANGED <<high, misread>>
      BY <3>5
    <3> QED
      BY <1>9, <3>1, <3>3, <3>4, <3>5 DEF OperatingCondition
  <2>3. CASE UNCHANGED high /\ (At("ACMD41") \/ At("error") \/ Again("CMD55"))
    <3>1. high' \in BOOLEAN
      BY <1>1, <2>3
    <3> QED
      BY <1>8, <2>1, <2>3, <3>1
  <2>4. CASE /\ Sent("ACMD41") /\ Heard("ACMD41") /\ high' \in BOOLEAN /\ At("CMD2")
             /\ state'[slot] = "ready" => high' = (slot \in HighCapacity)
    <3>1. job' = [job EXCEPT !.at = "CMD2", !.tries = job.tries]
      BY <1>4, <2>4
    <3>2. job'.at = "CMD2"
      BY <1>1, <3>1 DEF Jobs
    <3>3. \A c \in Cards : state'[c] # "off" => slot = c
      BY <1>1, <2>4, SentStates
    <3>4. /\ \A c \in Cards : state'[c] \in {"off", "idle", "ready"}
          /\ state'[slot] = "ready" => high' = (slot \in HighCapacity)
      <4>1. PICK s \in {"idle", "ready"} : state' = [state EXCEPT ![slot] = s]
        BY <2>4 DEF Heard, Moved
      <4>2. \A c \in Cards : c # slot => state'[c] = "off"
        BY <1>1, <4>1 DEF OnePowered
      <4>3. slot \in Cards => state'[slot] = s
        BY <1>1, <4>1
      <4> QED
        BY <2>4, <4>2, <4>3
    <3>5. OneIdentified'
      BY <3>2, <3>3, <3>4 DEF OneIdentified, Expected
    <3>6. "CMD2" \in InitAt \cup {"error"} /\ high' \in BOOLEAN
      BY <2>4 DEF InitAt
    <3> QED
      BY <1>1, <2>1, <3>1, <3>5, <3>6, SdInitGoesOn
  <2> QED
    BY <2>2, <2>3, <2>4
<1>10. CASE Identify
  <2>1. /\ UNCHANGED <<initialized, high, noinit>> /\ job.at \in {"CMD2", "CMD3", "CMD9", "CMD7"}
        /\ high' \in BOOLEAN
    BY <1>1, <1>10 DEF Identify
  <2>2. CASE At("error") /\ UNCHANGED rca
    <3>1. rca' \in Cards \cup {NoCard}
      BY <1>1, <2>2
    <3> QED
      BY <1>8, <2>1, <2>2, <3>1
  <2>3. CASE /\ Answered(job.at) /\ At(Following(job.at))
             /\ rca' = IF job.at = "CMD3" THEN slot ELSE rca
    <3>1. slot \in Cards /\ Hears(slot, job.at)
      BY <1>1, <2>3 DEF Answered, Heard, SdTypeOK
    <3>2. PICK s \in Moved(slot, job.at) : state' = [state EXCEPT ![slot] = s]
      BY <2>3 DEF Answered, Heard
    <3>3. \A c \in Cards : c # slot => state'[c] = "off"
      BY <1>1, <3>1, <3>2 DEF OnePowered, CardStates
    <3>4. state'[slot] = s
      BY <1>1, <3>1, <3>2
    <3>5. PICK next : next = Following(job.at)
      OBVIOUS
    <3>6. job' = [job EXCEPT !.at = next, !.tries = job.tries]
      BY <1>4, <2>3, <3>5
    <3>7. job'.at = next
      BY <1>1, <3>6 DEF Jobs
    <3>8. state[slot] # "off" /\ state[slot] # "idle"
      BY <2>1, <3>1 DEF Hears
    <3>9. state[slot] = Expected(job.at)
      BY <1>1, <2>1, <3>1, <3>8 DEF OneIdentified
    <3>10. /\ high = (slot \in HighCapacity)
           /\ job.at \in {"CMD9", "CMD7"} => rca = slot
      BY <1>1, <2>1, <3>1, <3>9 DEF OneIdentified
    <3>11. /\ next \in {"CMD3", "CMD9", "CMD7", "CMD16"}
           /\ s = IF next = "CMD3" THEN "ident" ELSE IF next = "CMD16" THEN "tran" ELSE "stby"
           /\ next # "CMD3" => rca' = slot
      BY <2>1, <2>3, <3>2, <3>5, <3>9, <3>10 DEF Following, Moved, Expected
    <3>12. OneIdentified'
      BY <1>2, <2>1, <3>3, <3>4, <3>7, <3>10, <3>11 DEF OneIdentified, Expected
    <3>13. next \in InitAt \cup {"error"} /\ rca' \in Cards \cup {NoCard}
      BY <1>1, <2>3, <3>1, <3>11 DEF InitAt
    <3> QED
      BY <1>1, <2>1, <3>6, <3>12, <3>13, SdInitGoesOn
  <2> QED
    BY <1>10, <2>2, <2>3 DEF Identify
<1>11. CASE SetBlockLength
  <2>1. UNCHANGED <<rca, high>> /\ job.at = "CMD16"
    BY <1>11 DEF SetBlockLength
  <2>2. CASE At("error") /\ UNCHANGED <<initialized, noinit>>
    BY <1>1, <1>8, <2>1, <2>2
  <2>3. CASE Answered("CMD16") /\ initialized' = TRUE /\ noinit' = FALSE /\ job' = f_mount
    <3>1. slot \in Cards /\ Hears(slot, "CMD16")
      BY <1>1, <2>3 DEF Answered, Heard, SdTypeOK
    <3>2. UNCHANGED <<state, faults>>
      BY <1>1, <2>3, <3>1 DEF Answered, Heard, Good, Moved
    <3>3. state[slot] = "tran" /\ high = (slot \in HighCapacity) /\ rca = slot
      BY <1>1, <2>1, <3>1 DEF Hears, OneIdentified, Expected
    <3>4. job' \in Jobs /\ JobInv'
      BY <1>1, <1>2, <2>3, <3>2, NewFirstRead DEF f_mount
    <3>5. CardsRight'
      BY <1>1, <1>2, <2>1, <2>3, <3>1, <3>2, <3>3 DEF CardsRight, KnownCard, OnePowered
    <3> QED
      BY <1>1, <1>2, <2>1, <2>3, <3>2, <3>4, <3>5 DEF SdInv, SdTypeOK
  <2> QED
    BY <1>11, <2>2, <2>3 DEF SetBlockLength
<1> QED
  BY <1>6, <1>7, <1>9, <1>10, <1>11 DEF InitStep
-----------------------------------------------------------------------------
(***************************************************************************)
(* The attempts at a block: what they make of the job.                     *)
(***************************************************************************)
XferStart(kind) == IF kind = "read" THEN "CMD17" ELSE "CMD24"

LEMMA AtJob ==
    ASSUME SdTypeOK, NEW at \in XferAt, At(at)
    PROVE  /\ job' \in Jobs /\ job'.at = at
           /\ job'.kind = job.kind /\ job'.lba = job.lba /\ job'.data = job.data
           /\ job'.i = job.i /\ job'.tries = job.tries /\ job'.ready = job.ready
           /\ job'.faults = job.faults /\ job'.swaps = job.swaps
BY DEF SdTypeOK, Jobs, At

LEMMA FailedJob ==
    ASSUME SdTypeOK, NEW d \in Seq(Data \cup {Junk}), Failed(d)
    PROVE  /\ job' \in Jobs
           /\ job'.kind = job.kind /\ job'.lba = job.lba /\ job'.ready = job.ready
           /\ job'.faults = job.faults /\ job'.swaps = job.swaps
           /\ \/ /\ job.tries + 1 < RetryMax
                 /\ job'.at = XferStart(job.kind) /\ job'.data = d
                 /\ job'.i = job.i /\ job'.tries = job.tries + 1
              \/ ~ (job.tries + 1 < RetryMax) /\ job'.at = "error"
<1>1. job \in Jobs /\ XferStart(job.kind) \in XferAt
  BY DEF SdTypeOK, XferStart, XferAt
<1>2. CASE job.tries + 1 < RetryMax
  <2>1. PICK n \in Nat : n = job.tries + 1
    BY JobFields
  <2>2. job' = [job EXCEPT !.data = d, !.tries = n, !.polls = 0, !.at = XferStart(job.kind)]
    BY <1>1, <1>2, <2>1 DEF Failed, XferStart
  <2> QED
    BY <1>1, <1>2, <2>1, <2>2 DEF Jobs
<1>3. CASE ~ (job.tries + 1 < RetryMax)
  <2>1. job' = [job EXCEPT !.at = "error", !.data = <<>>, !.i = 0, !.tries = 0, !.polls = 0]
    BY <1>1, <1>3 DEF Failed, Ended
  <2>2. <<>> \in Seq(Data \cup {Junk})
    OBVIOUS
  <2> QED
    BY <1>1, <1>3, <2>1, <2>2 DEF Jobs
<1> QED
  BY <1>2, <1>3

LEMMA DoneJob ==
    ASSUME SdTypeOK, Done(job.data)
    PROVE  /\ job' \in Jobs
           /\ job'.kind = job.kind /\ job'.lba = job.lba /\ job'.ready = job.ready
           /\ job'.swaps = job.swaps
           /\ \/ /\ job.i + 1 < Len(job.data)
                 /\ job'.at = XferStart(job.kind) /\ job'.data = job.data
                 /\ job'.i = job.i + 1 /\ job'.tries = 0 /\ job'.faults = faults
              \/ /\ ~ (job.i + 1 < Len(job.data))
                 /\ job'.at = "ok" /\ (job.kind = "read" => job'.data = job.data)
<1>1. job \in Jobs /\ XferStart(job.kind) \in XferAt /\ faults \in Nat
  BY DEF SdTypeOK, XferStart, XferAt
<1>2. CASE job.i + 1 < Len(job.data)
  <2>1. PICK n \in Nat : n = job.i + 1
    BY JobFields
  <2>2. job' = [job EXCEPT !.i = n, !.tries = 0, !.polls = 0, !.faults = faults,
                           !.at = XferStart(job.kind)]
    BY <1>1, <1>2, <2>1 DEF Done, XferStart, Jobs
  <2> QED
    BY <1>1, <1>2, <2>1, <2>2 DEF Jobs
<1>3. CASE ~ (job.i + 1 < Len(job.data))
  <2>0. <<>> \in Seq(Data \cup {Junk}) /\ job.data \in Seq(Data \cup {Junk})
    BY JobFields
  <2>1. PICK d \in Seq(Data \cup {Junk}) :
          d = IF job.kind = "read" THEN job.data ELSE <<>>
    BY <2>0, Zenon
  <2>2. job' = [job EXCEPT !.at = "ok", !.data = d, !.i = 0, !.tries = 0, !.polls = 0]
    BY <1>1, <1>3, <2>1 DEF Done, Ended
  <2> QED
    BY <1>1, <1>3, <2>1, <2>2 DEF Jobs
<1> QED
  BY <1>2, <1>3

\* A transfer that is tried again, goes on or is over is a job as before.
LEMMA XferGoesOn ==
    ASSUME SdTypeOK, JobRight, job.at \in XferAt, UNCHANGED initialized,
           job' \in Jobs, job'.kind = job.kind, job'.lba = job.lba,
           \/ job'.at \in {"ok", "error"}
           \/ /\ job'.at \in (IF job.kind = "read" THEN ReadAt ELSE WriteAt) \ {"CMD13"}
              /\ job'.tries < RetryMax /\ job'.i < Len(job'.data)
              /\ Len(job'.data) = Len(job.data)
              /\ job.kind = "write" => job'.data = job.data
    PROVE  JobRight' /\ OneIdentified' /\ WaitRight'
<1>1. CASE job'.at \in {"ok", "error"}
  BY <1>1, JobOverNext
<1>2. CASE job.kind = "read" /\ job'.at \in ReadAt
           /\ job'.tries < RetryMax /\ job'.i < Len(job'.data) /\ Len(job'.data) = Len(job.data)
  <2>1. JobRight'
    BY <1>2 DEF JobRight, InitAt, XferAt, ReadAt, WriteAt
  <2>2. OneIdentified' /\ WaitRight'
    BY <1>2 DEF OneIdentified, WaitRight, ReadAt
  <2> QED
    BY <2>1, <2>2
<1>3. CASE job.kind = "write" /\ job'.at \in WriteAt \ {"CMD13"} /\ job'.data = job.data
           /\ job'.tries < RetryMax /\ job'.i < Len(job'.data)
  <2>1. job.data \in Seq(Data)
    BY <1>3 DEF JobRight, XferAt, ReadAt, WriteAt
  <2>2. JobRight'
    BY <1>3, <2>1 DEF JobRight, InitAt, XferAt, ReadAt, WriteAt
  <2>3. OneIdentified' /\ WaitRight'
    BY <1>3 DEF OneIdentified, WaitRight, WriteAt
  <2> QED
    BY <2>2, <2>3
<1>4. job.kind \in {"read", "write"}
  BY DEF JobRight, XferAt, ReadAt, WriteAt
<1> QED
  BY <1>1, <1>2, <1>3, <1>4
-----------------------------------------------------------------------------
(***************************************************************************)
(* sdmmc_read_block().                                                     *)
(***************************************************************************)
\* A step of a read gets on, has a block, or has lost an attempt, to a fault if the
\* card is there.
LEMMA ReadOutcome ==
    ASSUME SdInv, ReadBlock
    PROVE  /\ UNCHANGED <<slot, state, blocks, taken, initialized, rca, high, noinit, may, swaps>>
           /\ job.at \in ReadAt /\ (faults' = faults \/ faults' = faults + 1)
           /\ \/ At("fifo_read")
              \/ /\ Transfers
                 /\ job' = [job EXCEPT !.data[job.i + 1] = blocks[slot][Addressed(slot)],
                                       !.at = "read_end"]
              \/ job.at = "read_end" /\ Done(job.data) /\ faults' = faults
              \/ /\ Failed(job.data) \/ Failed([job.data EXCEPT ![job.i + 1] = Junk])
                 /\ Transfers => faults' = faults + 1
<1>1. SdTypeOK /\ JobRight /\ KnownCard /\ state \in [Cards -> CardStates]
  BY DEF SdInv, JobInv, CardsRight, SdTypeOK, CardStates
<1>2. /\ UNCHANGED <<slot, blocks, taken, initialized, rca, high, noinit, may, swaps>>
      /\ job.at \in ReadAt
  BY DEF ReadBlock, ReadAt
<1>3. CASE job.at = "CMD17"
  <2>1. (Answered("CMD17") /\ At("fifo_read")) \/ (Refused("CMD17") /\ Failed(job.data))
    BY <1>3 DEF ReadBlock
  <2>2. slot \in Cards => Moved(slot, "CMD17") = {state[slot]}
    BY DEF Moved
  <2>3. Heard("CMD17") => state' = state
    BY <1>1, <2>2 DEF Heard, SdTypeOK
  <2>4. Transfers => slot \in Cards /\ Hears(slot, "CMD17")
    <3>1. SUFFICES ASSUME Transfers PROVE slot \in Cards /\ Hears(slot, "CMD17")
      OBVIOUS
    <3>2. slot \in Cards /\ state[slot] = "tran"
      BY <1>1, <3>1 DEF Transfers, SdTypeOK
    <3>3. job.at \in XferAt
      BY <1>3 DEF XferAt
    <3>4. Addressed(slot) \in Blocks
      BY <1>1, <3>2, <3>3, TransferRight
    <3> QED
      BY <3>2, <3>4 DEF Hears
  <2>5. CASE Answered("CMD17") /\ At("fifo_read")
    BY <1>2, <2>3, <2>5 DEF Answered, Good
  <2>6. CASE Refused("CMD17") /\ Failed(job.data)
    <3>1. state' = state
      BY <2>3, <2>6 DEF Refused, Unheard
    <3>2. faults' = faults \/ faults' = faults + 1
      BY <2>6 DEF Refused, Unheard, Good, Faulty
    <3>3. Transfers => faults' = faults + 1
      BY <2>4, <2>6 DEF Refused, Unheard, Faulty, Transfers
    <3> QED
      BY <1>2, <2>6, <3>1, <3>2, <3>3
  <2> QED
    BY <2>1, <2>5, <2>6
<1>4. CASE job.at = "fifo_read"
  BY <1>2, <1>4 DEF ReadBlock, Good, Faulty
<1>5. CASE job.at = "read_end"
  BY <1>2, <1>5 DEF ReadBlock, Good, Faulty
<1> QED
  BY <1>2, <1>3, <1>4, <1>5 DEF ReadAt

LEMMA SdReadBlock ==
    ASSUME SdInv, ReadBlock
    PROVE  SdInv'
<1>1. /\ SdTypeOK /\ CardsRight /\ JobInv /\ JobRight /\ KnownCard /\ ReadSoFar /\ AttemptsLost
      /\ job.at \in ReadAt /\ job.at \in XferAt /\ job.kind = "read" /\ initialized
  BY ReadOutcome DEF SdInv, JobInv, JobRight, CardsRight, XferAt, ReadAt
<1>2. /\ UNCHANGED <<slot, state, blocks, taken, initialized, rca, high, noinit, may, swaps>>
      /\ faults' = faults \/ faults' = faults + 1
  BY ReadOutcome
<1>3. /\ job.data \in Seq(Data \cup {Junk}) /\ Len(job.data) \in Nat /\ job.i \in Nat
      /\ job.i + 1 \in 1 .. Len(job.data) /\ job.i < Len(job.data) /\ job.tries < RetryMax
      /\ faults \in Nat /\ faults' \in Nat /\ job.tries \in Nat /\ RetryMax \in Nat \ {0}
      /\ job.faults \in Nat /\ job.swaps \in Nat /\ swaps \in Nat /\ job.lba \in Nat
  BY <1>1, <1>2, JobFields DEF JobRight
<1>4. CardsRight'
  BY <1>1, <1>2, CardsSame DEF driver
\* What is left: the job.
<1>5. SUFFICES /\ job' \in Jobs /\ JobRight' /\ OneIdentified' /\ WaitRight'
               /\ ReadSoFar' /\ DataRight' /\ AttemptsLost' /\ RetriesUsed'
  BY <1>1, <1>2, <1>3, <1>4 DEF SdInv, SdTypeOK, JobInv
<1>6. job.ready /\ swaps = job.swaps => Transfers /\ faults >= job.faults + job.tries
  BY <1>1 DEF AttemptsLost
<1>7. Transfers' = Transfers
  BY <1>2 DEF Transfers
<1>8. CASE At("fifo_read")
  <2>1. /\ job' \in Jobs /\ job'.at = "fifo_read"
        /\ job'.kind = job.kind /\ job'.lba = job.lba /\ job'.data = job.data
        /\ job'.i = job.i /\ job'.tries = job.tries /\ job'.ready = job.ready
        /\ job'.faults = job.faults /\ job'.swaps = job.swaps
    BY <1>1, <1>8, AtJob DEF XferAt
  <2>2. JobRight' /\ OneIdentified' /\ WaitRight'
    BY <1>1, <1>2, <1>3, <2>1, XferGoesOn DEF ReadAt
  <2>3. ReadSoFar' /\ DataRight' /\ RetriesUsed'
    BY <1>1, <1>2, <2>1 DEF ReadSoFar, DataRight, RetriesUsed
  <2>4. AttemptsLost'
    BY <1>1, <1>2, <1>3, <1>6, <1>7, <2>1 DEF AttemptsLost
  <2> QED
    BY <2>1, <2>2, <2>3, <2>4
<1>9. CASE /\ Transfers
           /\ job' = [job EXCEPT !.data[job.i + 1] = blocks[slot][Addressed(slot)],
                                 !.at = "read_end"]
  <2>1. /\ slot \in Cards /\ rca = slot /\ job.lba + job.i \in Blocks
        /\ Addressed(slot) = job.lba + job.i
    BY <1>1, <1>9, TransferRight DEF Transfers, SdTypeOK
  <2>2. PICK x \in Data : x = blocks[slot][Addressed(slot)] /\ x \in may[rca][job.lba + job.i]
    BY <1>1, <2>1 DEF CardsRight, SdTypeOK
  <2>3. PICK d \in Seq(Data \cup {Junk}) :
          /\ d = [job.data EXCEPT ![job.i + 1] = x] /\ Len(d) = Len(job.data)
          /\ d[job.i + 1] = x /\ \A k \in 1 .. Len(job.data) : k # job.i + 1 => d[k] = job.data[k]
    <3>1. x \in Data \cup {Junk}
      OBVIOUS
    <3>2. /\ [job.data EXCEPT ![job.i + 1] = x] \in Seq(Data \cup {Junk})
          /\ Len([job.data EXCEPT ![job.i + 1] = x]) = Len(job.data)
          /\ [job.data EXCEPT ![job.i + 1] = x][job.i + 1] = x
          /\ \A k \in 1 .. Len(job.data) :
                k # job.i + 1 => [job.data EXCEPT ![job.i + 1] = x][k] = job.data[k]
      BY <1>3, <3>1, SeqPut
    <3> QED
      BY <3>2
  <2>4. job' = [job EXCEPT !.data = d, !.at = "read_end"]
    BY <1>9, <2>2, <2>3
  <2>5. /\ job' \in Jobs /\ job'.at = "read_end"
        /\ job'.kind = job.kind /\ job'.lba = job.lba /\ job'.data = d
        /\ job'.i = job.i /\ job'.tries = job.tries /\ job'.ready = job.ready
        /\ job'.faults = job.faults /\ job'.swaps = job.swaps
    BY <1>1, <2>4 DEF SdTypeOK, Jobs, XferAt
  <2>6. JobRight' /\ OneIdentified' /\ WaitRight'
    BY <1>1, <1>2, <1>3, <2>3, <2>5, XferGoesOn DEF ReadAt
  <2>7. ReadSoFar'
    <3>1. \A k \in 1 .. job.i : d[k] \in may[rca][job.lba + k - 1]
      <4>1. \A k \in 1 .. job.i : job.data[k] \in may[rca][job.lba + k - 1]
        BY <1>1 DEF ReadSoFar
      <4>2. \A k \in 1 .. job.i : k \in 1 .. Len(job.data) /\ k # job.i + 1
        BY <1>3
      <4> QED
        BY <2>3, <4>1, <4>2
    <3> QED
      BY <1>2, <2>2, <2>3, <2>5, <3>1 DEF ReadSoFar
  <2>8. DataRight' /\ RetriesUsed'
    BY <2>5 DEF DataRight, RetriesUsed
  <2>9. AttemptsLost'
    BY <1>1, <1>2, <1>3, <1>6, <1>7, <2>5 DEF AttemptsLost
  <2> QED
    BY <2>5, <2>6, <2>7, <2>8, <2>9
<1>10. CASE job.at = "read_end" /\ Done(job.data) /\ faults' = faults
  <2>1. /\ job' \in Jobs
        /\ job'.kind = job.kind /\ job'.lba = job.lba /\ job'.ready = job.ready
        /\ job'.swaps = job.swaps
        /\ \/ /\ job.i + 1 < Len(job.data)
              /\ job'.at = "CMD17" /\ job'.data = job.data
              /\ job'.i = job.i + 1 /\ job'.tries = 0 /\ job'.faults = faults
           \/ /\ ~ (job.i + 1 < Len(job.data))
              /\ job'.at = "ok" /\ job'.data = job.data
    BY <1>1, <1>10, DoneJob DEF XferStart
  <2>2. JobRight' /\ OneIdentified' /\ WaitRight'
    BY <1>1, <1>2, <1>3, <2>1, XferGoesOn DEF ReadAt
  <2>3. \A k \in 1 .. job.i + 1 : job.data[k] \in may[rca][job.lba + k - 1]
    <3>1. job.data[job.i + 1] \in may[rca][job.lba + job.i]
      BY <1>1, <1>10 DEF ReadSoFar
    <3>2. ASSUME NEW k \in 1 .. job.i + 1 PROVE job.data[k] \in may[rca][job.lba + k - 1]
      <4>1. CASE k = job.i + 1
        <5>1. job.lba + k - 1 = job.lba + job.i
          BY <1>3, <4>1
        <5> QED
          BY <3>1, <4>1, <5>1
      <4>2. CASE k # job.i + 1
        <5>1. k \in 1 .. job.i
          BY <1>3, <4>2
        <5> QED
          BY <1>1, <5>1 DEF ReadSoFar
      <4> QED
        BY <4>1, <4>2
    <3> QED
      BY <3>2
  <2>4. ReadSoFar'
    BY <1>2, <1>3, <2>1, <2>3 DEF ReadSoFar, ReadAt
  <2>5. DataRight'
    <3>1. CASE job'.at = "ok"
      <4>1. DOMAIN job'.data = 1 .. job.i + 1
        BY <1>3, <2>1, <3>1
      <4> QED
        BY <1>2, <2>1, <2>3, <3>1, <4>1 DEF DataRight
    <3> QED
      BY <3>1 DEF DataRight
  <2>6. RetriesUsed'
    BY <2>1 DEF RetriesUsed
  <2>7. AttemptsLost'
    BY <1>1, <1>2, <1>3, <1>6, <1>7, <1>10, <2>1 DEF AttemptsLost, ReadAt
  <2> QED
    BY <2>1, <2>2, <2>4, <2>5, <2>6, <2>7
<1>11. CASE /\ Failed(job.data) \/ Failed([job.data EXCEPT ![job.i + 1] = Junk])
            /\ Transfers => faults' = faults + 1
  <2>1. PICK d \in Seq(Data \cup {Junk}) :
          /\ Failed(d) /\ Len(d) = Len(job.data)
          /\ \A k \in 1 .. job.i : d[k] = job.data[k]
    <3>1. [job.data EXCEPT ![job.i + 1] = Junk] \in Seq(Data \cup {Junk})
          /\ Len([job.data EXCEPT ![job.i + 1] = Junk]) = Len(job.data)
          /\ \A k \in 1 .. job.i : [job.data EXCEPT ![job.i + 1] = Junk][k] = job.data[k]
      BY <1>3
    <3> QED
      BY <1>3, <1>11, <3>1
  <2>2. /\ job' \in Jobs
        /\ job'.kind = job.kind /\ job'.lba = job.lba /\ job'.ready = job.ready
        /\ job'.faults = job.faults /\ job'.swaps = job.swaps
        /\ \/ /\ job.tries + 1 < RetryMax
              /\ job'.at = "CMD17" /\ job'.data = d
              /\ job'.i = job.i /\ job'.tries = job.tries + 1
           \/ ~ (job.tries + 1 < RetryMax) /\ job'.at = "error"
    BY <1>1, <2>1, FailedJob DEF XferStart
  <2>3. JobRight' /\ OneIdentified' /\ WaitRight'
    BY <1>1, <1>2, <1>3, <2>1, <2>2, XferGoesOn DEF ReadAt
  <2>4. ReadSoFar'
    BY <1>1, <1>2, <2>1, <2>2 DEF ReadSoFar, ReadAt
  <2>5. DataRight'
    BY <2>2 DEF DataRight
  <2>6. job.ready /\ swaps = job.swaps => faults' >= job.faults + job.tries + 1
    BY <1>3, <1>6, <1>11
  <2>7. AttemptsLost'
    <3>1. job'.swaps <= swaps'
      BY <1>1, <1>2, <2>2 DEF AttemptsLost
    <3>2. ASSUME job'.at \in ReadAt, job'.ready, swaps' = job'.swaps
          PROVE  Transfers' /\ faults' >= job'.faults + job'.tries
      <4>1. job'.tries = job.tries + 1
        BY <2>2, <3>2 DEF ReadAt
      <4>2. job.ready /\ swaps = job.swaps /\ job'.faults = job.faults
        BY <1>2, <2>2, <3>2
      <4> QED
        BY <1>3, <1>6, <1>7, <2>6, <4>1, <4>2
    <3> QED
      BY <3>1, <3>2 DEF AttemptsLost
  <2>8. RetriesUsed'
    <3>1. CASE job'.at = "error"
      BY <1>2, <1>3, <2>2, <2>6, <3>1 DEF RetriesUsed
    <3> QED
      BY <3>1 DEF RetriesUsed
  <2> QED
    BY <2>2, <2>3, <2>4, <2>5, <2>7, <2>8
<1> QED
  BY <1>8, <1>9, <1>10, <1>11, ReadOutcome
-----------------------------------------------------------------------------
(***************************************************************************)
(* sdmmc_write_block().                                                    *)
(***************************************************************************)
\* A write's job whose step leaves the block to be tried again, or the next one.
LEMMA WriteJob ==
    ASSUME SdInv, job.at \in WriteAt, UNCHANGED <<initialized, swaps>>,
           Failed(job.data) \/ Done(job.data)
    PROVE  job' \in Jobs /\ JobInv'
<1>1. /\ SdTypeOK /\ JobInv /\ JobRight /\ AttemptsLost /\ job.at \in XferAt
      /\ job.kind = "write" /\ job.data \in Seq(Data \cup {Junk})
  BY JobFields DEF SdInv, JobInv, JobRight, XferAt, WriteAt
<1>2. /\ job' \in Jobs /\ job'.kind = "write" /\ job'.lba = job.lba /\ job'.swaps = job.swaps
      /\ \/ job'.at \in {"ok", "error"}
         \/ /\ job'.at = "CMD24" /\ job'.data = job.data
            /\ \/ job.i + 1 < Len(job.data) /\ job'.i = job.i + 1 /\ job'.tries = 0
               \/ job.tries + 1 < RetryMax /\ job'.i = job.i /\ job'.tries = job.tries + 1
  <2>1. CASE Failed(job.data)
    BY <1>1, <2>1, FailedJob DEF XferStart
  <2>2. CASE Done(job.data)
    BY <1>1, <2>2, DoneJob DEF XferStart
  <2> QED
    BY <2>1, <2>2
<1>3. /\ job.i \in Nat /\ job.tries \in Nat /\ RetryMax \in Nat \ {0} /\ Len(job.data) \in Nat
      /\ job.i < Len(job.data)
  BY <1>1, JobFields DEF JobRight
<1>4. JobRight' /\ OneIdentified' /\ WaitRight'
  BY <1>1, <1>2, <1>3, XferGoesOn DEF WriteAt
<1>5. ReadSoFar' /\ DataRight' /\ AttemptsLost' /\ RetriesUsed'
  BY <1>1, <1>2 DEF ReadSoFar, DataRight, AttemptsLost, RetriesUsed, ReadAt
<1> QED
  BY <1>2, <1>4, <1>5 DEF JobInv

LEMMA SdSendWords ==
    ASSUME SdInv, WriteBlock, SendWords
    PROVE  SdInv'
<1>1. /\ SdTypeOK /\ CardsRight /\ JobInv /\ JobRight /\ AttemptsLost
      /\ state \in [Cards -> CardStates]
  BY DEF SdInv, JobInv, SdTypeOK, CardStates
<1>2. /\ UNCHANGED <<slot, blocks, initialized, rca, high, noinit, swaps, taken, may>>
      /\ job.at \in WriteAt /\ job.at \in XferAt
  BY DEF WriteBlock, SendWords, WriteAt, XferAt
<1>3. state' = state /\ faults' \in Nat
  <2>1. slot \in Cards => Moved(slot, "CMD24") = {state[slot]}
    BY DEF Moved
  <2>2. Heard("CMD24") => state' = state
    BY <1>1, <2>1 DEF Heard, SdTypeOK
  <2>3. faults \in Nat
    BY <1>1 DEF SdTypeOK
  <2> QED
    BY <2>2, <2>3 DEF SendWords, Answered, Refused, Unheard, Good, Faulty
<1>4. CardsRight'
  BY <1>1, <1>2, <1>3, CardsSame DEF driver
<1>5. job.kind = "write" /\ job.i < Len(job.data) /\ job.tries < RetryMax
  BY <1>1, <1>2 DEF JobRight
<1>6. CASE Failed(job.data)
  <2>1. job' \in Jobs /\ JobInv'
    BY <1>2, <1>6, WriteJob
  <2> QED
    BY <1>1, <1>2, <1>3, <1>4, <2>1 DEF SdInv, SdTypeOK, CardStates
<1>7. ASSUME NEW at \in {"fifo_write", "write_end"}, At(at) PROVE SdInv'
  <2>1. /\ job' \in Jobs /\ job'.at = at
        /\ job'.kind = job.kind /\ job'.lba = job.lba /\ job'.data = job.data
        /\ job'.i = job.i /\ job'.tries = job.tries /\ job'.swaps = job.swaps
    BY <1>1, <1>7, AtJob DEF XferAt
  <2>2. JobRight' /\ OneIdentified' /\ WaitRight'
    BY <1>1, <1>2, <1>5, <2>1, XferGoesOn DEF WriteAt
  <2>3. ReadSoFar' /\ DataRight' /\ AttemptsLost' /\ RetriesUsed'
    BY <1>1, <1>2, <1>5, <2>1 DEF ReadSoFar, DataRight, AttemptsLost, RetriesUsed, ReadAt
  <2> QED
    BY <1>1, <1>2, <1>3, <1>4, <2>1, <2>2, <2>3 DEF SdInv, JobInv, SdTypeOK, CardStates
<1> QED
  BY <1>6, <1>7 DEF SendWords

\* The card has the block: what the call lets it hold grows by the data, whether the
\* card's answer is good or not.
LEMMA SdTake ==
    ASSUME SdInv, WriteBlock, Take
    PROVE  SdInv'
<1>1. /\ SdTypeOK /\ CardsRight /\ JobInv /\ JobRight /\ AttemptsLost /\ KnownCard
      /\ state \in [Cards -> CardStates]
  BY DEF SdInv, JobInv, SdTypeOK, CardStates, CardsRight
<1>2. /\ UNCHANGED <<slot, blocks, initialized, rca, high, noinit, swaps>>
      /\ job.at \in WriteAt /\ job.at \in XferAt /\ job.at = "write_end"
  BY DEF WriteBlock, Take, WriteAt, XferAt
<1>3. job.kind = "write" /\ job.i < Len(job.data) /\ job.tries < RetryMax /\ job.data \in Seq(Data)
  BY <1>1, <1>2 DEF JobRight
<1>4. faults \in Nat /\ job.i \in Nat /\ Now \in Data
  BY <1>1, <1>3, JobFields DEF Now
<1>5. CASE UNCHANGED <<state, taken, may>> /\ Failed(job.data)
  <2>1. job' \in Jobs /\ JobInv'
    BY <1>2, <1>5, WriteJob
  <2>2. CardsRight'
    BY <1>1, <1>2, <1>5, CardsSame DEF driver
  <2>3. faults' \in Nat
    BY <1>4 DEF Take, Good, Faulty
  <2> QED
    BY <1>1, <1>2, <1>5, <2>1, <2>2, <2>3 DEF SdInv, SdTypeOK
<1>6. CASE /\ Transfers
           /\ state' = [state EXCEPT ![slot] = "prg"]
           /\ taken' = [taken EXCEPT ![slot] = [block |-> Addressed(slot), data |-> Now]]
           /\ (Good /\ At("CMD13")) \/ (Faulty /\ Failed(job.data))
           /\ may' = [may EXCEPT ![rca][job.lba + job.i] = @ \cup {Now}]
  <2>1. /\ slot \in Cards /\ rca = slot /\ job.lba + job.i \in Blocks
        /\ Addressed(slot) = job.lba + job.i
    BY <1>1, <1>2, <1>6, TransferRight DEF Transfers, SdTypeOK
  <2>2. PICK b \in Blocks : b = job.lba + job.i
    BY <2>1
  <2>3. PICK x \in Data : x = Now
    BY <1>4
  <2>4. /\ taken' = [taken EXCEPT ![slot] = [block |-> b, data |-> x]]
        /\ may' = [may EXCEPT ![slot][b] = @ \cup {x}]
    BY <1>6, <2>1, <2>2, <2>3
  <2>5. /\ may' \in [Cards -> [Blocks -> SUBSET Data]]
        /\ taken' \in [Cards -> [block : Blocks, data : Data]]
        /\ state' \in [Cards -> CardStates]
    BY <1>1, <1>6, <2>1, <2>4 DEF SdTypeOK, CardStates
  <2>6. \A c \in Cards, e \in Blocks : may[c][e] \subseteq may'[c][e]
    BY <1>1, <2>1, <2>4 DEF SdTypeOK
  <2>7. \A c \in Cards : c # slot => state'[c] = state[c] /\ taken'[c] = taken[c]
    BY <1>1, <1>6, <2>4 DEF SdTypeOK
  <2>8. /\ state'[slot] = "prg" /\ taken'[slot] = [block |-> b, data |-> x]
        /\ x \in may'[slot][b] /\ state[slot] = "tran"
    BY <1>1, <1>6, <2>1, <2>4 DEF SdTypeOK, Transfers
  <2>9. CardsRight'
    <3>1. KnownCard'
      BY <1>1, <1>2, <2>7, <2>8 DEF KnownCard
    <3>2. OnePowered'
      BY <1>1, <1>2, <2>7, <2>8 DEF OnePowered, CardsRight
    <3>3. \A c \in Cards, e \in Blocks : blocks'[c][e] \in may'[c][e]
      BY <1>1, <1>2, <2>6 DEF CardsRight
    <3>4. ASSUME NEW c \in Cards, state'[c] = "prg"
          PROVE  taken'[c].data \in may'[c][taken'[c].block]
      <4>1. CASE c = slot
        BY <2>8, <4>1
      <4>2. CASE c # slot
        BY <1>1, <2>6, <2>7, <3>4, <4>2 DEF CardsRight, SdTypeOK
      <4> QED
        BY <4>1, <4>2
    <3> QED
      BY <1>1, <1>2, <3>1, <3>2, <3>3, <3>4 DEF CardsRight
  <2>10. job' \in Jobs /\ JobInv' /\ faults' \in Nat
    <3>1. CASE Faulty /\ Failed(job.data)
      BY <1>2, <1>4, <3>1, WriteJob DEF Faulty
    <3>2. CASE Good /\ At("CMD13")
      <4>1. /\ job' \in Jobs /\ job'.at = "CMD13"
            /\ job'.kind = job.kind /\ job'.lba = job.lba /\ job'.data = job.data
            /\ job'.i = job.i /\ job'.tries = job.tries /\ job'.swaps = job.swaps
        BY <1>1, <3>2, AtJob DEF XferAt
      <4>2. JobRight'
        BY <1>1, <1>2, <1>3, <4>1 DEF JobRight, InitAt, XferAt, ReadAt, WriteAt
      <4>3. \A c \in Cards : state'[c] # "off" => c = slot
        BY <1>1, <2>7 DEF CardsRight, OnePowered
      <4>4. Now' = x /\ job'.lba + job'.i = b
        BY <2>2, <2>3, <4>1 DEF Now
      <4>5. WaitRight'
        BY <2>8, <4>3, <4>4 DEF WaitRight
      <4>6. /\ OneIdentified' /\ ReadSoFar' /\ DataRight' /\ AttemptsLost' /\ RetriesUsed'
        BY <1>1, <1>2, <4>1 DEF OneIdentified, ReadSoFar, DataRight, AttemptsLost,
           RetriesUsed, ReadAt
      <4> QED
        BY <1>4, <3>2, <4>1, <4>2, <4>5, <4>6 DEF JobInv, Good
    <3> QED
      BY <1>6, <3>1, <3>2
  <2> QED
    BY <1>1, <1>2, <2>5, <2>9, <2>10 DEF SdInv, SdTypeOK, CardStates
<1> QED
  BY <1>5, <1>6 DEF Take

\* The card says it is done: the block holds the data and nothing else is allowed for.
LEMMA SdWaitReady ==
    ASSUME SdInv, WriteBlock, WaitReady
    PROVE  SdInv'
<1>1. /\ SdTypeOK /\ CardsRight /\ JobInv /\ JobRight /\ AttemptsLost /\ KnownCard /\ WaitRight
      /\ state \in [Cards -> CardStates]
  BY DEF SdInv, JobInv, SdTypeOK, CardStates, CardsRight
<1>2. /\ UNCHANGED <<slot, blocks, initialized, rca, high, noinit, swaps, taken>>
      /\ job.at \in WriteAt /\ job.at \in XferAt /\ job.at = "CMD13"
  BY DEF WriteBlock, WaitReady, WriteAt, XferAt
<1>3. job.kind = "write" /\ job.i < Len(job.data) /\ job.tries < RetryMax /\ job.data \in Seq(Data)
  BY <1>1, <1>2 DEF JobRight
<1>4. faults \in Nat /\ job.i \in Nat /\ Now \in Data
  BY <1>1, <1>3, JobFields DEF Now
<1>5. slot \in Cards => Moved(slot, "CMD13") = {state[slot]}
  BY DEF Moved
<1>6. Heard("CMD13") => state' = state /\ slot \in Cards /\ rca = slot
  BY <1>1, <1>5 DEF Heard, Hears, SdTypeOK
<1>7. state' = state /\ faults' \in Nat
  BY <1>4, <1>6 DEF WaitReady, Answered, Refused, Unheard, Good, Faulty
<1>8. CASE UNCHANGED may /\ (Failed(job.data) \/ job' = [job EXCEPT !.polls = @ + 1])
  <2>1. CardsRight'
    BY <1>1, <1>2, <1>7, <1>8, CardsSame DEF driver
  <2>2. CASE Failed(job.data)
    <3>1. job' \in Jobs /\ JobInv'
      BY <1>2, <2>2, WriteJob
    <3> QED
      BY <1>1, <1>2, <1>7, <1>8, <2>1, <3>1 DEF SdInv, SdTypeOK, CardStates
  <2>3. CASE job' = [job EXCEPT !.polls = @ + 1]
    <3>1. PICK n \in Nat : n = job.polls + 1
      BY <1>1, JobFields
    <3>2. job' = [job EXCEPT !.polls = n]
      BY <2>3, <3>1
    <3>3. /\ job' \in Jobs /\ job'.at = "CMD13"
          /\ job'.kind = job.kind /\ job'.lba = job.lba /\ job'.data = job.data
          /\ job'.i = job.i /\ job'.tries = job.tries /\ job'.swaps = job.swaps
      BY <1>1, <1>2, <3>2 DEF SdTypeOK, Jobs
    <3>4. JobRight'
      BY <1>1, <1>2, <1>3, <3>3 DEF JobRight, InitAt, XferAt, ReadAt, WriteAt
    <3>5. WaitRight'
      BY <1>1, <1>2, <1>7, <3>3 DEF WaitRight, Now
    <3>6. OneIdentified' /\ ReadSoFar' /\ DataRight' /\ AttemptsLost' /\ RetriesUsed'
      BY <1>1, <1>2, <3>3 DEF OneIdentified, ReadSoFar, DataRight, AttemptsLost,
         RetriesUsed, ReadAt
    <3> QED
      BY <1>1, <1>2, <1>7, <1>8, <2>1, <3>3, <3>4, <3>5, <3>6
         DEF SdInv, JobInv, SdTypeOK, CardStates
  <2> QED
    BY <1>8, <2>2, <2>3
<1>9. CASE /\ Answered("CMD13") /\ state[slot] = "tran" /\ Done(job.data)
           /\ may' = [may EXCEPT ![rca][job.lba + job.i] = {Now}]
  <2>1. slot \in Cards /\ rca = slot /\ job.lba + job.i \in Blocks
    <3>1. slot \in Cards /\ rca = slot
      BY <1>6, <1>9 DEF Answered
    <3> QED
      BY <1>1, <1>2, <1>9, <3>1, TransferRight
  <2>2. PICK b \in Blocks : b = job.lba + job.i
    BY <2>1
  <2>3. PICK x \in Data : x = Now
    BY <1>4
  <2>4. may' = [may EXCEPT ![slot][b] = {x}]
    BY <1>9, <2>1, <2>2, <2>3
  <2>5. may' \in [Cards -> [Blocks -> SUBSET Data]]
    BY <1>1, <2>1, <2>4 DEF SdTypeOK
  <2>6. \A c \in Cards, e \in Blocks :
          may'[c][e] = IF c = slot /\ e = b THEN {x} ELSE may[c][e]
    BY <1>1, <2>1, <2>4 DEF SdTypeOK
  <2>7. blocks[slot][b] = x
    BY <1>1, <1>2, <1>9, <2>1, <2>2, <2>3 DEF WaitRight
  <2>8. CardsRight'
    <3>1. KnownCard' /\ OnePowered'
      BY <1>1, <1>2, <1>7 DEF KnownCard, OnePowered, CardsRight
    <3>2. \A c \in Cards, e \in Blocks : blocks'[c][e] \in may'[c][e]
      BY <1>1, <1>2, <2>6, <2>7 DEF CardsRight
    <3>3. ASSUME NEW c \in Cards, state'[c] = "prg"
          PROVE  taken'[c].data \in may'[c][taken'[c].block]
      <4>1. c # slot /\ state[c] = "prg"
        BY <1>7, <1>9, <3>3
      <4>2. taken[c].block \in Blocks
        BY <1>1 DEF SdTypeOK
      <4> QED
        BY <1>1, <1>2, <2>6, <4>1, <4>2 DEF CardsRight
    <3> QED
      BY <1>1, <1>2, <3>1, <3>2, <3>3 DEF CardsRight
  <2>9. job' \in Jobs /\ JobInv'
    BY <1>2, <1>9, WriteJob
  <2> QED
    BY <1>1, <1>2, <1>7, <2>5, <2>8, <2>9 DEF SdInv, SdTypeOK, CardStates
<1> QED
  BY <1>8, <1>9 DEF WaitReady
-----------------------------------------------------------------------------
(***************************************************************************)
(* The world.                                                              *)
(***************************************************************************)
\* The card that has programmed a block holds what it took, and at CMD13 that is the
\* block the call is at.
LEMMA SdProgrammed ==
    ASSUME SdInv, Programmed
    PROVE  SdInv'
<1>1. /\ SdTypeOK /\ CardsRight /\ JobInv /\ JobRight /\ KnownCard
      /\ state \in [Cards -> CardStates]
  BY DEF SdInv, JobInv, SdTypeOK, CardStates, CardsRight
<1>2. /\ UNCHANGED <<slot, initialized, rca, high, noinit, job, may, faults, swaps>>
      /\ slot \in Cards /\ state[slot] = "prg" /\ state' = [state EXCEPT ![slot] = "tran"]
  BY <1>1 DEF Programmed, SdTypeOK
<1>3. PICK b \in Blocks, x \in Data : b = taken[slot].block /\ x = taken[slot].data
  BY <1>1, <1>2 DEF SdTypeOK
<1>4. PICK nothing \in [block : Blocks, data : Data] : nothing = Nothing
  BY FirstBlockThere, CardAssumption DEF Nothing
<1>5. /\ blocks' = [blocks EXCEPT ![slot][b] = x]
      /\ taken' = [taken EXCEPT ![slot] = nothing]
  BY <1>3, <1>4 DEF Programmed
<1>6. /\ state' \in [Cards -> CardStates] /\ taken' \in [Cards -> [block : Blocks, data : Data]]
      /\ blocks' \in [Cards -> [Blocks -> Data]]
  BY <1>1, <1>2, <1>5 DEF SdTypeOK, CardStates
<1>7. /\ state'[slot] = "tran"
      /\ \A c \in Cards : c # slot => state'[c] = state[c] /\ taken'[c] = taken[c]
                                      /\ blocks'[c] = blocks[c]
      /\ \A e \in Blocks : blocks'[slot][e] = IF e = b THEN x ELSE blocks[slot][e]
  BY <1>1, <1>2, <1>5 DEF SdTypeOK
<1>8. CardsRight'
  <2>1. KnownCard' /\ OnePowered'
    BY <1>1, <1>2, <1>7 DEF KnownCard, OnePowered, CardsRight
  <2>2. x \in may[slot][b]
    BY <1>1, <1>2, <1>3 DEF CardsRight
  <2>3. \A c \in Cards, e \in Blocks : blocks'[c][e] \in may'[c][e]
    BY <1>1, <1>2, <1>7, <2>2 DEF CardsRight
  <2>4. \A c \in Cards : state'[c] = "prg" => taken'[c].data \in may'[c][taken'[c].block]
    BY <1>1, <1>2, <1>7 DEF CardsRight
  <2> QED
    BY <1>1, <1>2, <2>1, <2>3, <2>4 DEF CardsRight
<1>9. JobInv'
  <2>1. JobRight' /\ ReadSoFar' /\ DataRight' /\ RetriesUsed'
    BY <1>1, <1>2 DEF JobInv, JobRight, ReadSoFar, DataRight, RetriesUsed
  <2>2. OneIdentified'
    <3>1. ~ (job.at \in {"CMD2", "CMD3", "CMD9", "CMD7", "CMD16"})
      BY <1>1, <1>2 DEF JobInv, OneIdentified, Expected
    <3> QED
      BY <1>2, <3>1 DEF OneIdentified
  <2>3. WaitRight'
    <3>1. SUFFICES ASSUME job.at = "CMD13", NEW c \in Cards
                   PROVE  /\ state'[c] = "prg" =>
                               taken'[c] = [block |-> job.lba + job.i, data |-> Now]
                          /\ state'[c] = "tran" => blocks'[c][job.lba + job.i] = Now
      BY <1>2 DEF WaitRight, Now
    <3>2. job.lba + job.i \in Blocks
      BY <1>1, <1>2, <3>1, TransferRight DEF XferAt
    <3>3. b = job.lba + job.i /\ x = Now
      BY <1>1, <1>2, <1>3, <3>1 DEF JobInv, WaitRight
    <3> QED
      BY <1>1, <1>7, <3>1, <3>2, <3>3 DEF JobInv, WaitRight
  <2>4. AttemptsLost'
    BY <1>1, <1>2 DEF JobInv, AttemptsLost, Transfers
  <2> QED
    BY <2>1, <2>2, <2>3, <2>4 DEF JobInv
<1> QED
  BY <1>1, <1>2, <1>6, <1>8, <1>9 DEF SdInv, SdTypeOK, CardStates

\* A card put in is idle and one pulled out is off: neither takes transfers.
LEMMA SdSwap ==
    ASSUME SdInv, NEW c \in Cards, Swap(c)
    PROVE  SdInv'
<1>1. /\ SdTypeOK /\ CardsRight /\ JobInv /\ JobRight /\ KnownCard /\ OnePowered
      /\ state \in [Cards -> CardStates] /\ NoCard \notin Cards
      /\ swaps \in Nat /\ job.swaps \in Nat /\ job.swaps <= swaps
  BY JobFields, CardAssumption
     DEF SdInv, JobInv, SdTypeOK, CardStates, CardsRight, AttemptsLost
<1>2. /\ UNCHANGED <<blocks, initialized, rca, high, noinit, job, may, faults>>
      /\ swaps' = swaps + 1 /\ slot' \in Cards \cup {NoCard}
  BY DEF Swap
<1>3. PICK nothing \in [block : Blocks, data : Data] : nothing = Nothing
  BY FirstBlockThere, CardAssumption DEF Nothing
<1>4. PICK s \in {"idle", "off"} :
        /\ state' = [state EXCEPT ![c] = s]
        /\ s # "off" => slot = NoCard /\ slot' = c
        /\ slot = NoCard \/ slot = c
  BY DEF Swap
<1>5. /\ state' \in [Cards -> CardStates] /\ taken' \in [Cards -> [block : Blocks, data : Data]]
  BY <1>1, <1>3, <1>4 DEF Swap, SdTypeOK, CardStates
<1>6. /\ state'[c] \in {"idle", "off"}
      /\ state'[c] # "off" => slot' = c
      /\ \A d \in Cards : d # c => state'[d] = state[d] /\ taken'[d] = taken[d]
  BY <1>1, <1>3, <1>4 DEF Swap, SdTypeOK
<1>7. \A d \in Cards : d # c => state'[d] = "off"
  BY <1>1, <1>4, <1>6 DEF OnePowered
<1>8. CardsRight'
  <2>1. KnownCard' /\ OnePowered'
    BY <1>1, <1>2, <1>6, <1>7 DEF KnownCard, OnePowered
  <2>2. \A d \in Cards : state'[d] # "prg"
    BY <1>6, <1>7
  <2> QED
    BY <1>1, <1>2, <2>1, <2>2 DEF CardsRight
<1>9. JobInv'
  <2>1. JobRight' /\ ReadSoFar' /\ DataRight'
    BY <1>1, <1>2 DEF JobInv, JobRight, ReadSoFar, DataRight
  <2>2. OneIdentified'
    <3>1. \A d \in Cards : state'[d] \in {"idle", "off"}
      BY <1>6, <1>7
    <3>2. \A at \in {"CMD2", "CMD3", "CMD9", "CMD7", "CMD16"} : Expected(at) \notin {"idle", "off"}
      BY DEF Expected
    <3> QED
      BY <1>2, <3>1, <3>2 DEF OneIdentified
  <2>3. WaitRight'
    <3>1. \A d \in Cards : state'[d] \notin {"prg", "tran"}
      BY <1>6, <1>7
    <3> QED
      BY <3>1 DEF WaitRight
  <2>4. swaps' # job'.swaps /\ job'.swaps <= swaps'
    BY <1>1, <1>2
  <2>5. AttemptsLost' /\ RetriesUsed'
    BY <2>4 DEF AttemptsLost, RetriesUsed
  <2> QED
    BY <2>1, <2>2, <2>3, <2>5 DEF JobInv
<1> QED
  BY <1>1, <1>2, <1>5, <1>8, <1>9 DEF SdInv, SdTypeOK, CardStates

\* The board starts again with the card as it is, and with a driver that knows none.
LEMMA SdReset ==
    ASSUME SdInv, Reset
    PROVE  SdInv'
<1>1. SdTypeOK /\ CardsRight
  BY DEF SdInv
<1>2. /\ UNCHANGED <<slot, state, blocks, taken, may, faults, swaps>>
      /\ ~ initialized' /\ rca' = NoCard /\ high' = FALSE /\ noinit'
  BY DEF Reset
<1>3. /\ job' \in Jobs /\ job'.at = "error" /\ job'.kind = "mount" /\ job'.swaps = 0
  <2>1. Job("mount", "error", FirstBlock, <<>>) \in Jobs
    <3>1. <<>> \in Seq(Data \cup {Junk}) /\ "mount" \in Kinds
      BY DEF Kinds
    <3> QED
      BY <1>1, <3>1, FirstBlockThere, JobType
  <2>2. PICK j \in Jobs : /\ j = Job("mount", "error", FirstBlock, <<>>)
                          /\ j.at = "error" /\ j.kind = "mount"
    BY <2>1 DEF Job
  <2>3. job' = [j EXCEPT !.faults = 0, !.swaps = 0]
    BY <2>2 DEF Reset, Booted
  <2> QED
    BY <2>2, <2>3 DEF Jobs
<1>4. JobInv'
  BY <1>1, <1>2, <1>3, JobOverNext DEF JobInv, SdTypeOK
<1>5. CardsRight'
  BY <1>1, <1>2 DEF CardsRight, KnownCard, OnePowered
<1>6. SdTypeOK'
  BY <1>1, <1>2, <1>3 DEF SdTypeOK, Reset
<1> QED
  BY <1>4, <1>5, <1>6 DEF SdInv
-----------------------------------------------------------------------------
(***************************************************************************)
(* The theorems.                                                           *)
(***************************************************************************)
\* Until a card's kind is misread, SdInv holds of every state: the card the driver talks
\* to, what it programs, and the progress of the call that runs always fit together.
THEOREM SdInvariant == Spec => [](~misread => SdInv)
<1>1. Init => SdInv
  BY InitSd
<1>2. (~misread => SdInv) /\ [Next]_vars => (~misread => SdInv)'
  <2>1. SUFFICES ASSUME ~misread => SdInv, [Next]_vars, ~misread' PROVE SdInv'
    OBVIOUS
  <2>2. SdInv
    <3>1. InitStep => (misread => misread')
      BY DEF InitStep, OperatingCondition, OcrTaken
    <3> QED
      BY <2>1, <3>1 DEF Next, vars
  <2>3. CASE InitStep
    BY <2>1, <2>2, <2>3, SdInitStep
  <2>4. CASE Calls
    BY <2>2, <2>4, SdCalls
  <2>5. CASE ReadBlock
    BY <2>2, <2>5, SdReadBlock
  <2>6. CASE WriteBlock
    BY <2>2, <2>6, SdSendWords, SdTake, SdWaitReady DEF WriteBlock
  <2>7. CASE World
    BY <2>2, <2>7, SdProgrammed, SdReset, SdSwap DEF World
  <2>8. CASE UNCHANGED vars
    <3>1. CardsRight' /\ SdTypeOK'
      BY <2>2, <2>8 DEF vars, SdInv, SdTypeOK, CardsRight, KnownCard, OnePowered
    <3>2. JobInv'
      BY <2>2, <2>8 DEF vars, SdInv, JobInv, JobRight, OneIdentified, WaitRight, Now,
         ReadSoFar, DataRight, AttemptsLost, Transfers, RetriesUsed
    <3> QED
      BY <3>1, <3>2 DEF SdInv
  <2> QED
    BY <2>1, <2>3, <2>4, <2>5, <2>6, <2>7, <2>8 DEF Next
<1> QED
  BY <1>1, <1>2, PTL DEF Spec

\* Through any faults, swaps and resets every block of every card holds what the writes
\* made to it let it hold, and no card the driver did not initialize is written to.
THEOREM BlocksAsWrittenCorrect == Spec => []BlocksAsWritten
<1>1. (~misread => SdInv) => BlocksAsWritten
  BY DEF SdInv, CardsRight, BlocksAsWritten
<1> QED
  BY <1>1, SdInvariant, PTL

\* A read that returns RES_OK gave, for each block, data the block was allowed to hold.
THEOREM ReadsRightCorrect == Spec => []ReadsRight
<1>1. (~misread => SdInv) => ReadsRight
  BY DEF SdInv, JobInv, ReadsRight
<1> QED
  BY <1>1, SdInvariant, PTL

\* A read of a card that is ready and stays in the slot is given up only after RetryMax
\* faults within one block, for any RetryMax and any number of faults.
THEOREM FaultsMaskedCorrect == Spec => []FaultsMasked
<1>1. (~misread => SdInv) => FaultsMasked
  BY DEF SdInv, JobInv, FaultsMasked
<1> QED
  BY <1>1, SdInvariant, PTL
=============================================================================
