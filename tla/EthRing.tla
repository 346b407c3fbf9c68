------------------------------ MODULE EthRing ------------------------------
(***************************************************************************)
(* The Ethernet driver's descriptor rings: hal_eth_tx() and hal_eth_rx()   *)
(* of hal_eth.c, the drain loop above them in os/default/ethernetif.c, run *)
(* by the net task, the MAC's DMA on the other side of both rings, and     *)
(* cli_net_init(), which the command line may call while the net task      *)
(* runs.                                                                   *)
(*                                                                         *)
(* A descriptor belongs to the DMA while its OWN bit is set, to the driver *)
(* otherwise. Both sides go round the ring with an index of their own and  *)
(* never exchange it. A frame is a number, in the order of arrival (rx) or *)
(* of hal_eth_tx() calls (tx).                                             *)
(***************************************************************************)
EXTENDS Integers, Sequences, SequencesExt

CONSTANTS
    RxDescs,    \* HAL_ETH_RX_DESC_COUNT
    TxDescs,    \* HAL_ETH_TX_DESC_COUNT
    SkipBudget, \* skip_budget of low_level_input()
    Timeout,    \* the 100000 of hal_eth_tx()
    MaxRx,      \* bound: frames that arrive
    MaxTx,      \* bound: frames that are sent
    MaxInits    \* bound: calls of cli_net_init() after the first

ASSUME RingAssumption == RxDescs \in Nat \ {0} /\ TxDescs \in Nat \ {0}
ASSUME LoopAssumption == SkipBudget \in Nat \ {0} /\ Timeout \in Nat \ {0}
ASSUME BoundAssumption == {MaxRx, MaxTx, MaxInits} \subseteq Nat

FrameKinds == {"good", "bad"}  \* bad: ES set, or not both FS and LS; hal_eth_rx() skips either alike

VARIABLES
    rxRing,     \* rx_desc: [own, frame, kind]
    rxIdx,      \* rx_idx
    rxDma,      \* the descriptor the DMA is to fill
    txRing,     \* tx_desc with tx_buf: [own, frame]
    txIdx,      \* tx_idx
    txDma,      \* the descriptor the DMA is to send
    sending,    \* the frame it has read from there, or 0
    pc,         \* where the net task is
    back,       \* where it goes from lwIP, "poll" or "rx"
    desc,       \* hal_eth_rx()'s desc and what it has read there: [at, frame, kind]
    skip,       \* skip_budget
    timeout,    \* hal_eth_tx()'s
    arrived, inits, \* bounds
    expired,    \* whether a wait of hal_eth_tx() has run out
    \* history
    stored,     \* the good frames the DMA put in the ring
    delivered,  \* those lwIP was given
    dropped,    \* those there was no pbuf for
    accepted,   \* the frames hal_eth_tx() returned 0 for
    sent        \* the frames on the wire

rxVars   == <<rxRing, rxIdx, rxDma>>
txVars   == <<txRing, txIdx, txDma, sending>>
taskVars == <<pc, back, desc, skip, timeout>>
rxLog    == <<arrived, stored, delivered, dropped>>
txLog    == <<accepted, sent>>
ethVars     == <<rxVars, txVars, taskVars, rxLog, txLog, inits, expired>>

RxSlots == 0 .. RxDescs - 1
TxSlots == 0 .. TxDescs - 1

\* init_descriptor_rings()
EmptyRx == [d \in RxSlots |-> [own |-> TRUE, frame |-> 0, kind |-> "good"]]
EmptyTx == [d \in TxSlots |-> [own |-> FALSE, frame |-> 0]]

NoDesc  == [at |-> 0, frame |-> 0, kind |-> "good"]

EthInit ==
    /\ rxRing = EmptyRx /\ rxIdx = 0 /\ rxDma = 0
    /\ txRing = EmptyTx /\ txIdx = 0 /\ txDma = 0 /\ sending = 0
    /\ pc = "poll" /\ back = "poll" /\ desc = NoDesc /\ skip = 0 /\ timeout = 0
    /\ arrived = 0 /\ inits = 0 /\ expired = FALSE
    /\ stored = {} /\ delivered = <<>> /\ dropped = {}
    /\ accepted = <<>> /\ sent = <<>>
-----------------------------------------------------------------------------
(***************************************************************************)
(* The DMA.                                                                *)
(***************************************************************************)
\* A frame arrives: it is stored, or missed when the ring is full.
DmaReceive ==
    /\ arrived < MaxRx
    /\ arrived' = arrived + 1
    /\ IF rxRing[rxDma].own
       THEN \E k \in FrameKinds :
              /\ rxRing' = [rxRing EXCEPT ![rxDma] =
                              [own |-> FALSE, frame |-> arrived', kind |-> k]]
              /\ rxDma' = (rxDma + 1) % RxDescs
              /\ stored' = IF k = "good" THEN stored \cup {arrived'} ELSE stored
       ELSE UNCHANGED <<rxRing, rxDma, stored>>
    /\ UNCHANGED <<rxIdx, txVars, taskVars, delivered, dropped, txLog, inits, expired>>

DmaFetch ==
    /\ sending = 0 /\ txRing[txDma].own
    /\ sending' = txRing[txDma].frame
    /\ UNCHANGED <<rxVars, txRing, txIdx, txDma, taskVars, rxLog, txLog, inits, expired>>

DmaSent ==
    /\ sending # 0
    /\ sent' = Append(sent, sending)
    /\ sending' = 0
    /\ txRing' = [txRing EXCEPT ![txDma].own = FALSE]
    /\ txDma' = (txDma + 1) % TxDescs
    /\ UNCHANGED <<rxVars, txIdx, taskVars, rxLog, accepted, inits, expired>>

DmaSend == DmaFetch \/ DmaSent
-----------------------------------------------------------------------------
(***************************************************************************)
(* The net task: ethernetif_input() drains the ring into lwIP, which may   *)
(* answer with a frame of its own.                                         *)
(***************************************************************************)
TaskStep(from) ==
    /\ pc = from
    /\ UNCHANGED <<arrived, stored, sent, inits>>

\* low_level_input() is called.
Drain ==
    /\ TaskStep("poll")
    /\ pc' = "rx"
    /\ skip' = SkipBudget
    /\ UNCHANGED <<rxVars, txVars, back, desc, timeout, delivered, dropped, accepted>>

\* hal_eth_rx() finds the descriptor still the DMA's and returns 0: the drain
\* loop is done, and lwIP's timers have their turn.
RxNone ==
    /\ TaskStep("rx") /\ rxRing[rxIdx].own
    /\ pc' = "lwip" /\ back' = "poll"
    /\ UNCHANGED <<rxVars, txVars, desc, skip, timeout, delivered, dropped, accepted>>

\* It finds a frame, whose status and bytes it reads.
RxTake ==
    /\ TaskStep("rx") /\ ~ rxRing[rxIdx].own
    /\ desc' = [at |-> rxIdx, frame |-> rxRing[rxIdx].frame, kind |-> rxRing[rxIdx].kind]
    /\ pc' = "give"
    /\ UNCHANGED <<rxVars, txVars, back, skip, timeout, delivered, dropped, accepted>>

\* Mutants: only a bad frame's descriptor is given back; only a good one is passed.
GivenBackBad(d, kind) == [rxRing EXCEPT ![d].own = (kind # "good")]
NextRxGood(i, kind) == IF kind = "good" THEN (i + 1) % RxDescs ELSE i

\* Every path of hal_eth_rx() gives the descriptor back and moves on.
GivenBack(d, kind) == [rxRing EXCEPT ![d].own = TRUE]
NextRx(i, kind) == (i + 1) % RxDescs

\* A good frame goes to lwIP, when there is a pbuf for it; without one, or with
\* the budget spent on frames that are not good, the drain loop ends.
RxGive ==
    /\ TaskStep("give")
    /\ rxRing' = GivenBack(desc.at, desc.kind)
    /\ rxIdx' = NextRx(rxIdx, desc.kind)
    /\ IF desc.kind = "good"
       THEN \/ /\ delivered' = Append(delivered, desc.frame)
               /\ pc' = "lwip" /\ back' = "rx" /\ skip' = SkipBudget
               /\ UNCHANGED dropped
            \/ /\ dropped' = dropped \cup {desc.frame}
               /\ pc' = "lwip" /\ back' = "poll"
               /\ UNCHANGED <<delivered, skip>>
       ELSE /\ skip' = skip - 1
            /\ IF skip' > 0 THEN pc' = "rx" /\ UNCHANGED back
                            ELSE pc' = "lwip" /\ back' = "poll"
            /\ UNCHANGED <<delivered, dropped>>
    /\ UNCHANGED <<rxDma, txVars, desc, timeout, accepted>>

\* lwIP has nothing to send, or no more.
LwipReturn ==
    /\ TaskStep("lwip")
    /\ pc' = back
    /\ UNCHANGED <<rxVars, txVars, back, desc, skip, timeout, delivered, dropped, accepted>>

\* Mutant: the descriptor is not waited for.
OutputNoWait ==
    /\ TaskStep("lwip") /\ Len(accepted) < MaxTx
    /\ pc' = "write"
    /\ UNCHANGED <<rxVars, txVars, back, desc, skip, timeout, delivered, dropped, accepted>>

\* low_level_output() calls hal_eth_tx() ...
Output ==
    /\ TaskStep("lwip") /\ Len(accepted) < MaxTx
    /\ pc' = "spin"
    /\ timeout' = Timeout
    /\ UNCHANGED <<rxVars, txVars, back, desc, skip, delivered, dropped, accepted>>

\* ... which waits until its descriptor is not the DMA's:
\* while ((desc->status & OWN) && timeout--) ;
Spin ==
    /\ TaskStep("spin") /\ txRing[txIdx].own /\ timeout > 0
    /\ timeout' = timeout - 1
    /\ UNCHANGED <<rxVars, txVars, pc, back, desc, skip, delivered, dropped, accepted>>

\* The descriptor is the driver's. After the last but one look the frame is
\* refused all the same: if (timeout == 0) return -2;
SpinFree ==
    /\ TaskStep("spin") /\ ~ txRing[txIdx].own
    /\ pc' = IF timeout = 0 THEN "lwip" ELSE "write"
    /\ UNCHANGED <<rxVars, txVars, back, desc, skip, timeout, delivered, dropped, accepted>>

\* It still is the DMA's: the test has taken timeout from 0 to 2^32 - 1, and
\* the call goes on as if it were free.
SpinOver ==
    /\ TaskStep("spin") /\ txRing[txIdx].own /\ timeout = 0
    /\ pc' = "write" /\ expired' = TRUE
    /\ UNCHANGED <<rxVars, txVars, back, desc, skip, timeout, delivered, dropped, accepted>>

NewFrame == Len(accepted) + 1

Copy ==
    /\ TaskStep("write")
    /\ txRing' = [txRing EXCEPT ![txIdx].frame = NewFrame]
    /\ pc' = "own"
    /\ UNCHANGED <<rxVars, txIdx, txDma, sending, back, desc, skip, timeout,
                   delivered, dropped, accepted>>

NextTx(i) == (i + 1) % TxDescs

\* Mutant: the descriptor is never handed over.
HandOverNoOwn ==
    /\ TaskStep("own")
    /\ txIdx' = NextTx(txIdx)
    /\ accepted' = Append(accepted, NewFrame)
    /\ pc' = "lwip"
    /\ UNCHANGED <<rxVars, txRing, txDma, sending, back, desc, skip, timeout, delivered, dropped>>

HandOver ==
    /\ TaskStep("own")
    /\ txRing' = [txRing EXCEPT ![txIdx].own = TRUE]
    /\ txIdx' = NextTx(txIdx)
    /\ accepted' = Append(accepted, NewFrame)
    /\ pc' = "lwip"
    /\ UNCHANGED <<rxVars, txDma, sending, back, desc, skip, timeout, delivered, dropped>>

NetTask ==
    \/ SpinOver
    \/ /\ \/ Drain \/ RxNone \/ RxTake \/ RxGive \/ LwipReturn \/ Output
          \/ Spin \/ SpinFree \/ Copy \/ HandOver
       /\ UNCHANGED expired
-----------------------------------------------------------------------------
\* "net init" on the command line of another task: hal_eth_init() resets the
\* MAC and makes the rings anew.
Reinit ==
    /\ inits < MaxInits
    /\ inits' = inits + 1
    /\ rxRing' = EmptyRx /\ rxIdx' = 0 /\ rxDma' = 0
    /\ txRing' = EmptyTx /\ txIdx' = 0 /\ txDma' = 0 /\ sending' = 0
    /\ UNCHANGED <<taskVars, rxLog, txLog, expired>>

EthNext == DmaReceive \/ DmaSend \/ NetTask \/ Reinit

\* The wire takes what the DMA sends; the net task, READY at the priority of
\* the others, is run (RoundRobin of SaramosKernel), and does not stay in lwIP:
\* a frame it has to send is one of MaxTx.
Fairness == WF_ethVars(DmaSend) /\ WF_ethVars(NetTask)

EthSpec == EthInit /\ [][EthNext]_ethVars
EthFairSpec == EthSpec /\ Fairness
-----------------------------------------------------------------------------
(***************************************************************************)
(* Properties.                                                             *)
(***************************************************************************)
Places == {"poll", "rx", "give", "lwip", "spin", "write", "own"}

\* Every variable has its type; the budget of a drain loop is never overdrawn.
EthTypeOK ==
    /\ expired \in BOOLEAN
    /\ rxRing \in [RxSlots -> [own : BOOLEAN, frame : 0 .. MaxRx, kind : FrameKinds]]
    /\ txRing \in [TxSlots -> [own : BOOLEAN, frame : 0 .. MaxTx]]
    /\ {rxIdx, rxDma, desc.at} \subseteq RxSlots /\ {txIdx, txDma} \subseteq TxSlots
    /\ sending \in 0 .. MaxTx
    /\ pc \in Places /\ back \in {"poll", "rx"}
    /\ skip \in 0 .. SkipBudget /\ timeout \in 0 .. Timeout
    /\ arrived \in 0 .. MaxRx /\ inits \in 0 .. MaxInits
    /\ pc = "rx" => skip > 0

\* The good frames the driver has not yet given back.
InRing ==
    {rxRing[d].frame : d \in {e \in RxSlots : ~ rxRing[e].own /\ rxRing[e].kind = "good"}}

\* No frame is given to lwIP twice, not even when the rings are made anew under the net
\* task.
DeliveredOnce ==
    \A i, j \in DOMAIN delivered : delivered[i] = delivered[j] => i = j

\* While the rings are those of one net init, every good frame the DMA stored is given to
\* lwIP once, in the order of arrival, save those there was no pbuf for, however bad
\* frames are mixed in and however often the ring was full.
FramesInOrder ==
    /\ EthTypeOK
    /\ inits = 0 =>
         /\ stored = Range(delivered) \cup dropped \cup InRing
         /\ Range(delivered) \cap (dropped \cup InRing) = {} /\ dropped \cap InRing = {}
         /\ \A i, j \in DOMAIN delivered : i < j => delivered[i] < delivered[j]
    /\ DeliveredOnce

\* "Wait for previous transmission on this descriptor to complete": hal_eth_tx()
\* never writes to the buffer of a descriptor that is the DMA's.
DmaBufferStable ==
    [][\A d \in TxSlots : txRing[d].own => txRing'[d].frame = txRing[d].frame]_ethVars

\* It does so as long as the DMA is in time and the rings are not made anew under it.
BufferStableInTime ==
    [][~expired' /\ inits' = 0
        => \A d \in TxSlots : txRing[d].own => txRing'[d].frame = txRing[d].frame]_ethVars

\* The drain loop reaches every good frame, whatever comes before it: an ended
\* budget or a missing pbuf only puts it off.
GoodFramesArrive ==
    \A f \in 1 .. MaxRx :
        f \in stored ~> (Contains(delivered, f) \/ f \in dropped \/ inits > 0)

\* Every accepted frame is on the wire in the end, unless a wait ran out.
AcceptedAreSent ==
    \A f \in 1 .. MaxTx : Contains(accepted, f) ~> (Contains(sent, f) \/ expired \/ inits > 0)
=============================================================================
