------------------------------ MODULE NetdevTimes ------------------------------
(***************************************************************************)
(* netdev-times.py (scripts/python): follows packets from the queue of a     *)
(* device to their release (tx_*_list), and the interrupts, softirqs and      *)
(* received packets of a CPU (irq_dic, net_rx_dic, receive_hunk_list).        *)
(*                                                                         *)
(* trace_end handles the events in the order in which they came: its sort     *)
(* compares by a < b, which is never negative, and so moves nothing.  A       *)
(* handler is therefore applied here at its event.  The environment is the    *)
(* kernel: sk_buffs, whose addresses are used again, and the contexts of one  *)
(* CPU.  Device names, lengths and the text of the report are left out.       *)
(***************************************************************************)
EXTENDS Integers, Sequences, FiniteSets, SequencesExt

CONSTANTS
  Addrs,      \* addresses of sk_buffs
  Irqs,       \* interrupt numbers
  Budget,     \* buffer_budget
  MaxEvents   \* bound of a trace, for each focus of the kernel

VARIABLE st

None == 0

\* What the script knows.  irq is <<>> for a CPU that is not in irq_dic and <<list>> otherwise.
ScriptInit ==
  [irq |-> <<>>, netRx |-> <<>>, hunks |-> <<>>, rx |-> <<>>, rxList |-> <<>>,
   txQueue |-> <<>>, txXmit |-> <<>>, txFree |-> <<>>, overflow |-> 0,
   crashed |-> FALSE]

Without(list, i) == SubSeq(list, 1, i - 1) \o SubSeq(list, i + 1, Len(list))
First(list, Test(_)) == CHOOSE i \in DOMAIN list :
                          Test(list[i]) /\ \A j \in 1..(i - 1) : ~Test(list[j])
Has(list, addr) == \E i \in DOMAIN list : list[i].addr = addr
Find(list, addr) == First(list, LAMBDA skb : skb.addr = addr)

\* insert(0, ...), and pop() of the oldest beyond the budget.
Inserted(list, x) == SubSeq(<<x>> \o list, 1, IF Len(list) < Budget THEN Len(list) + 1
                                              ELSE Budget)
Overflows(list) == IF Len(list) < Budget THEN 0 ELSE 1
-----------------------------------------------------------------------------
(* Handlers of a transmitted packet.                                        *)

NetDevQueue(s, e) ==
  [s EXCEPT !.txQueue = Inserted(@, [addr |-> e.addr, queue |-> e.time, xmit |-> None]),
            !.overflow = @ + Overflows(s.txQueue)]

NetDevXmit(s, e) ==
  IF ~e.ok \/ ~Has(s.txQueue, e.addr) THEN s
  ELSE LET i == Find(s.txQueue, e.addr)
       IN  [s EXCEPT !.txQueue = Without(@, i),
              !.txXmit = Inserted(@, [s.txQueue[i] EXCEPT !.xmit = e.time]),
              !.overflow = @ + Overflows(s.txXmit)]

TxFreed(s, e) ==
  LET i == Find(s.txXmit, e.addr)
  IN  [s EXCEPT !.txXmit = Without(@, i),
         !.txFree = Append(@, [addr |-> e.addr, queue |-> s.txXmit[i].queue,
                               xmit |-> s.txXmit[i].xmit, free |-> e.time])]

\* The newest record of a received packet at the address gets its end.
RxHas(s, addr) == \E i \in DOMAIN s.rxList : s.rx[s.rxList[i]].addr = addr
RxHandled(s, e) ==
  LET i == First(s.rxList, LAMBDA r : s.rx[r].addr = e.addr)
  IN  [s EXCEPT !.rx[s.rxList[i]].end = [how |-> e.name, time |-> e.time],
                !.rxList = Without(@, i)]

KfreeSkb(s, e) ==
  IF Has(s.txQueue, e.addr)
  THEN [s EXCEPT !.txQueue = Without(@, Find(s.txQueue, e.addr))]
  ELSE IF Has(s.txXmit, e.addr) THEN TxFreed(s, e)
  ELSE IF RxHas(s, e.addr) THEN RxHandled(s, e)
  ELSE s

ConsumeSkb(s, e) == IF Has(s.txXmit, e.addr) THEN TxFreed(s, e) ELSE s

SkbCopyDatagramIovec(s, e) == IF RxHas(s, e.addr) THEN RxHandled(s, e) ELSE s
-----------------------------------------------------------------------------
(* Handlers of interrupts and of what NET_RX does.                          *)

IrqHandlerEntry(s, e) ==
  LET stack == IF s.irq = <<>> THEN <<>> ELSE s.irq[1]
  IN  [s EXCEPT !.irq = <<Append(stack, [irq |-> e.irq, entry |-> e.time,
                                         events |-> <<>>])>>]

\* pop() of an empty list raises IndexError.
IrqHandlerExit(s, e) ==
  IF s.irq = <<>> THEN s
  ELSE IF s.irq[1] = <<>> THEN [s EXCEPT !.crashed = TRUE]
  ELSE LET record == Last(s.irq[1])
       IN  IF record.irq = e.irq /\ record.events # <<>> THEN s
           ELSE [s EXCEPT !.irq[1] = Front(@)]

\* irq__softirq_raise and netif_rx: noted with the interrupt on top of the stack.
NoteInIrq(s, e) ==
  IF s.irq = <<>> \/ s.irq = <<<<>>>> THEN s
  ELSE [s EXCEPT !.irq[1][Len(s.irq[1])].events = Append(@, e.name)]

SoftirqEntry(s, e) == [s EXCEPT !.netRx = <<[entry |-> e.time, events |-> <<>>]>>]

SoftirqExit_KeepsIrqs(s, e) ==
  LET irqs == IF s.irq = <<>> THEN <<>> ELSE s.irq[1]
      closed == [s EXCEPT !.netRx = <<>>]
  IN  IF irqs = <<>> \/ s.netRx = <<>> THEN closed
      ELSE [closed EXCEPT !.hunks = Append(@,
              [irqs |-> irqs, entry |-> s.netRx[1].entry, exit |-> e.time,
               events |-> s.netRx[1].events])]
SoftirqExit(s, e) ==
  LET irqs == IF s.irq = <<>> THEN <<>> ELSE s.irq[1]
      closed == [s EXCEPT !.irq = <<>>, !.netRx = <<>>]
  IN  IF irqs = <<>> \/ s.netRx = <<>> THEN closed
      ELSE [closed EXCEPT !.hunks = Append(@,
              [irqs |-> irqs, entry |-> s.netRx[1].entry, exit |-> e.time,
               events |-> s.netRx[1].events])]

NapiPoll(s, e) ==
  IF s.netRx = <<>> THEN s ELSE [s EXCEPT !.netRx[1].events = Append(@, None)]

\* The record is shared by the hunk and rx_skb_list: both hold its number.
NetifReceiveSkb(s, e) ==
  IF s.netRx = <<>> THEN s
  ELSE [s EXCEPT !.rx = Append(@, [addr |-> e.addr, time |-> e.time,
                                   end |-> [how |-> "none", time |-> None]]),
          !.netRx[1].events = Append(@, Len(s.rx) + 1),
          !.rxList = Inserted(@, Len(s.rx) + 1),
          !.overflow = @ + Overflows(s.rxList)]

\* trace_end's choice of the handler.
Handle(s, e) ==
  CASE s.crashed -> s
    [] e.name = "net_dev_queue" -> NetDevQueue(s, e)
    [] e.name = "net_dev_xmit" -> NetDevXmit(s, e)
    [] e.name = "kfree_skb" -> KfreeSkb(s, e)
    [] e.name = "consume_skb" -> ConsumeSkb(s, e)
    [] e.name = "skb_copy_datagram_iovec" -> SkbCopyDatagramIovec(s, e)
    [] e.name = "irq_handler_entry" -> IrqHandlerEntry(s, e)
    [] e.name = "irq_handler_exit" -> IrqHandlerExit(s, e)
    [] e.name \in {"softirq_raise", "netif_rx"} -> NoteInIrq(s, e)
    [] e.name = "softirq_entry" -> SoftirqEntry(s, e)
    [] e.name = "softirq_exit" -> SoftirqExit(s, e)
    [] e.name = "napi_poll" -> NapiPoll(s, e)
    [] e.name = "netif_receive_skb" -> NetifReceiveSkb(s, e)
-----------------------------------------------------------------------------
(* The kernel.  focus says which half of it is busy.                        *)

Unused == [state |-> "unused", queue |-> None, xmit |-> None, rx |-> None]

Init ==
  \E focus \in {"tx", "rx"} :
    st = [focus |-> focus, clock |-> 0, skb |-> [a \in Addrs |-> Unused],
          \* packets sent and then released, those released before they were said to
          \* be sent, those consumed without a copy; what came later at their addresses
          sent |-> {}, late |-> {}, stale |-> {}, ends |-> {},
          \* contexts of the CPU, innermost last; NET_RX pending; the interrupts that
          \* raised it since the last softirq; packets of this softirq; what was done
          ctx |-> <<>>, pending |-> FALSE, raisers |-> <<>>, packets |-> 0,
          softirqs |-> <<>>, received |-> <<>>,
          script |-> ScriptInit]

Now == st.clock + 1

FreeNames == {"kfree_skb", "consume_skb"}
EndNames == FreeNames \cup {"skb_copy_datagram_iovec"}

\* Addresses of packets whose release the script missed.
Missed == {p.addr : p \in st.late} \cup {st.received[x[1]].addr : x \in st.stale}

\* The kernel becomes k, with an event.
Event(k, e) ==
  /\ st.clock < MaxEvents[st.focus]
  /\ st' = [k EXCEPT !.clock = Now, !.script = Handle(@, [e EXCEPT !.time = Now]),
              !.ends = IF e.name \in EndNames /\ e.addr \in Missed
                       THEN @ \cup {[e EXCEPT !.time = Now]}
                       ELSE @]

Plain(name) == [name |-> name, time |-> None]
OfSkb(name, a) == [name |-> name, time |-> None, addr |-> a]
OfIrq(name, i) == [name |-> name, time |-> None, irq |-> i]

Queue(a) ==
  /\ st.focus = "tx" /\ st.skb[a].state = "unused"
  /\ Event([st EXCEPT !.skb[a] = [Unused EXCEPT !.state = "queued", !.queue = Now]],
           OfSkb("net_dev_queue", a))

\* A driver that is busy refuses the packet, and it stays queued.
Transmit(a, ok) ==
  /\ st.skb[a].state = "queued"
  /\ Event([st EXCEPT !.skb[a] = IF ok THEN [@ EXCEPT !.state = "sent", !.xmit = Now]
                                 ELSE @],
           [name |-> "net_dev_xmit", time |-> None, addr |-> a, ok |-> ok])

DropQueued(a) ==
  /\ st.skb[a].state = "queued"
  /\ Event([st EXCEPT !.skb[a] = Unused], OfSkb("kfree_skb", a))

Sent(a) == [addr |-> a, queue |-> st.skb[a].queue, xmit |-> st.skb[a].xmit,
            free |-> Now]

FreeSent(a, how) ==
  /\ st.skb[a].state = "sent"
  /\ Event([st EXCEPT !.skb[a] = Unused, !.sent = @ \cup {Sent(a)}], OfSkb(how, a))

\* The device is done with the packet, on another CPU, before the transmission
\* is traced; the address is used again after that only.
CompleteEarly(a) ==
  /\ st.skb[a].state = "queued"
  /\ Event([st EXCEPT !.skb[a].state = "early"], OfSkb("consume_skb", a))
TransmitLate(a) ==
  /\ st.skb[a].state = "early"
  /\ Event([st EXCEPT !.skb[a] = Unused,
              !.late = @ \cup {[addr |-> a, queue |-> st.skb[a].queue, xmit |-> Now]}],
           [name |-> "net_dev_xmit", time |-> None, addr |-> a, ok |-> TRUE])

\* An sk_buff that no other event of this trace has named.
FreeOther(a, how) ==
  /\ st.skb[a].state = "unused"
  /\ Event(st, OfSkb(how, a))

InIrq == st.ctx # <<>> /\ Last(st.ctx).kind = "irq"
InSoft == st.ctx # <<>> /\ Last(st.ctx).kind = "softirq"

\* Handlers run with interrupts disabled: they interrupt softirqs, not one another.
EnterIrq(i) ==
  /\ st.focus = "rx" /\ ~InIrq
  /\ Event([st EXCEPT !.ctx = Append(@, [kind |-> "irq", irq |-> i, entry |-> Now,
                                         raised |-> FALSE])],
           OfIrq("irq_handler_entry", i))

\* netif_rx queues a packet and raises the softirq.
Raise(name) ==
  /\ InIrq
  /\ Event([st EXCEPT !.pending = TRUE, !.ctx[Len(st.ctx)].raised = TRUE], Plain(name))

ExitIrq ==
  /\ InIrq
  /\ LET irq == Last(st.ctx)
     IN  Event([st EXCEPT !.ctx = Front(@),
                  !.raisers = IF irq.raised
                              THEN Append(@, [irq |-> irq.irq, entry |-> irq.entry])
                              ELSE @],
               OfIrq("irq_handler_exit", irq.irq))

EnterSoftirq ==
  /\ st.pending /\ st.ctx = <<>>
  /\ Event([st EXCEPT !.pending = FALSE, !.packets = 0,
                      !.ctx = <<[kind |-> "softirq", entry |-> Now]>>],
           Plain("softirq_entry"))

Poll == InSoft /\ Event(st, Plain("napi_poll"))

Receive(a) ==
  /\ InSoft /\ st.skb[a].state = "unused"
  /\ Event([st EXCEPT !.skb[a] = [Unused EXCEPT !.state = "received",
                                                !.rx = Len(st.received) + 1],
                      !.packets = @ + 1,
                      !.received = Append(@, [addr |-> a, time |-> Now,
                                             end |-> [how |-> "none", time |-> None]])],
           OfSkb("netif_receive_skb", a))

ExitSoftirq ==
  /\ InSoft
  /\ Event([st EXCEPT !.ctx = <<>>, !.raisers = <<>>,
              !.softirqs = Append(@, [irqs |-> st.raisers, packets |-> st.packets,
                                      entry |-> st.ctx[1].entry])],
           Plain("softirq_exit"))

\* A program reads the packet, and it is freed; consume_skb of a packet that
\* nobody copied leaves its record behind.
Ended(a, how) ==
  LET r == st.skb[a].rx
  IN  IF st.received[r].end.how # "none" THEN st
      ELSE IF how = "consume_skb" THEN [st EXCEPT !.stale = @ \cup {<<r, Now>>}]
      ELSE [st EXCEPT !.received[r].end = [how |-> how, time |-> Now]]
Copy(a) ==
  /\ st.skb[a].state = "received"
  /\ Event(Ended(a, "skb_copy_datagram_iovec"), OfSkb("skb_copy_datagram_iovec", a))
FreeReceived(a, how) ==
  /\ st.skb[a].state = "received"
  /\ Event([Ended(a, how) EXCEPT !.skb[a] = Unused], OfSkb(how, a))

Next ==
  \/ \E a \in Addrs :
       \/ Queue(a) \/ DropQueued(a) \/ CompleteEarly(a) \/ TransmitLate(a)
       \/ Receive(a) \/ Copy(a)
       \/ \E ok \in BOOLEAN : Transmit(a, ok)
       \/ \E how \in FreeNames :
            FreeSent(a, how) \/ FreeOther(a, how) \/ FreeReceived(a, how)
  \/ \E i \in Irqs : EnterIrq(i)
  \/ \E name \in {"softirq_raise", "netif_rx"} : Raise(name)
  \/ ExitIrq \/ EnterSoftirq \/ Poll \/ ExitSoftirq
-----------------------------------------------------------------------------
TypeOK ==
  /\ \A list \in {st.script.txQueue, st.script.txXmit, st.script.rxList} :
       Len(list) <= Budget
  /\ Len(st.script.irq) <= 1 /\ Len(st.script.netRx) <= 1

\* A release or copy at the address after the given time.
LaterEnds(addr, time) == {e \in st.ends : e.addr = addr /\ e.time > time}

\* Each line of the transmit report gives the times of one packet that was
\* really sent: a busy driver, a drop in the queue and a full list do not mix two
\* packets up (tx_*_list). Its release is its own, unless that was traced before
\* its transmission; then it is the release of a later user of its address. No
\* packet and no release is in two lines.
TxTimesRight ==
  LET lines == st.script.txFree
      times(l) == [addr |-> l.addr, queue |-> l.queue, xmit |-> l.xmit]
  IN  /\ \A i \in DOMAIN lines :
           \/ lines[i] \in st.sent
           \/ /\ times(lines[i]) \in st.late
              /\ \E e \in LaterEnds(lines[i].addr, lines[i].xmit) : e.time = lines[i].free
      /\ \A i, j \in DOMAIN lines :
           i # j => lines[i].queue # lines[j].queue /\ lines[i].free # lines[j].free

\* And no packet that was released after it was sent is missing, but for those a
\* full list dropped.
TxAllShown ==
  Cardinality(st.sent \ Range(st.script.txFree)) <= st.script.overflow

\* Each receive hunk is one run of NET_RX with the interrupts that asked for it
\* since the run before and the packets it received; the runs shown are those
\* some interrupt asked for (irq_dic, net_rx_dic).
HunksRight ==
  LET shown == SelectSeq(st.softirqs, LAMBDA q : q.irqs # <<>>)
  IN  /\ Len(st.script.hunks) = Len(shown)
      /\ \A i \in DOMAIN shown :
           LET hunk == st.script.hunks[i]
           IN  /\ hunk.entry = shown[i].entry
               /\ [j \in DOMAIN hunk.irqs |->
                     [irq |-> hunk.irqs[j].irq, entry |-> hunk.irqs[j].entry]]
                    = shown[i].irqs
               /\ Len(SelectSeq(hunk.events, LAMBDA r : r # None)) = shown[i].packets

\* What is said to have become of a received packet became of it (rx_skb_list),
\* whoever had its address before. Only a packet that consume_skb released without
\* a copy, which the script does not see, may be given what became of a later one
\* at its address. No release and no copy is told of two packets.
RxEndsRight ==
  LET end(r) == st.script.rx[r].end
      strays(r) == UNION {LaterEnds(st.received[r].addr, x[2]) :
                            x \in {y \in st.stale : y[1] = r}}
  IN  /\ \A r \in DOMAIN st.script.rx :
           \/ end(r) = st.received[r].end
           \/ end(r).how = "none" /\ st.script.overflow > 0
           \/ \E e \in strays(r) : end(r) = [how |-> e.name, time |-> e.time]
      /\ \A q, r \in DOMAIN st.script.rx :
           q # r /\ end(q).how # "none" => end(q).time # end(r).time

\* The report of transmitted packets.
TxReportRight == TxTimesRight /\ TxAllShown

\* The report of received packets, which is made at all: no pop() of an empty
\* list ends the script (handle_irq_handler_exit).
RxReportRight == HunksRight /\ RxEndsRight /\ ~st.script.crashed
=============================================================================
