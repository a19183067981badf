------------------------------- MODULE UsbLink -------------------------------
(* usb_task of src/firmware/src/usb/mod.rs: the queue of telemetry packets,  *)
(* the host's commands, and a cable that may be pulled at any time. The      *)
(* executor is cooperative: between two awaits that suspend the task neither *)
(* the producer of packets nor the device's own future (connection) runs.    *)
(* A write ends once the packet is in the endpoint, which holds one; the     *)
(* host polls it from there later, or never. The class is made for packets   *)
(* of 64 bytes: the endpoint refuses a longer one, cable or not.             *)
EXTENDS Integers, Sequences

CONSTANTS ChannelCap,   \* capacity of the PacketChannel: 8 in the code
          Commands,     \* what the host may send
          TooLong,      \* the packets, by number, of more than 64 bytes
          MaxPackets,   \* the bound on the packets produced
          MaxCommands,  \* the bound on the commands sent
          MaxUnplugs    \* the bound on the connections that end

ASSUME UsbAssumption ==
    /\ ChannelCap \in Nat \ {0} /\ TooLong \subseteq Nat
    /\ MaxPackets \in Nat /\ MaxCommands \in Nat /\ MaxUnplugs \in Nat

\* HostCommand; the other two are logged, as is a byte that is none of them.
Queries == {"QueryBist", "QueryTelemetry"}

None      == [what |-> "none"]
Packet(n) == [what |-> "packet", n |-> n]
Reply(c, place) == [what |-> "reply", to |-> c, place |-> place]

VARIABLES connected,    \* the endpoints are enabled: a host is there
          command,      \* the host's packet in the endpoint: a sequence of one
          fifo,         \* what the endpoint holds for the host to poll
          pc,           \* "wait", "read", "drain", "write", or suspended in
                        \* read_packet or write_packet: "reading", "writing"
          out,          \* what is being written
          channel,      \* the packets queued, by number
          produced,     \* the number of the last packet
          sent,         \* how many commands the host has sent
          unplugs,      \* how many connections have ended
          received,     \* history: the packets polled, and in which connection
          lost,         \* history: the packets that a pulled cable has cost
          asked,        \* history: the queries that were read
          answered      \* history: the replies polled, by the query's place

hostVars == <<connected, command, fifo, sent, unplugs>>
history == <<received, lost, asked, answered>>
usbVars == <<hostVars, pc, out, channel, produced, history>>

UsbInit ==
    /\ connected = FALSE /\ command = <<>> /\ fifo = None /\ sent = 0 /\ unplugs = 0
    /\ pc = "wait" /\ out = None /\ channel = <<>> /\ produced = 0
    /\ received = <<>> /\ lost = <<>> /\ asked = <<>> /\ answered = <<>>

\* The task is at an await that has not returned: the executor may run others.
Suspended == pc \in {"wait", "reading", "writing"}

\* The packet that is being written, and the one that the host has yet to poll.
PacketIn(item) == IF item.what = "packet" THEN <<item.n>> ELSE <<>>

InHand     == PacketIn(out)
InEndpoint == PacketIn(fifo)

\* The endpoint's error for a packet that does not fit (EndpointError). Replies
\* have one byte or nine.
Refused(item) == item.what = "packet" /\ item.n \in TooLong

-----------------------------------------------------------------------------
\* The host, and whoever fills the channel.

PlugIn ==
    /\ Suspended /\ ~connected /\ connected' = TRUE
    /\ UNCHANGED <<command, fifo, sent, unplugs, pc, out, channel, produced, history>>

\* What the endpoints hold is gone, in both directions.
Unplug ==
    /\ Suspended /\ connected /\ unplugs < MaxUnplugs
    /\ connected' = FALSE /\ unplugs' = unplugs + 1
    /\ command' = <<>> /\ fifo' = None /\ lost' = lost \o InEndpoint
    /\ UNCHANGED <<sent, pc, out, channel, produced, received, asked, answered>>

\* The host takes what the endpoint holds.
Poll ==
    /\ connected /\ fifo # None /\ fifo' = None
    /\ IF fifo.what = "packet"
       THEN /\ received' = Append(received, [n |-> fifo.n, unplugs |-> unplugs])
            /\ UNCHANGED answered
       ELSE /\ answered' = Append(answered, [to |-> fifo.to, place |-> fifo.place])
            /\ UNCHANGED received
    /\ UNCHANGED <<connected, command, sent, unplugs, pc, out, channel, produced, lost, asked>>

HostSends(c) ==
    /\ connected /\ command = <<>> /\ sent < MaxCommands
    /\ command' = <<c>> /\ sent' = sent + 1
    /\ UNCHANGED <<connected, fifo, unplugs, pc, out, channel, produced, history>>

Produce ==
    /\ Suspended /\ produced < MaxPackets /\ Len(channel) < ChannelCap
    /\ produced' = produced + 1 /\ channel' = Append(channel, produced + 1)
    /\ UNCHANGED <<hostVars, pc, out, history>>

-----------------------------------------------------------------------------
\* The task.

WaitConnection ==
    /\ pc = "wait" /\ connected /\ pc' = "read"
    /\ UNCHANGED <<hostVars, out, channel, produced, history>>

\* read_packet has nothing to return yet.
ReadPends ==
    /\ pc = "read" /\ connected /\ command = <<>> /\ pc' = "reading"
    /\ UNCHANGED <<hostVars, out, channel, produced, history>>

\* Its error is passed over, and the queue is next.
ReadFails ==
    /\ pc \in {"read", "reading"} /\ ~connected /\ pc' = "drain"
    /\ UNCHANGED <<hostVars, out, channel, produced, history>>

\* Mutant of BehindIgnored: the task reads again at once.
BehindIgnoredRead == "read"

\* Where the task goes on behind a command that is not answered.
BehindIgnored == "drain"

\* handle_command: a query is answered, anything else changes nothing.
ReadCommand ==
    /\ pc \in {"read", "reading"} /\ connected /\ command # <<>>
    /\ command' = <<>>
    /\ IF command[1] \in Queries
       THEN /\ pc' = "write" /\ out' = Reply(command[1], Len(asked) + 1)
            /\ asked' = Append(asked, command[1])
       ELSE pc' = BehindIgnored /\ UNCHANGED <<out, asked>>
    /\ UNCHANGED <<connected, fifo, sent, unplugs, channel, produced, received, lost, answered>>

\* Mutant of Forward: the newest packet goes first.
ForwardNewest ==
    /\ pc = "drain" /\ channel # <<>>
    /\ out' = Packet(channel[Len(channel)])
    /\ channel' = SubSeq(channel, 1, Len(channel) - 1)
    /\ pc' = "write"
    /\ UNCHANGED <<hostVars, produced, history>>

\* try_recv, and the packet is in the task's hand.
Forward ==
    /\ pc = "drain" /\ channel # <<>>
    /\ out' = Packet(Head(channel)) /\ channel' = Tail(channel) /\ pc' = "write"
    /\ UNCHANGED <<hostVars, produced, history>>

Drained ==
    /\ pc = "drain" /\ channel = <<>> /\ pc' = "read"
    /\ UNCHANGED <<hostVars, out, channel, produced, history>>

\* write_packet waits as long as the endpoint holds the packet before.
WritePends ==
    /\ pc = "write" /\ connected /\ fifo # None /\ ~Refused(out) /\ pc' = "writing"
    /\ UNCHANGED <<hostVars, out, channel, produced, history>>

\* write_packet has put it into the endpoint, and returns.
WriteOk ==
    /\ pc \in {"write", "writing"} /\ connected /\ fifo = None /\ ~Refused(out)
    /\ fifo' = out /\ out' = None /\ pc' = "drain"
    /\ UNCHANGED <<connected, command, sent, unplugs, channel, produced, history>>

\* Mutant of WriteFails: the error is passed over, as that of the read is.
WriteFailsOn ==
    /\ pc \in {"write", "writing"} /\ (~connected \/ Refused(out))
    /\ pc' = "drain" /\ out' = None
    /\ lost' = IF Refused(out) THEN lost ELSE lost \o InHand
    /\ UNCHANGED <<hostVars, channel, produced, received, asked, answered>>

\* Mutant of WriteFails: the task keeps the packet and writes it later.
WriteFailsKeeps ==
    /\ pc \in {"write", "writing"} /\ (~connected \/ Refused(out))
    /\ pc' = "wait" /\ out' = None
    /\ channel' = channel \o InHand
    /\ UNCHANGED <<hostVars, produced, history>>

\* Any error of the endpoint is Disconnected and ends host_loop; what was in
\* hand goes with it.
WriteFails ==
    /\ pc \in {"write", "writing"} /\ (~connected \/ Refused(out))
    /\ pc' = "wait" /\ out' = None
    /\ lost' = IF Refused(out) THEN lost ELSE lost \o InHand
    /\ UNCHANGED <<hostVars, channel, produced, received, asked, answered>>

UsbTask ==
    \/ WaitConnection \/ ReadPends \/ ReadFails \/ ReadCommand
    \/ Forward \/ Drained \/ WritePends \/ WriteOk \/ WriteFails

UsbNext ==
    \/ UsbTask
    \/ PlugIn \/ Unplug \/ Poll \/ Produce \/ \E c \in Commands : HostSends(c)

\* A task that can run does, and a host that stays connected polls for what the
\* endpoint holds. Nothing is assumed of commands, packets and the cable.
UsbSpec == UsbInit /\ [][UsbNext]_usbVars /\ WF_usbVars(UsbTask) /\ WF_usbVars(Poll)

-----------------------------------------------------------------------------
\* Packets reach the host at most once and in the order of the queue, whatever
\* the cable does and whichever packets the endpoint refuses: the task with its
\* queue and the endpoint is a pipe that may lose some of them.
Telemetry ==
    INSTANCE Pipe WITH open <- TRUE, MayLose <- TRUE, put <- [i \in 1..produced |-> i],
                       waiting <- InEndpoint \o (InHand \o channel),
                       taken <- [i \in DOMAIN received |-> received[i].n]

DeliversInOrder == Telemetry!Spec

\* Within one connection the host misses no packet but those that are too long:
\* any other gap in the numbers shows that the cable was pulled in between. (A
\* refused packet ends host_loop, and the task goes on where it stood.)
GapsOnlyAcrossUnplug ==
    \A i \in 1..(Len(received) - 1) :
        LET a == received[i]
            b == received[i + 1]
        IN  /\ a.n < b.n
            /\ a.unplugs = b.unplugs => (a.n + 1)..(b.n - 1) \subseteq TooLong

\* Every query is answered with its own reply, in order, or lost; and a
\* connection that ends costs, of packets and replies together, no more than two:
\* the one in the endpoint, whose write has returned, and the one in hand.
InFlight(item) == IF item.what = "reply" THEN 1 ELSE 0

TwoLossesPerUnplug ==
    /\ \A i \in DOMAIN answered : answered[i].to = asked[answered[i].place]
    /\ \A i, j \in DOMAIN answered : i < j => answered[i].place < answered[j].place
    /\ Len(lost) + Len(asked) - InFlight(out) - InFlight(fifo) - Len(answered) <= 2 * unplugs

\* A cable that is pulled while anything is to be written is noticed: the task
\* goes back to waiting for a connection. (With an empty queue it is not: read
\* and drain take turns for ever, and nothing else of the executor runs.)
UnplugNoticed ==
    ~connected /\ (pc \in {"write", "writing"} \/ (pc # "wait" /\ channel # <<>>))
        ~> pc = "wait" \/ connected

\* Whatever the host sends, a query or not, it gets the packets that are queued
\* then, for as long as it stays and host_loop lasts. (A packet that is refused
\* ends host_loop too: what is behind it waits for the next command.)
InQueue(n) == \E i \in DOMAIN channel : channel[i] = n

CommandServesQueue ==
    \A n \in 1..MaxPackets :
        command # <<>> /\ InQueue(n) /\ pc # "wait" ~> ~InQueue(n) \/ ~connected \/ pc = "wait"
=============================================================================
