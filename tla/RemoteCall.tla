------------------------------ MODULE RemoteCall ------------------------------
(***************************************************************************)
(* Calls of the demonstration service between machines.  Core 1 of a       *)
(* machine, when an arrow key is pressed, sends a request to core 2 of     *)
(* another, waits, and prints the result it finds in the reply; core 2     *)
(* serves requests.  Both cores of a machine use the one XML service and   *)
(* the one kernel heap of that machine.                                    *)
(*                                                                         *)
(* How a packet gets from the card into the queue of a core is in E1000    *)
(* and IPIoEWorker; here packets are under way or lost.                    *)
(***************************************************************************)
EXTENDS Messages, FiniteSets

CONSTANTS
    Machines,
    Arguments,  \* pairs <<m, n>> that are sent (the code has <<3, 12>> alone)
    Names,      \* the names of tags
    Tails,      \* what may follow a text in memory
    MaxCalls    \* bound on the calls a machine makes

ASSUME CallAssumption == /\ IsFiniteSet(Machines)
                         /\ Arguments \subseteq Nat \X Nat /\ MaxCalls \in Nat
                         /\ {"params", "FirstValue", "SecondValue", "Result"} \subseteq Names

\* A text is sent and copied without the NUL at its end, into an entry the heap
\* does not clear: what it is parsed with is whatever was there, up to a NUL, which
\* is presumed to come before printk's 2048 bytes, where the text goes too, are full.
ASSUME TailAssumption == Tails \subseteq Seq(Tokens(Names))

VARIABLES
    arrow,      \* machines whose arrow key was pressed, at each machine
    net,        \* packets under way
    sys_xml_confg,  \* the tree parsed last, of each machine
    tagDirectory,   \* params.tagDirectory of its XML service
    value,          \* returns.value of its XML service
    one,        \* core 1 of each machine
    two,        \* core 2 of each machine
    blocks,     \* sizes of the blocks of kmalloc from core 2's reply on, by core
    damaged,    \* history: a write has reached a block of the other core
    overlapped, \* history: both cores of a machine have been in a call at once
    calls       \* calls made by each machine

xml == <<sys_xml_confg, tagDirectory, value>>
callVars == <<arrow, net, xml, one, two, blocks, damaged, overlapped, calls>>

\* What core 1 and core 2 have in their locals: the label, the text dequeued;
\* the machine called, the arguments sent and the result printed; the sender, m,
\* n and the result.
CoreOne == [at |-> "loop", text |-> <<>>, to |-> {}, args |-> <<0, 0>>, result |-> -1]
CoreTwo == [at |-> "loop", text |-> <<>>, from |-> {}, m |-> 0, n |-> 0, res |-> 0]

------------------------------------------------------------------------------
(***************************************************************************)
(* The service.                                                            *)
(***************************************************************************)
\* What initAckermannFunctionService describes.
Parameters == << "FirstValue", "SecondValue" >>
Returns    == [tag |-> "Result", length |-> 6, size |-> 8]

ack[p \in Nat \X Nat] ==
    IF p[1] = 0 THEN p[2] + 1
    ELSE IF p[2] = 0 THEN ack[<<p[1] - 1, 1>>]
    ELSE ack[<<p[1] - 1, ack[<<p[1], p[2] - 1>>]>>]

\* A uint64_t in memory, of a result of at most 31 bits.
MaxResult == 2147483647
InMemory(r) == << r % 256, (r \div 256) % 256, (r \div 65536) % 256,
                  (r \div 16777216) % 256, 0, 0, 0, 0 >>
FromMemory(b) == b[1] + b[2] * 256 + b[3] * 65536 + b[4] * 16777216

\* The request that core 1 sends; the last tag is not closed.
Request(a) ==
    << Opens("params"),
       Opens(Parameters[1]), Chars(Number(a[1])), Closes(Parameters[1]),
       Opens(Parameters[2]), Chars(Number(a[2])), Closes(Parameters[2]),
       Opens("params") >>

\* The text ConvertTagToXML writes, ...
Reply(r) ==
    << Opens("params"), Opens(Returns.tag), Chars(Base64(base64_encode(InMemory(r)))),
       Closes(Returns.tag), Closes("params") >>

\* ... the block it allocates for it, those of base64_encode and of the decoding
\* that checks it, and the bytes it writes: the tags, 4 characters for 3 bytes, 0.
BufferSize  == (Returns.length * 2 + 9 + (Returns.size * 4) \div 3) * (4 \div 3)
EncodedSize == (Returns.size * 4) \div 3 + 4
DecodedSize == (Len(base64_encode(InMemory(0))) \div 4) * 3
Written     == (Returns.length + 11) + Len(base64_encode(InMemory(0)))
                   + (Returns.length + 14) + 1

------------------------------------------------------------------------------
\* There is no tree: NULL.
NoTree == [xml_heap_init EXCEPT !.ok = FALSE]

CallInit ==
    /\ arrow = [m \in Machines |-> {}] /\ net = {}
    /\ sys_xml_confg = [m \in Machines |-> NoTree]
    /\ tagDirectory = [m \in Machines |-> ""]
    /\ value = [m \in Machines |-> EmptyText]
    /\ one = [m \in Machines |-> CoreOne] /\ two = [m \in Machines |-> CoreTwo]
    /\ blocks = [m \in Machines |-> <<>>]
    /\ damaged = FALSE /\ overlapped = FALSE
    /\ calls = [m \in Machines |-> 0]

\* kmalloc by a core, recorded from the buffer of core 2's reply until it is
\* written: only the order of blocks that lie side by side matters.
kmalloc(m, c, sizes) ==
    blocks' = [blocks EXCEPT ![m] =
        IF @ = <<>> THEN @ ELSE @ \o [i \in 1..Len(sizes) |-> [core |-> c, size |-> sizes[i]]]]

\* Blocks of other calls: a queue entry, a NetworkPacket with its packet, the
\* tree's nodes.  Each is larger than what a reply may write too much.
Large == 1000

\* ParseXMLString.  If it fails there is no tree.
ParseXMLString(m, text) ==
    LET h == parse_xml(text)
    IN sys_xml_confg' = [sys_xml_confg EXCEPT ![m] = IF h.ok THEN h ELSE NoTree]

\* getValueFromTagMessage: the value stays as it was if there is no such node.
getValueFromTagMessage(m) ==
    LET h == sys_xml_confg[m]
    IN h.ok /\ value' = [value EXCEPT ![m] =
           IF exec_xquery(h, MessagePath(tagDirectory[m])) = 0 THEN @
           ELSE QueryText(h, tagDirectory[m])]

\* exec_xquery without a tree takes what is at address 0, the firmware's interrupt
\* vectors, for its first node: the tag is no address, and fault_handler halts the
\* core with interrupts disabled.
QueryFaults(m) == ~sys_xml_confg[m].ok /\ UNCHANGED value

sendIPIoE_Packet(m, to, c, text) ==
    net' = net \cup {[from |-> m, to |-> to, core |-> c, text |-> text]}

------------------------------------------------------------------------------
(***************************************************************************)
(* Core 1.                                                                 *)
(***************************************************************************)
\* The keyboard's handler; pressing a key again before its call ends has no effect.
Press(m) ==
    /\ \E t \in Machines \ ({m} \cup arrow[m]) : arrow' = [arrow EXCEPT ![m] = @ \cup {t}]
    /\ UNCHANGED <<net, xml, one, two, blocks, damaged, calls>>

OneStep(m, from, to) ==
    one[m].at = from /\ one' = [one EXCEPT ![m].at = to]

Call(m) ==
    /\ \E t \in arrow[m], a \in Arguments :
          /\ one[m].at = "loop" /\ calls[m] < MaxCalls
          /\ one' = [one EXCEPT ![m] = [CoreOne EXCEPT !.at = "wait", !.to = {t}, !.args = a]]
          /\ sendIPIoE_Packet(m, t, 2, Request(a))
    /\ kmalloc(m, 1, <<Large, Large>>)
    /\ calls' = [calls EXCEPT ![m] = @ + 1]
    /\ UNCHANGED <<arrow, xml, two, damaged>>

\* wait_IPIoE_messageId and workerDequeue.
Answer(m) ==
    /\ \E p \in net, tail \in Tails :
          /\ p.to = m /\ p.core = 1 /\ one[m].at = "wait"
          /\ one' = [one EXCEPT ![m].at = "parse", ![m].text = p.text \o tail]
          /\ net' = net \ {p}
    /\ kmalloc(m, 1, <<Large>>)
    /\ UNCHANGED <<arrow, xml, two, damaged, calls>>

OneParses(m) ==
    /\ OneStep(m, "parse", "tag")
    /\ ParseXMLString(m, one[m].text)
    /\ kmalloc(m, 1, <<Large>>)
    /\ UNCHANGED <<arrow, net, tagDirectory, value, two, damaged, calls>>

OneNames(m) ==
    /\ OneStep(m, "tag", "query")
    /\ tagDirectory' = [tagDirectory EXCEPT ![m] = Returns.tag]
    /\ UNCHANGED <<arrow, net, sys_xml_confg, value, two, blocks, damaged, calls>>

OneQueries(m) ==
    /\ \/ OneStep(m, "query", "print") /\ getValueFromTagMessage(m)
       \/ OneStep(m, "query", "halted") /\ QueryFaults(m)
    /\ UNCHANGED <<arrow, net, sys_xml_confg, tagDirectory, two, blocks, damaged, calls>>

\* The value is decoded and the first 8 bytes printed.  If base64_decode fails,
\* what is printed is no result.
Prints(m) ==
    /\ one[m].at = "print"
    /\ LET b == base64_decode(value[m])
       IN one' = [one EXCEPT ![m] = [@ EXCEPT !.at = "loop", !.text = <<>>,
                      !.result = IF Len(b) < 8 THEN -2 ELSE FromMemory(b)]]
    /\ arrow' = [arrow EXCEPT ![m] = @ \ one[m].to]
    /\ kmalloc(m, 1, <<DecodedSize>>)
    /\ UNCHANGED <<net, xml, two, damaged, calls>>

------------------------------------------------------------------------------
(***************************************************************************)
(* Core 2.                                                                 *)
(***************************************************************************)
TwoStep(m, from, to) == two[m].at = from /\ two' = [two EXCEPT ![m].at = to]

\* wait_IPIoE and workerDequeue.
Serve(m) ==
    /\ \E p \in net, tail \in Tails :
          /\ p.to = m /\ p.core = 2 /\ two[m].at = "loop"
          /\ two' = [two EXCEPT ![m] = [CoreTwo EXCEPT !.at = "parse", !.from = {p.from},
                                                       !.text = p.text \o tail]]
          /\ net' = net \ {p}
    /\ UNCHANGED <<arrow, xml, one, blocks, damaged, calls>>

\* ParseAckermannFunctionXML: parse, and for each parameter name, query, convert.
TwoParses(m) ==
    /\ TwoStep(m, "parse", "tag1")
    /\ ParseXMLString(m, two[m].text)
    /\ UNCHANGED <<arrow, net, tagDirectory, value, one, blocks, damaged, calls>>

TwoNames(m, i, from, to) ==
    /\ TwoStep(m, from, to)
    /\ tagDirectory' = [tagDirectory EXCEPT ![m] = Parameters[i]]
    /\ UNCHANGED <<arrow, net, sys_xml_confg, value, one, blocks, damaged, calls>>

TwoQueries(m, from, to) ==
    /\ \/ TwoStep(m, from, to) /\ getValueFromTagMessage(m)
       \/ TwoStep(m, from, "halted") /\ QueryFaults(m)
    /\ UNCHANGED <<arrow, net, sys_xml_confg, tagDirectory, one, blocks, damaged, calls>>

TwoConverts(m) ==
    /\ \/ two[m].at = "atoi1" /\ two' = [two EXCEPT ![m].m = atoi(value[m]), ![m].at = "tag2"]
       \/ two[m].at = "atoi2" /\ two' = [two EXCEPT ![m].n = atoi(value[m]), ![m].at = "call"]
    /\ UNCHANGED <<arrow, net, xml, one, blocks, damaged, calls>>

\* CallAckermannFunction: the same result every time it is computed, then the
\* buffer of the reply ...
CallAckermannFunction(m) ==
    /\ two[m].at = "call"
    /\ two' = [two EXCEPT ![m].res = ack[<<two[m].m, two[m].n>>], ![m].at = "encode"]
    /\ blocks' = [blocks EXCEPT ![m] = << [core |-> 2, size |-> BufferSize] >>]
    /\ UNCHANGED <<arrow, net, xml, one, damaged, calls>>

\* ... the encoded result ...
ConvertEncodes(m) ==
    /\ TwoStep(m, "encode", "decode")
    /\ kmalloc(m, 2, <<EncodedSize>>)
    /\ UNCHANGED <<arrow, net, xml, one, damaged, calls>>

\* Mutant: the check of the encoding, there for debugging, is removed.
ConvertNoCheck(m) ==
    /\ TwoStep(m, "decode", "write")
    /\ UNCHANGED <<arrow, net, xml, one, blocks, damaged, calls>>

\* ... and its decoding are allocated, ...
ConvertDecodes(m) ==
    /\ TwoStep(m, "decode", "write")
    /\ kmalloc(m, 2, <<DecodedSize>>)
    /\ UNCHANGED <<arrow, net, xml, one, damaged, calls>>

\* The bytes of core 2's own blocks from the buffer up to the first block of
\* another owner; whatever follows the last block will be another's.
OwnBytes(b) ==
    LET others == {i \in 1..Len(b) : b[i].core # 2}
        own == IF others = {} THEN Len(b) ELSE Min(others) - 1
        bytes[n \in 0..own] == IF n = 0 THEN 0 ELSE bytes[n - 1] + b[n].size
    IN bytes[own]

\* ... and the text is written at the start of the buffer.
ConvertWrites(m) ==
    /\ TwoStep(m, "write", "reply")
    /\ damaged' = (damaged \/ Written > OwnBytes(blocks[m]))
    /\ blocks' = [blocks EXCEPT ![m] = <<>>]
    /\ UNCHANGED <<arrow, net, xml, one, calls>>

SendsReply(m) ==
    /\ two[m].at = "reply"
    /\ two' = [two EXCEPT ![m] = CoreTwo]
    /\ \A t \in two[m].from : sendIPIoE_Packet(m, t, 1, Reply(two[m].res))
    /\ UNCHANGED <<arrow, xml, one, blocks, damaged, calls>>

------------------------------------------------------------------------------
\* A packet is lost; nobody sends it again, and the caller waits for ever.
Lose ==
    /\ \E p \in net : net' = net \ {p}
    /\ UNCHANGED <<arrow, xml, one, two, blocks, damaged, calls>>

Core1(m) == Press(m) \/ Call(m) \/ Answer(m) \/ OneParses(m) \/ OneNames(m)
                \/ OneQueries(m) \/ Prints(m)

Core2(m) ==
    \/ Serve(m) \/ TwoParses(m) \/ TwoConverts(m)
    \/ TwoNames(m, 1, "tag1", "query1") \/ TwoQueries(m, "query1", "atoi1")
    \/ TwoNames(m, 2, "tag2", "query2") \/ TwoQueries(m, "query2", "atoi2")
    \/ CallAckermannFunction(m) \/ ConvertEncodes(m) \/ ConvertDecodes(m)
    \/ ConvertWrites(m) \/ SendsReply(m)

\* Core 1 uses the XML service, or has allocated a block, while core 2 is between
\* dequeuing a request and having written the reply.
Overlap(m) ==
    /\ two[m].at \notin {"loop", "reply", "halted"}
    /\ \/ one[m].at \notin {"loop", "wait", "halted"}
       \/ \E i \in DOMAIN blocks[m] : blocks[m][i].core = 1

\* Nothing is claimed of what follows an overlap (the arguments of two requests
\* may be mixed, and the function of such a pair be out of reach): it is not
\* followed any further.
CallNext ==
    /\ ~overlapped
    /\ Lose \/ \E m \in Machines : Core1(m) \/ Core2(m)
    /\ overlapped' = \E m \in Machines : Overlap(m)'

CallSpec == CallInit /\ [][CallNext]_callVars

------------------------------------------------------------------------------
(***************************************************************************)
(* Properties.                                                             *)
(***************************************************************************)
\* Ackermann's function for its first arguments below 4, in closed form.
Ackermann(a) == CASE a[1] = 0 -> a[2] + 1
                  [] a[1] = 1 -> a[2] + 2
                  [] a[1] = 2 -> 2 * a[2] + 3
                  [] a[1] = 3 -> 2 ^ (a[2] + 3) - 3

\* The arguments sent have results the closed form gives, that InMemory holds.
ASSUME ResultAssumption ==
    \A a \in Arguments : ack[a] = Ackermann(a) /\ ack[a] \in Nat /\ ack[a] <= MaxResult

\* The number core 1 prints is the function's value for the arguments it sent,
\* through request, parsing, base64 and reply, with calls in both directions and
\* whatever follows the texts in memory, as long as the cores of no machine have
\* used its XML service at once: what follows a text may make its parse fail, and
\* halt the core, but not change what is found in it.
AnswerRight ==
    ~overlapped => \A m \in Machines :
        one[m].result = -1 \/ one[m].result = Ackermann(one[m].args)

\* ConvertTagToXML writes more than it has allocated, but never further than the
\* blocks it has itself allocated since, which hold nothing that is still needed.
ReplyContained == ~overlapped => ~damaged
==============================================================================
