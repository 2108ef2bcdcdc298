---------------------------- MODULE MCKernelServices ----------------------------
(***************************************************************************)
(* The services the kernel offers once it runs, for TLC: calls between     *)
(* machines, the console, the start of the devices, reading blocks.  They  *)
(* share no variable, so each behaviour is of one of them.                 *)
(***************************************************************************)
EXTENDS RemoteCall, Console, Devices, BlockService

CONSTANTS A, B, core0, core1, key

VARIABLE part

\* Arguments with results of one and of two bytes, and each case of the recursion.
SentArguments == {<<0, 299>>, <<3, 3>>}

\* Nothing tells the machines apart.
BothWays == Permutations(Machines)

\* Behind a text: nothing, characters, a tag that closes what it left open, more
\* such, the rest of an earlier message, tags with the names looked for, tags that
\* close nothing.
TagNames == {"params", "FirstValue", "SecondValue", "Result"}
OldTails ==
    {<<>>, <<Chars(Number(0))>>, <<Closes("params")>>,
     <<Closes("params"), Closes("params"), Closes("params")>>,
     <<Chars(Number(7)), Closes("Result"), Closes("params")>>,
     <<Both("FirstValue"), Opens("Result"), Chars(Number(7)), Closes("Result"),
       Opens("SecondValue"), Chars(Number(7)), Closes("SecondValue")>>}

\* Texts that stay in a row, end one, and run over its end.
PrintedTexts == {<<"char">>, <<"newline">>, <<"char", "char", "char", "newline">>}

\* Network cards with an address in the EEPROM, in the registers or nowhere, one
\* of another vendor; disk controllers with registers at ports and in memory, and
\* without bus mastering.
Blank == [command |-> [low |-> {}, high |-> {}],
          timing  |-> [low |-> {}, high |-> {"other"}]]
Card(d, e, r) == [vend_id |-> "INTEL_VEND", dev_id |-> d, class |-> "network", dma |-> FALSE,
                  bar4 |-> "ports", eeprom |-> e, registers |-> r, config |-> Blank]
Ide(d, m, p)  == [vend_id |-> "INTEL_VEND", dev_id |-> d, class |-> "ide", dma |-> m,
                  bar4 |-> p, eeprom |-> FALSE, registers |-> "none", config |-> Blank]

Models  == <<"E1000_DEV", "E1000_DEV1">>
Plugged == {Card("E1000_DEV", TRUE, "set"), Card("E1000_DEV1", FALSE, "set"),
            Card("E1000_DEV1", FALSE, "none"),
            [Card("E1000_DEV", TRUE, "set") EXCEPT !.vend_id = "other"],
            Ide("0x7010", TRUE, "ports"), Ide("0x2411", TRUE, "memory"),
            Ide("0x7010", FALSE, "ports")}

\* One read after another: in one piece or several, from the front of the disk or
\* not, the same read again as the boot does.
Ranges   == {<<0, 1>>, <<0, 2>>, <<0, 4>>, <<0, 9>>, <<1, 2>>, <<3, 1>>, <<3, 2>>,
             <<3, 6>>, <<9, 3>>}
TwoReads == {<<r, s>> : r \in Ranges, s \in Ranges}

\* A machine that has nothing, where the devices are not what is looked at.
Bare == DevicesInit([s \in 1..Slots |-> Absent],
                    [p \in {Places[i] : i \in 1..4} |-> "none"])

ServicesInit ==
    /\ CallInit /\ console_preInialize
    /\ \/ part = "devices" /\ \E b \in Populations, d \in Cabling : DevicesInit(b, d)
       \/ part \in {"calls", "console", "blocks"} /\ Bare
    /\ \/ part = "blocks" /\ \E u \in UserRooms, r \in Reads : init_BlockService(u, r)
       \/ part \in {"calls", "console", "devices"} /\ init_BlockService(0, <<>>)

ServicesNext ==
    \/ part = "calls"   /\ CallNext
                        /\ UNCHANGED <<part, consoleVars, deviceVars, blockVars>>
    \/ part = "console" /\ ConsoleNext
                        /\ UNCHANGED <<part, callVars, deviceVars, blockVars>>
    \/ part = "devices" /\ DevicesNext
                        /\ UNCHANGED <<part, callVars, consoleVars, blockVars>>
    \/ part = "blocks"  /\ BlocksNext
                        /\ UNCHANGED <<part, callVars, consoleVars, deviceVars>>

================================================================================
