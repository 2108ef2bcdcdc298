-------------------------------- MODULE Console --------------------------------
(***************************************************************************)
(* The console: five terminals in the kernel heap, of which the video      *)
(* memory shows one.  Every core prints, each kind of message to a         *)
(* terminal of its own; the arrow keys switch.  They pass their arguments  *)
(* in the one record console.params and take no lock.                      *)
(*                                                                         *)
(* A terminal believes it has Rows rows, its buffer has room for Y: what   *)
(* is written further down lands in the blocks of the next terminal.       *)
(***************************************************************************)
EXTENDS Integers, Sequences, FiniteSets, SequencesExt

CONSTANTS
    Printers,   \* cores that print; Interrupted is the one that takes the key's interrupt
    Interrupted,
    Keyboard,   \* the handler of the keyboard's interrupt, which prints too
    Texts,      \* what is printed: sequences of "char" and "newline"
    X, Y, Rows, \* 80 columns, 25 rows on the screen, 50 rows in a terminal
    Struct,     \* sizeof(Terminal), in cells
    MaxTexts    \* bound on the texts printed

ASSUME ConsoleAssumption == /\ Interrupted \in Printers /\ Keyboard \notin Printers
                            /\ {X, Y, Rows, Struct} \subseteq Nat \ {0}
                            /\ Y < Rows /\ MaxTexts \in Nat
                            \* A terminal has at most twice the rows of the screen.
                            /\ Rows <= 2 * Y
                            /\ Texts \subseteq Seq({"char", "newline"})

VARIABLES
    params,     \* console.params: the string and newIndex
    current_terminal_index,
    terminals,  \* x_position and y_position of each, and the texts put there
    video,      \* what was copied last: of which terminal, after how many texts, from which row
    actor,      \* how far printk or the handler is, and the terminal it prints to
    damage,     \* history: pairs <<w, v>> with blocks of v overwritten through w
    struck,     \* history: uses of a terminal whose blocks were overwritten
    raced,      \* history: params or the index changed while another was using them
    clashed     \* history: two have put texts to one terminal at once

histories   == <<damage, struck, raced, clashed>>
consoleVars == <<params, current_terminal_index, terminals, video, actor, histories>>

Count     == 5                  \* terminals_max_count
Terminals == 0..(Count - 1)
\* The terminals of printk, printk_network, printk_debug and printk_fs.
Printed   == {0, 2, 3, 4}
Actors    == Printers \cup {Keyboard}

--------------------------------------------------------------------------------
(***************************************************************************)
(* The terminals and where they are.                                       *)
(***************************************************************************)
terminal_initialize == [x |-> 0, y |-> 0, texts |-> 0]

\* The blocks that console_preInialize allocates for terminal t are neighbours:
\* its record, then its buffer.
Block(t)  == (t * (Struct + X * Y))..(t * (Struct + X * Y) + Struct + X * Y - 1)
Buffer(t) == t * (Struct + X * Y) + Struct

\* The cells a line more takes in the buffer: none, or all of it when it scrolls.
NextRow(p) == IF p.y < Rows - 1 THEN [p EXCEPT !.x = 0, !.y = p.y + 1]
              ELSE [p EXCEPT !.x = 0, !.cells = p.cells \cup 0..(Rows * X - 1)]

terminal_putCharacterAndAdvanceString(p, c) ==
    IF c = "newline" THEN NextRow(p)
    ELSE LET q == [p EXCEPT !.cells = p.cells \cup {p.y * X + p.x}]
         IN  IF p.x < X THEN [q EXCEPT !.x = p.x + 1] ELSE NextRow(q)

\* Position and cells written when s has been put to terminal t.
terminal_putString(t, s) ==
    LET put[n \in 0..Len(s)] ==
            IF n = 0 THEN [x |-> terminals[t].x, y |-> terminals[t].y, cells |-> {}]
            ELSE terminal_putCharacterAndAdvanceString(put[n - 1], s[n])
    IN  put[Len(s)]

Victims(t, cells) ==
    {v \in Terminals \ {t} : \E c \in cells : Buffer(t) + c \in Block(v)}

\* The row of the buffer that the first row of the screen shows.
terminal_getViewPort(p) == IF p.y < Y THEN 0 ELSE p.y - Y

Shown(t, p) == [terminal |-> t, texts |-> p.texts, top |-> terminal_getViewPort(p)]

--------------------------------------------------------------------------------
(***************************************************************************)
(* The operations of the service.                                          *)
(***************************************************************************)
\* Nothing is known of a terminal whose blocks were overwritten, nor of one to which
\* two put texts at once: they test x_position and y_position and step them without
\* a lock, and may leave the last row.  A behaviour ends where one is used.
Use(t, how) == struck' = struck \cup {[how |-> how, writer |-> d[1]] :
                                          d \in {e \in damage : e[2] = t}}
Sound == struck = {} /\ ~clashed

\* A text that its printer has let go of may be any when it is put.
PutTo(t) ==
    \E s \in IF raced THEN Texts ELSE {params.string} :
    LET p == terminal_putString(t, s)
    IN  /\ terminals' = [terminals EXCEPT ![t] =
                            [x |-> p.x, y |-> p.y, texts |-> @.texts + 1]]
        /\ damage' = damage \cup {<<t, v>> : v \in Victims(t, p.cells)}
        /\ Use(t, "written")

\* Mutant: the text is put to the terminal and the screen not refreshed.
AddStringUnseen(t) == PutTo(t) /\ UNCHANGED video

\* Both have taken the terminal t from the index or from params.
console_addStringToCurrentTerminal(t) == PutTo(t) /\ video' = Shown(t, terminals'[t])

console_writeToTerminal(t) == PutTo(t) /\ UNCHANGED video

\* Mutant: terminal 1 can be switched to.
SwitchToAny ==
    /\ current_terminal_index' = params.newIndex
    /\ video' = Shown(current_terminal_index', terminals[current_terminal_index'])
    /\ Use(current_terminal_index', "shown")

console_switchTerminal ==
    /\ current_terminal_index' = IF params.newIndex = 1 THEN 2 ELSE params.newIndex
    /\ video' = Shown(current_terminal_index', terminals[current_terminal_index'])
    /\ Use(current_terminal_index', "shown")

--------------------------------------------------------------------------------
(***************************************************************************)
(* printk and the keyboard's handler.                                      *)
(***************************************************************************)
Idle == [at |-> "idle", index |-> 0]
Putting == {"adding", "writing"}

\* The handler runs on the interrupted core, which waits.
Runs(a, at) == /\ Sound /\ actor[a].at = at
               /\ a = Interrupted => actor[Keyboard].at = "idle"

Disturbs(a) == raced' = (raced \/ \E b \in Actors \ {a} : actor[b].at # "idle")

\* Texts that were or will be put.
Begun == FoldFunction(LAMBDA p, n : p.texts + n, 0, terminals)
         + Cardinality({a \in Actors : actor[a].at \notin {"idle", "chosen"}})

\* printk has its text ready and fills params.
Fill(a, t) ==
    /\ Begun < MaxTexts
    /\ \E s \in Texts :
          /\ params' = [string |-> s, newIndex |-> t]
          /\ actor' = [actor EXCEPT ![a] =
                          [at |-> "set", index |-> t]]
    /\ Disturbs(a)
    /\ UNCHANGED <<current_terminal_index, terminals, video, damage, struck, clashed>>

printk(p) == Runs(p, "idle") /\ \E t \in Printed : Fill(p, t)

\* Is it the terminal on the screen?  The newIndex compared may come from memory or from the
\* register it was stored from.
Test(a) ==
    /\ Runs(a, "set")
    /\ \E i \in {params.newIndex, actor[a].index} :
          actor' = [actor EXCEPT ![a].at = IF i = current_terminal_index
                                 THEN "add_string" ELSE "add_to_terminal"]
    /\ UNCHANGED <<params, current_terminal_index, terminals, video, histories>>

\* DispatchKernel of add_string or add_to_terminal: the terminal is found, ...
Find(a, from, to, t) ==
    /\ Runs(a, from)
    /\ actor' = [actor EXCEPT ![a] = [at |-> to, index |-> t]]
    /\ clashed' = \E b \in Actors \ {a} : actor[b].at \in Putting /\ actor[b].index = t
    /\ UNCHANGED <<params, current_terminal_index, terminals, video, damage, struck, raced>>

\* ... and the text is put there, character by character.
Put(a) ==
    /\ \/ Runs(a, "adding") /\ console_addStringToCurrentTerminal(actor[a].index)
       \/ Runs(a, "writing") /\ console_writeToTerminal(actor[a].index)
    /\ actor' = [actor EXCEPT ![a] = Idle]
    /\ UNCHANGED <<params, current_terminal_index, raced, clashed>>

\* keyboard_handler: the down arrow prints, left and right choose a terminal.
DownArrow == Runs(Keyboard, "idle") /\ Fill(Keyboard, 0)

Choose(i) ==
    /\ Runs(Keyboard, "idle")
    /\ params' = [params EXCEPT !.newIndex = i]
    /\ actor' = [actor EXCEPT ![Keyboard].at = "chosen"]
    /\ Disturbs(Keyboard)
    /\ UNCHANGED <<current_terminal_index, terminals, video, damage, struck, clashed>>

LeftArrow  == Choose(IF params.newIndex = 2 THEN 0
                     ELSE (current_terminal_index + Count - 1) % Count)
RightArrow == Choose((current_terminal_index + 1) % Count)

Switch ==
    /\ Runs(Keyboard, "chosen") /\ console_switchTerminal
    /\ actor' = [actor EXCEPT ![Keyboard] = Idle]
    /\ Disturbs(Keyboard)
    /\ UNCHANGED <<params, terminals, damage, clashed>>

console_preInialize ==
    /\ params = [string |-> <<>>, newIndex |-> 0]
    /\ current_terminal_index = 0
    /\ terminals = [t \in Terminals |-> terminal_initialize]
    /\ video = Shown(0, terminal_initialize)
    /\ actor = [a \in Actors |-> Idle]
    /\ damage = {} /\ struck = {} /\ raced = FALSE /\ clashed = FALSE

ConsoleNext ==
    \/ \E p \in Printers : printk(p)
    \/ \E a \in Actors : \/ Test(a) \/ Put(a)
                          \/ Find(a, "add_string", "adding", current_terminal_index)
                          \/ Find(a, "add_to_terminal", "writing", params.newIndex)
    \/ DownArrow \/ LeftArrow \/ RightArrow \/ Switch

--------------------------------------------------------------------------------
(***************************************************************************)
(* Properties.                                                             *)
(***************************************************************************)
\* What is written past the end of terminal 0's buffer (the boot alone prints
\* more than 25 lines there) does no harm: the blocks it overwrites are those of
\* terminal 1, which is never put on the screen, and never written to unless a key
\* changes newIndex while a core prints.  That is until two have put texts to one
\* terminal at once: then y_position may pass the last row, and what is overwritten
\* may be terminal 2's.
OverrunHarmless ==
    ~clashed => \A s \in struck : s.writer = 0 => s.how = "written" /\ raced

\* When nobody prints or switches, the screen shows the current terminal where
\* its last text has left it, unless two of them have changed console.params or
\* the current terminal under each other.
ScreenCurrent ==
    (~raced /\ \A a \in Actors : actor[a].at = "idle") =>
        video = Shown(current_terminal_index, terminals[current_terminal_index])

================================================================================
