--------------------------- MODULE DescriptorTable ---------------------------
(***************************************************************************)
(* The interrupt descriptor table as SetupInterruptDescriptorTable fills   *)
(* it.  A stub pushes the number it was assembled with, and that number,   *)
(* not the vector that was raised, is what IdtHandler sees.  An entry is   *)
(* modelled by that number; gate type and selector are left out.  Vectors  *)
(* outside the domain of IDT have no entry.                                *)
(***************************************************************************)
EXTENDS Integers

IRQ0       == 32      \* the timer
KEYBOARD   == 33
CARD       == 43      \* a network card on line 11
WAKEUP_IPI == 99
SYSCALL    == 128

\* Exceptions: isr0 to isr31.
registerExceptions == [v \in 0..31 |-> v]

\* Device interrupts: irq4 has no entry, vectors 55 to 62 have the stub of
\* their predecessor.
registerIRQs == [v \in (32..95) \ {36} |-> IF v \in 55..62 THEN v - 1 ELSE v]

\* Mutant: a skipped stub shifts the interrupts between cores as well.
APIRQsShifted == [v \in 96..127 |-> IF v < 127 THEN v + 1 ELSE v]

\* Interrupts between cores: apirq0 to apirq31.
registerAPIRQs == [v \in 96..127 |-> v]

\* Software interrupts: swirq4 is skipped, which shifts the entries up to 138,
\* 139 has none, and from 151 to 158 the shift is the other way.
registerSWIRQs ==
    [v \in (128..254) \ {139} |-> IF v \in 132..138 THEN v + 1
                                  ELSE IF v \in 151..158 THEN v - 1 ELSE v]

\* The entries of f, and those of g for the vectors f leaves out.
Over(f, g) == [v \in DOMAIN f \cup DOMAIN g |-> IF v \in DOMAIN f THEN f[v] ELSE g[v]]

IDT == Over(registerExceptions,
            Over(registerIRQs,
                 Over(registerAPIRQs,
                      Over(registerSWIRQs, [v \in {255} |-> v]))))
==============================================================================
