-------------------------- MODULE MCBuyrukOnbellegi --------------------------
(* Instances of BuyrukOnbellegi for TLC. *)
EXTENDS BuyrukOnbellegi

\* Half-words numbered through the memory: no two of a program are alike.
MCYarim == 0 .. 4 * BTagSayisi * BSatirSayisi - 1

Program(taban) ==
    [a \in BAdres |-> [h \in {0, 1} |-> taban + 2 * (a[1] * BSatirSayisi + a[2]) + h]]

MCProgramlar == {Program(0), Program(2 * BTagSayisi * BSatirSayisi)}

MCBanka == [b \in Banka |-> 0]

MCVeri == [s \in BSatirlar |-> 0]

======================================================================
