----------------------------- MODULE SeriKuyruk -----------------------------
(* What a UART whose output is wired to its input promises its program: a queue.  *)
(* Bytes come back in the order they were written, each once.                     *)
EXTENDS Naturals, Sequences

CONSTANTS
    Baytlar,    \* the bytes the program sends
    YOK         \* nothing was read

VARIABLES
    kuyruk,     \* written and not yet read
    okunan      \* the byte the last step has read, YOK if it read none

kuyruk_vars == <<kuyruk, okunan>>

Baslangic == kuyruk = <<>> /\ okunan = YOK

Yaz ==
    /\ \E b \in Baytlar : kuyruk' = Append(kuyruk, b)
    /\ okunan' = YOK

Oku ==
    /\ kuyruk # <<>>
    /\ okunan' = Head(kuyruk)
    /\ kuyruk' = Tail(kuyruk)

Bekle == UNCHANGED kuyruk /\ okunan' = YOK

\* A reset forgets what is underway.
Bosalt == kuyruk' = <<>> /\ okunan' = YOK

\* Every step but a reset.
Aktar == Yaz \/ Oku \/ Bekle

Adim == Aktar \/ Bosalt

KuyrukSpec == Baslangic /\ [][Adim]_kuyruk_vars

=============================================================================
