-------------------------- MODULE MCVeriOnbellegi --------------------------
(* Instances of VeriOnbellegi for TLC. *)
EXTENDS VeriOnbellegi

\* Power-on RAMs: every line claims to be valid and dirty, both ways with one tag.
CopYol == [gecerli |-> TRUE, kirli |-> TRUE, tag |-> CHOOSE t \in Taglar : TRUE,
           veri |-> OnemsizKelime]

MCSatirlar == {[s \in Satirlar |-> [lru |-> l, yol |-> [w \in Yollar |-> CopYol]]] : l \in {0, 1}}

\* The view hides what no guard and no property reads: iomem_addr_r and
\* iomem_wdata_r outside BELLEK_OKU and BELLEK_YAZ (iomem_valid_o is low there),
\* and the value of the last load, which every step overwrites or keeps.
Gorus == <<durum, counter, satir, bellek, istek,
           IF Bekleyen THEN <<iomem_addr, iomem_wdata>> ELSE <<>> >>

MCBellek == {[a \in Adres |-> OnemsizKelime]}

=============================================================================
