------------------------------- MODULE MCBoot -------------------------------
(* Instances of Boot, and with it of FlashUpload, for TLC: pages of 4 bytes,   *)
(* sectors of 8, POST blocks of 8. Sector 1 has the system data, sector 2 is    *)
(* excluded, image 0 begins in sector 3 and image 1 in sector 5. A header has   *)
(* one cell for each of its words.                                              *)
EXTENDS Boot

Straddles(s) == s < ExcludeEnd /\ (ExcludeEnd - s) % PageLen # 0

\* Starts from which no page meets the end of the excluded sector inside, aligned or
\* not, and the places of images.
Whole == {s \in {0, 8, 12, 20, 24, 25, 27, 32, 40} : ~Straddles(s)}
Sizes == {0, 5, 8, 12, 17, 21}
Sectors == {12, 24, 32, 40, FlashSize}

Data(name, n) == [i \in 1 .. n |-> <<"byte", name, i>>]
SegHead(n, region) == <<<<"size", n>>, <<"ld", region>>>>
Head1(n, region, sign) == SegHead(n, region) \o <<<<"sign", sign>>, <<"sign">>>>
Text(name, n) == [i \in 1 .. n |-> IF i = 2 THEN <<"rtk">> ELSE <<"byte", name, i>>]

Image0 == Head1(3, "image2", "run") \o Text("a", 3) \o SegHead(2, "sdram") \o Data("b", 2)
Image1 == Head1(2, "flash", "swp") \o Text("c", 2) \o SegHead(1, "image2") \o Data("d", 1)
NewOne == Head1(4, "image2", "run") \o Text("n", 4) \o SegHead(5, "sdram") \o Data("m", 5)
            \o Data("end", 2)

OldFlash(a) ==
  CASE a \in 24 .. 23 + Len(Image0) -> Image0[a - 23]
    [] a \in 40 .. 39 + Len(Image1) -> Image1[a - 39]
    [] a \in 8 .. 15 -> <<"byte">>
    [] OTHER -> ErasedCell
=============================================================================
