--------------------------- MODULE MCFlashSettings ---------------------------
(* What is written to the flash, for TLC: the settings, with a clock that only  *)
(* advances, and the firmware.  In a behaviour it is one or the other.          *)
EXTENDS FlashSettings, Sequences

CONSTANTS Word, Block, Hd64, Hd128, MaxLen, Built, Uploaded, Foreign, MaxUploads,
  NoFile, Old, Lost, Saved, Empty, Vendor
ASSUME SizesAssumption ==
  {Word, Block, Hd64, Hd128, MaxUploads} \subseteq Nat \ {0} /\ Block % Word = 0 /\ Hd64 < Hd128

VARIABLES what, type, accepted, tmp, page, offers, at, want, partitions, settings, boot, last,
    overlapped, uploads

Files == INSTANCE Firmware WITH flash <- partitions, Torn <- Lost
\* Files are bytes, and a u-boot image has a header of its own, as large as that
\* of the firmware.
ASSUME FilesAssumption ==
  /\ NoFile \notin Seq({0, 1})
  /\ \A c \in Built \cup Uploaded :
       DOMAIN c = Files!Names /\ \A p \in Files!Names : c[p] \in Seq({0, 1}) \cup {NoFile}
  /\ \A c \in Built : Len(Files!Bytes(c["kernel"])) + Len(Files!Bytes(c["initramfs"])) >= Hd128 - Hd64

fileVars == <<type, accepted, tmp, page, offers, at, want, partitions, settings, boot, last, overlapped,
    uploads>>

Forward == {1}

\* A kernel and a root file system begin with the magic number.  Their lengths, and
\* the others', are below, at and above those of words and blocks.
Lengths == [kernel |-> 4, initramfs |-> 4, sqimage |-> 2, defaults |-> 5]
Parts(k, i, s, d) == [kernel |-> k, initramfs |-> i, sqimage |-> s, defaults |-> d]
SmallFiles ==
  {Parts(k, i, s, d) :
     k \in {<<1, 1>> \o x : x \in {<<>>, <<0>>, <<1>>, <<0, 1>>, <<1, 1>>, <<0, 1, 1>>}},
     i \in {<<1, 1>>, <<1, 1, 1>>, <<1, 1, 0, 1>>, <<1, 0>>},
     s \in {NoFile, <<>>, <<1, 0>>}, d \in {NoFile, <<0>>, <<1, 0, 1>>, <<1, 0, 0, 1, 1>>}}
OfAnother == Parts(<<1, 1, 1>>, <<1, 1>>, NoFile, <<0, 1>>)
Three == {Parts(<<1, 1, 0>>, <<1, 1>>, <<1, 0>>, <<1, 0, 1>>), Parts(<<1, 1>>, <<1, 1, 0, 1>>, NoFile,
    NoFile),
          OfAnother}
ForOthers == {OfAnother}

MCInit == what \in {"settings", "firmware"} /\ Init /\ Files!Init
Settings(A) == what = "settings" /\ A /\ UNCHANGED <<what, fileVars>>
Flashes(A) == what = "firmware" /\ A /\ UNCHANGED <<what, vars>>
MCNext == Settings(Next) \/ Flashes(Files!Next)
MCSpec == MCInit /\ [][MCNext]_<<what, vars, fileVars>>

\* mkfw.sh: what dns323-fw merges it splits into the same parts (Firmware.tla).
SplitGivesBack == what = "firmware" => Files!SplitGivesBack

\* firmware2_proc.cgi: when the page asks for a reboot, the partitions hold the
\* parts as they were merged, of one file (Firmware.tla).
FlashedIsWhole == Files!FlashedIsWhole
==============================================================================
