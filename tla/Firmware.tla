------------------------------ MODULE Firmware ------------------------------
(***************************************************************************)
(* Firmware files: dns323-fw merges a kernel, a root file system, an image  *)
(* and default settings into one, and splits one again; the web pages       *)
(* upload it, split it in /tmp and flash its parts, each verified.          *)
(*                                                                         *)
(* A file is a sequence of bytes, a byte 0 or 1: the checksum is an         *)
(* exclusive or, in which every bit is for itself.  Word and Block stand    *)
(* for its 4 and 65536 bytes, Hd64 and Hd128 for the sizes of the headers.  *)
(***************************************************************************)
EXTENDS Integers, Sequences, FiniteSets

CONSTANTS
  Word, Block, Hd64, Hd128,
  MaxLen,      \* [part -> length] the partitions of the board
  Built,       \* what is merged: functions from parts to files
  Uploaded,    \* those that are uploaded
  Foreign,     \* those of them that are for other boards
  MaxUploads,
  NoFile,
  Old, Torn,               \* in a partition: the firmware before; what is no part
  Saved, Empty, Vendor     \* settings: the user's, none, those of the vendor

VARIABLES
  type,        \* of the board's files: the size of their header
  accepted,    \* the files that dns323-fw -s and the page accept, split
  tmp,         \* /tmp/kernel and the others; NoFile
  page,        \* the last page the user got
  offers,      \* what the pages he has open let him choose for the settings
  at, want,    \* where FlashIt is, and the settings it was to make
  flash,       \* the partitions: files, Old or Torn
  settings,    \* in the flash: Saved, Empty, Vendor or a defaults file
  boot,        \* what TryIt has put in /boot
  last,        \* the last file accepted: its parts, and what happened to it
  overlapped,  \* another page was asked for while FlashIt ran
  uploads

vars == <<type, accepted, tmp, page, offers, at, want, flash, settings, boot, last, overlapped, uploads>>

Names == {"kernel", "initramfs", "sqimage", "defaults"}
Magic == [i \in 1..Word |-> 1]

Least(a, b) == IF a < b THEN a ELSE b
Bytes(f) == IF f = NoFile THEN <<>> ELSE f

\* readwrite: the exclusive or of the whole words, so of the bytes that have the
\* same place in their word; what is left over is not in it.
Words(f) == Word * (Len(f) \div Word)
Ones(f, i) == {n \in 1..Words(f) : n % Word = i /\ f[n] = 1}
Sum(f) == [i \in 0..Word-1 |-> Cardinality(Ones(f, i)) % 2]
NoSum == [i \in 0..Word-1 |-> 0]

\* readwrite: len bytes of a file from off on.  A file that ends too early is
\* filled up with zeros to the end of the block.
Copy(file, off, len) ==
  LET data == SubSeq(file, off + 1, Least(off + len, Len(file)))
      missing == Least(len - Len(data), (Block - (Len(data) % Block)) % Block)
  IN  data \o [i \in 1..missing |-> 0]

\* is_uboot: what a short read leaves on the stack may be the last file's magic.
IsUboot(file, off, lucky) ==
  IF off + Word <= Len(file) THEN SubSeq(file, off + 1, off + Word) = Magic ELSE lucky

SizeOf(t) == IF t = 64 THEN Hd64 ELSE Hd128
Has(t, p) == p # "sqimage" \/ t = 128

------------------------------------------------------------------------------
(* dns323-fw -m                                                             *)

CanMerge(t, c, lucky) ==
  /\ \A p \in {"kernel", "initramfs"} : c[p] # NoFile /\ IsUboot(c[p], 0, lucky)
  /\ \A p \in Names : Has(t, p) => Len(Bytes(c[p])) <= MaxLen[p]

\* Mutant of Size: type 64 has room for the image.
SizeAll(t, c, p) == Len(Bytes(c[p]))

Size(t, c, p) == IF Has(t, p) THEN Len(Bytes(c[p])) ELSE 0

\* The parts follow one another behind the header.
Before(t, c, p) ==
  SizeOf(t) + CASE p = "kernel" -> 0
                [] p = "initramfs" -> Size(t, c, "kernel")
                [] p = "sqimage" -> Size(t, c, "kernel") + Size(t, c, "initramfs")
                [] p = "defaults" -> Size(t, c, "kernel") + Size(t, c, "initramfs") + Size(t, c, "sqimage")

\* set_header64, set_header128: what get_info64 and get_info128 give back.
Header(t, c) ==
  [type |-> t,
   off |-> [p \in Names |-> Before(t, c, p)],
   len |-> [p \in Names |-> Size(t, c, p)],
   sum |-> [p \in Names |-> Sum(Bytes(c[p]))]]

\* merge, savecomp, save_header: the header, and the parts behind it.
Data(t, c, p) == IF Has(t, p) THEN Bytes(c[p]) ELSE <<>>
Merge(t, c) ==
  [hd |-> Header(t, c),
   bytes |-> [i \in 1..SizeOf(t) |-> 0] \o Data(t, c, "kernel") \o Data(t, c, "initramfs")
               \o Data(t, c, "sqimage") \o Data(t, c, "defaults")]

------------------------------------------------------------------------------
(* dns323-fw -s                                                             *)

Part(f, p) == Copy(f.bytes, f.hd.off[p], f.hd.len[p])

\* open_read, split, savefile: a sum that is zero is not compared.
CanSplit(f, lucky) ==
  /\ Len(f.bytes) >= Hd128
  /\ \A p \in {"kernel", "initramfs"} : IsUboot(f.bytes, f.hd.off[p], lucky)
  /\ \A p \in Names : Has(f.hd.type, p) => f.hd.sum[p] \in {NoSum, Sum(Part(f, p))}

Split(f) == [p \in {x \in Names : Has(f.hd.type, x)} |-> Part(f, p)]

------------------------------------------------------------------------------
(* firmware_proc.cgi: a file is uploaded                                    *)

\* What may happen to a file on its way: nothing, a byte is wrong, the end is
\* missing.
Damages(f) == {<<"none", 0>>} \cup {<<"flip", i>> : i \in SizeOf(f.hd.type) + 1..Len(f.bytes)}
              \cup {<<"cut", n>> : n \in 1..Len(f.bytes) - 1}
Harm(b, d) == CASE d[1] = "none" -> b
                [] d[1] = "flip" -> [b EXCEPT ![d[2]] = 1 - @]
                [] d[1] = "cut"  -> SubSeq(b, 1, d[2])
Damaged(f, d) == [f EXCEPT !.bytes = Harm(@, d)]

NoTmp == [p \in Names |-> NoFile]
Always == {"none", "clear", "recover"}

\* What may come of a file: a sha1 file that comes with it shows all damage.
Good(t, c, d, lucky) == c \notin Foreign /\ CanSplit(Damaged(Merge(t, c), d), lucky)
Accepted(t) ==
  UNION {{[parts |-> c, damage |-> d, files |-> Split(Damaged(Merge(t, c), d))] :
            d \in {x \in Damages(Merge(t, c)) : \E l \in BOOLEAN : Good(t, c, x, l)}} : c \in Uploaded}

\* A page that is asked for while FlashIt runs.
Disturbs == overlapped' = (overlapped \/ at # "idle")

Upload ==
  /\ uploads < MaxUploads /\ uploads' = uploads + 1
  /\ \/ \E f \in accepted :
          /\ tmp' = [p \in Names |-> IF p \in DOMAIN f.files THEN f.files[p] ELSE tmp[p]]
          /\ page' = "offer"
          /\ offers' = offers \cup Always \cup (IF f.files["defaults"] = <<>> THEN {} ELSE {"flashfile"})
          /\ last' = [parts |-> f.parts, damage |-> f.damage]
     \/ tmp' = NoTmp /\ page' = "refused" /\ UNCHANGED <<offers, last>>
  /\ Disturbs
  /\ UNCHANGED <<type, accepted, at, want, flash, settings, boot>>

------------------------------------------------------------------------------
(* firmware2_proc.cgi                                                       *)

\* check_fwfiles.  Its test for an empty defaults file is for "flash", which no
\* page sends.
Complete == tmp["kernel"] # NoFile /\ tmp["initramfs"] # NoFile

Abort ==
  /\ offers # {} /\ tmp' = NoTmp /\ page' = "start"
  /\ Disturbs
  /\ UNCHANGED <<type, accepted, offers, at, want, flash, settings, boot, last, uploads>>

\* The flashed firmware's own parts, without their u-boot headers.
SpecialReboot ==
  /\ offers # {} /\ tmp' = NoTmp /\ page' = "reboot"
  /\ boot' = [p \in {"kernel", "initramfs"} |-> flash[p]]
  /\ Disturbs
  /\ UNCHANGED <<type, accepted, offers, at, want, flash, settings, last, uploads>>

TryIt ==
  /\ offers # {} /\ type = 64
  /\ tmp' = NoTmp
  /\ IF Complete
     THEN page' = "reboot" /\ boot' = [p \in {"kernel", "initramfs"} |-> tmp[p]]
     ELSE page' = "missing" /\ UNCHANGED boot
  /\ Disturbs
  /\ UNCHANGED <<type, accepted, offers, at, want, flash, settings, last, uploads>>

\* One FlashIt at a time.
FlashIt ==
  /\ at = "idle" /\ page # "dead"
  /\ \E w \in offers : want' = w /\ (w = "recover" => type = 64)
  /\ IF Complete THEN at' = "kernel" /\ UNCHANGED <<tmp, page>>
                 ELSE tmp' = NoTmp /\ page' = "missing" /\ UNCHANGED at
  /\ overlapped' = FALSE
  /\ UNCHANGED <<type, accepted, offers, flash, settings, boot, last, uploads>>

Flashing == {"kernel", "initramfs", "sqimage"}
Check == [kernel |-> "check kernel", initramfs |-> "check initramfs", sqimage |-> "check sqimage"]

\* nor_flash, nand_flash.  A file that went away is not written; nothing is heard
\* of it, or of an error, before it is compared.
Write(p) ==
  /\ at = p /\ at' = Check[p]
  /\ flash' \in {[flash EXCEPT ![p] = x] : x \in {Torn} \cup IF tmp[p] = NoFile THEN {flash[p]} ELSE {tmp[p]}}
  /\ UNCHANGED <<type, accepted, tmp, page, offers, want, settings, boot, last, overlapped, uploads>>

After(p) ==
  CASE p = "kernel" -> "initramfs"
    [] p = "initramfs" /\ tmp["sqimage"] \notin {NoFile, <<>>} -> "sqimage"
    [] OTHER -> "settings"

\* Mutant: what was flashed is not compared.
VerifyNothing(p) ==
  /\ at = Check[p] /\ at' = After(p)
  /\ UNCHANGED <<type, accepted, tmp, page, offers, want, flash, settings, boot, last, overlapped, uploads>>

Verify(p) ==
  /\ at = Check[p]
  /\ IF flash[p] = tmp[p]
     THEN at' = After(p) /\ UNCHANGED <<tmp, page>>
     ELSE at' = "idle" /\ tmp' = NoTmp /\ page' = "failed"      \* flash_error
  /\ UNCHANGED <<type, accepted, offers, want, flash, settings, boot, last, overlapped, uploads>>

\* The settings' partition is emptied before the new ones are unpacked.
Erase ==
  /\ at = "settings"
  /\ IF want = "none" THEN at' = "done" /\ UNCHANGED settings
     ELSE at' = (IF want = "clear" THEN "done" ELSE "fill") /\ settings' = Empty
  /\ UNCHANGED <<type, accepted, tmp, page, offers, want, flash, boot, last, overlapped, uploads>>

Fill ==
  /\ at = "fill" /\ at' = "done"
  /\ settings' = IF want = "recover" THEN Vendor
                 ELSE IF Bytes(tmp["defaults"]) = <<>> THEN Empty ELSE tmp["defaults"]
  /\ UNCHANGED <<type, accepted, tmp, page, offers, want, flash, boot, last, overlapped, uploads>>

Finish ==
  /\ at = "done" /\ at' = "idle" /\ tmp' = NoTmp /\ page' = "flashed"
  /\ UNCHANGED <<type, accepted, offers, want, flash, settings, boot, last, overlapped, uploads>>

\* The box is rebooted, and starts what is in /boot, or loses its power, and
\* starts what is flashed: if that is whole.
Reboot ==
  /\ page # "dead"
  /\ \E lost \in IF \E p \in Flashing : at = Check[p] THEN {TRUE, FALSE} ELSE {FALSE} :
       flash' = IF lost THEN [flash EXCEPT ![CHOOSE p \in Flashing : at = Check[p]] = Torn] ELSE flash
  /\ tmp' = NoTmp /\ at' = "idle" /\ offers' = {} /\ boot' = <<>>
  /\ \E start \in {flash'} \cup IF boot = <<>> THEN {} ELSE {boot} :
       page' = IF \E p \in {"kernel", "initramfs"} : start[p] = Torn THEN "dead" ELSE "start"
  /\ UNCHANGED <<type, accepted, want, settings, last, overlapped, uploads>>

Init ==
  /\ type \in {64, 128} /\ accepted = Accepted(type)
  /\ tmp = NoTmp /\ page = "start" /\ offers = {} /\ at = "idle" /\ want = "none"
  /\ flash = [p \in Flashing |-> Old] /\ settings = Saved /\ boot = <<>>
  /\ last = <<>> /\ overlapped = FALSE /\ uploads = 0

Next ==
  \/ /\ page # "dead"
     /\ \/ Upload \/ Abort \/ SpecialReboot \/ TryIt \/ FlashIt
        \/ \E p \in Flashing : Write(p) \/ Verify(p)
        \/ Erase \/ Fill \/ Finish
  \/ Reboot

Spec == Init /\ [][Next]_vars

------------------------------------------------------------------------------
\* "verification, check that spliting the created fw works fine" (mkfw.sh): what
\* was merged is split into the same parts, whatever their lengths, whether they
\* fill their last word and block and whatever their sums.
SplitGivesBack ==
  page = "start" /\ uploads = 0 =>
    \A c \in {x \in Built : CanMerge(type, x, FALSE)} :
      LET f == Merge(type, c)
      IN  /\ CanSplit(f, FALSE)
          /\ \A p \in Names : Has(type, p) => Split(f)[p] = Bytes(c[p])

\* The checksum sees one wrong byte of a part, but for the bytes behind the last
\* whole word and for a part whose sum is zero; it need not see a missing end.
Unseen(p) ==
  LET f == Merge(type, last.parts)
      d == last.damage
      i == d[2] - f.hd.off[p]
  IN  \/ d[1] = "cut" /\ d[2] < f.hd.off[p] + f.hd.len[p]
      \/ /\ d[1] = "flip" /\ i \in 1..f.hd.len[p]
         /\ f.hd.sum[p] = NoSum \/ i > Words(Bytes(last.parts[p]))

\* "You should reboot the box now for the new firmware to become active": when
\* the page says so after FlashIt, the partitions hold the parts as they were
\* merged, of one file, and the settings are those asked for.
FlashedIsWhole ==
  page = "flashed" /\ at = "idle" /\ ~overlapped =>
    /\ \A p \in {x \in Flashing : Has(type, x)} :
         flash[p] = Bytes(last.parts[p]) \/ Unseen(p) \/ (p = "sqimage" /\ Bytes(last.parts[p]) = <<>>)
    /\ want = "flashfile" =>
         settings = Bytes(last.parts["defaults"]) \/ Unseen("defaults")
         \/ (settings = Empty /\ Bytes(last.parts["defaults"]) = <<>>)
=============================================================================
