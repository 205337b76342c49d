---------------------------- MODULE ReferenceView ----------------------------
(***************************************************************************)
(* What make_reference_analysis_elf promises, without saying how a file is *)
(* laid out: an image that satisfies the analysis policy is turned, in one *)
(* step, into the guest memory the policy describes (text and data at the  *)
(* addresses of their records, a run of zeroes after data, the reginfo     *)
(* record shifted into the gap between text and data); any other image is  *)
(* refused.                                                                *)
(***************************************************************************)
EXTENDS GuestImage

CONSTANTS
  reference_zero_fill_size,   \* zeroes after data (8 MiB)
  Images                      \* the images a caller may hand over

VARIABLES image, view

Pending == [status |-> "pending"]
Rejected == [status |-> "rejected"]

ReginfoAddress(im) == im.reginfo.address + ReginfoSize

\* The images the policy accepts.
Exportable(im) ==
  /\ validate_image(im)
  /\ record_end(im.data) + reference_zero_fill_size <= ee_memory_size
  /\ record_end(im.text) <= ReginfoAddress(im)
  /\ ReginfoAddress(im) + ReginfoSize <= im.data.address

\* Where one byte of guest memory comes from: a byte of a record, the zero
\* fill, or nowhere.
ViewByte(im, a) ==
  IF a \in im.text.address .. record_end(im.text) - 1
    THEN {<<"text", a - im.text.address>>}
  ELSE IF a \in im.data.address .. record_end(im.data) - 1
    THEN {<<"data", a - im.data.address>>}
  ELSE IF a \in record_end(im.data) .. record_end(im.data) + reference_zero_fill_size - 1
    THEN {<<"zero", 0>>}
  ELSE {}

View(im) ==
  [status  |-> "exported",
   entry   |-> im.entry,
   memory  |-> [a \in 0 .. ee_memory_size - 1 |-> ViewByte(im, a)],
   reginfo_address |-> ReginfoAddress(im),
   reginfo |-> [i \in 0 .. ReginfoSize - 1 |-> {<<"reginfo", i>>}]]

Init == image \in Images /\ view = Pending

Export ==
  /\ view = Pending
  /\ view' = IF Exportable(image) THEN View(image) ELSE Rejected
  /\ UNCHANGED image

Spec == Init /\ [][Export]_<<image, view>>
=============================================================================
