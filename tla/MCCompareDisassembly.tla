----------------------- MODULE MCCompareDisassembly -----------------------
(***************************************************************************)
(* A program of seven words that meet every alias, and listings of up to   *)
(* three rows: what gt4disasm writes for a word, what it would write for   *)
(* another instruction of the same shape, a row marked unsupported, one of *)
(* a word that is not there, one outside the program and one cut short.    *)
(***************************************************************************)
EXTENDS CompareDisassembly, TLC

At(i) == <<16, 4 * i>>

\* nop; addiu v0, zero, -1; ori v0, zero, 1; beq zero, zero; beq a0, zero;
\* bne a0, zero; a word outside the subset.
Words ==
  <<<<0, 0>>, <<9218, 65535>>, <<13314, 1>>, <<4096, 3>>, <<4224, 65534>>, <<5248, 1>>,
    <<28672, 0>>>>
MCMemory == [at \in {At(i) : i \in DOMAIN Words} |-> Words[at[2] \div 4]]

Line(columns, at, word, text) == [columns |-> columns, at |-> at, word |-> word, text |-> text]
Plain(i) == Line(Columns, At(i), Words[i], format_instruction(Words[i], At(i)))

\* The same row under a name of the same shape, or declared unsupported.
Other == "addiu" :> "ori" @@ "ori" :> "addiu" @@ "beq" :> "bne" @@ "bne" :> "beq" @@ "sll" :> "srl"
Renamed(i, name) == [Plain(i) EXCEPT !.text[1] = name]

Rows ==
  {Plain(i) : i \in DOMAIN Words} \cup {Renamed(i, Other[Plain(i).text[1]]) : i \in 1 .. 6}
  \cup {Renamed(2, "unsupported"),
        [Plain(3) EXCEPT !.word = Words[2]], [Plain(3) EXCEPT !.at = At(9)],
        [Plain(2) EXCEPT !.columns = {"pc", "word"}]}

MCListings == UNION {[1 .. n -> Rows] : n \in 0 .. 3}
=============================================================================
