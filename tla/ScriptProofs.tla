---------------------------- MODULE ScriptProofs ----------------------------
(***************************************************************************)
(* What the scripts guarantee that run other programs and leave files:     *)
(* sample_disassembly.py for any regions, builds, failures and deaths, and *)
(* build_reference.ps1 for any files, builders and settings.  The first    *)
(* module is extended, the second an instance.                             *)
(*                                                                         *)
(* The joined listing is a recursive function of the regions' listings.    *)
(* What it holds at a position goes by the search for a least              *)
(* counterexample (LeastNat): two lists of sequences of the same lengths   *)
(* are joined side by side, and one of the two lists is the manifest's.    *)
(***************************************************************************)
EXTENDS SampleCapture, SequenceTheorems, FiniteSetTheorems, WellFoundedInduction, TLAPS

Less == {ss \in Nat \X Nat : ss[1] < ss[2]}

\* A set of numbers that is not empty has a least element.
LEMMA LeastNat ==
  ASSUME NEW T \in SUBSET Nat, T # {}
  PROVE  \E x \in T : \A y \in T : x <= y
<1>1. IsWellFoundedOn(Less, Nat)
  BY NatLessThanWellFounded DEF OpToRel, Less
<1>2. PICK x \in T : \A y \in T : ~(<<y, x>> \in Less)
  BY <1>1, WFMin
<1>3. \A y \in T : ~(y < x)
  BY <1>2 DEF Less
<1>. QED BY <1>3

\* The joins of the first n of several sequences.
Joins(g, seqs, n) ==
  g = [i \in 1 .. n |-> IF i = 1 THEN seqs[i] ELSE g[i - 1] \o seqs[i]]

LEMMA JoinsExist ==
  ASSUME NEW seqs, NEW N \in Nat
  PROVE  \E g : Joins(g, seqs, N)
<1>. DEFINE Bad == {n \in Nat : ~ \E g : Joins(g, seqs, n)}
<1>. SUFFICES ASSUME Bad # {} PROVE FALSE
  OBVIOUS
<1>1. Bad \in SUBSET Nat
  OBVIOUS
<1>2. PICK m \in Bad : \A y \in Bad : m <= y
  <2>. HIDE DEF Bad
  <2>. QED BY <1>1, LeastNat
<1>3. m \in Nat /\ ~ \E g : Joins(g, seqs, m)
  BY <1>2
<1>4. CASE m = 0
  <2>1. Joins([i \in 1 .. 0 |-> 0], seqs, 0)
    BY DEF Joins
  <2>. QED BY <1>3, <1>4, <2>1
<1>5. CASE m # 0
  <2>1. m - 1 \in Nat /\ m - 1 \notin Bad
    BY <1>2, <1>3, <1>5
  <2>2. PICK g : Joins(g, seqs, m - 1)
    BY <2>1
  <2>. DEFINE h == [i \in 1 .. m |->
                      IF i = m THEN IF m = 1 THEN seqs[m] ELSE g[m - 1] \o seqs[m] ELSE g[i]]
  <2>3. \A i \in 1 .. m : h[i] = IF i = 1 THEN seqs[i] ELSE h[i - 1] \o seqs[i]
    <3>1. \A i \in 1 .. m - 1 : g[i] = IF i = 1 THEN seqs[i] ELSE g[i - 1] \o seqs[i]
      BY <2>2 DEF Joins
    <3>. QED BY <1>3, <1>5, <3>1
  <2>4. Joins(h, seqs, m)
    BY <2>3 DEF Joins
  <2>. QED BY <1>3, <2>4
<1>. QED BY <1>4, <1>5

LEMMA FlattenIsJoin ==
  ASSUME NEW seqs, Len(seqs) \in Nat \ {0}
  PROVE  \E g : /\ FlattenSeq(seqs) = g[Len(seqs)]
                /\ \A i \in 1 .. Len(seqs) : g[i] = IF i = 1 THEN seqs[i] ELSE g[i - 1] \o seqs[i]
<1>. DEFINE g == CHOOSE g : Joins(g, seqs, Len(seqs))
<1>1. Joins(g, seqs, Len(seqs))
  BY JoinsExist
<1>2. FlattenSeq(seqs) = g[Len(seqs)]
  BY DEF FlattenSeq, Joins
<1>. HIDE DEF g
<1>3. \A i \in 1 .. Len(seqs) : g[i] = IF i = 1 THEN seqs[i] ELSE g[i - 1] \o seqs[i]
  BY <1>1 DEF Joins
<1>. QED BY <1>2, <1>3

\* Two lists of sequences of the same lengths are joined side by side: at each
\* position stand the same elements of the same sequences.
Beside(v, w, r, x, y) ==
  /\ Len(x) = Len(y)
  /\ \A k \in 1 .. Len(x) : \E i \in 1 .. r : \E j \in 1 .. Len(v[i]) :
       x[k] = v[i][j] /\ y[k] = w[i][j]

LEMMA JoinedBeside ==
  ASSUME NEW S, NEW T, NEW v \in Seq(Seq(S)), NEW w \in Seq(Seq(T)), NEW r \in 1 .. Len(v),
         Len(v) = Len(w), \A i \in 1 .. Len(v) : Len(v[i]) = Len(w[i]),
         NEW x \in Seq(S), NEW y \in Seq(T), Beside(v, w, r - 1, x, y)
  PROVE  Beside(v, w, r, x \o v[r], y \o w[r])
<1>1. v[r] \in Seq(S) /\ w[r] \in Seq(T) /\ Len(v[r]) = Len(w[r])
  BY ElementOfSeq
<1>2. Len(x) \in Nat /\ Len(v[r]) \in Nat /\ Len(v) \in Nat /\ Len(x) = Len(y)
  BY <1>1, LenProperties DEF Beside
<1>3. /\ Len(x \o v[r]) = Len(x) + Len(v[r]) /\ Len(y \o w[r]) = Len(x) + Len(v[r])
      /\ \A k \in 1 .. Len(x) + Len(v[r]) :
           /\ (x \o v[r])[k] = IF k <= Len(x) THEN x[k] ELSE v[r][k - Len(x)]
           /\ (y \o w[r])[k] = IF k <= Len(x) THEN y[k] ELSE w[r][k - Len(x)]
  <2>1. /\ Len(x \o v[r]) = Len(x) + Len(v[r])
        /\ \A k \in 1 .. Len(x) + Len(v[r]) :
             (x \o v[r])[k] = IF k <= Len(x) THEN x[k] ELSE v[r][k - Len(x)]
    BY <1>1, ConcatProperties
  <2>2. /\ Len(y \o w[r]) = Len(y) + Len(w[r])
        /\ \A k \in 1 .. Len(y) + Len(w[r]) :
             (y \o w[r])[k] = IF k <= Len(y) THEN y[k] ELSE w[r][k - Len(y)]
    BY <1>1, ConcatProperties
  <2>3. Len(y) = Len(x) /\ Len(w[r]) = Len(v[r])
    BY <1>1, <1>2
  <2>. QED BY <2>1, <2>2, <2>3
<1>. DEFINE xx == x \o v[r]
            yy == y \o w[r]
<1>. SUFFICES ASSUME NEW k \in 1 .. Len(x) + Len(v[r])
              PROVE  \E i \in 1 .. r : \E j \in 1 .. Len(v[i]) :
                       xx[k] = v[i][j] /\ yy[k] = w[i][j]
  BY <1>3 DEF Beside
<1>. HIDE DEF xx, yy
<1>4. CASE k <= Len(x)
  <2>1. PICK i \in 1 .. r - 1 : \E j \in 1 .. Len(v[i]) : x[k] = v[i][j] /\ y[k] = w[i][j]
    <3>1. k \in 1 .. Len(x)
      BY <1>2, <1>4
    <3>. QED BY <3>1 DEF Beside
  <2>2. i \in 1 .. r
    BY <1>2
  <2>. QED BY <1>3, <1>4, <2>1, <2>2 DEF xx, yy
<1>5. CASE ~(k <= Len(x))
  <2>1. k - Len(x) \in 1 .. Len(v[r]) /\ r \in 1 .. r
    BY <1>2, <1>5
  <2>2. xx[k] = v[r][k - Len(x)] /\ yy[k] = w[r][k - Len(x)]
    BY <1>3, <1>5 DEF xx, yy
  <2>. QED BY <2>1, <2>2
<1>. QED BY <1>4, <1>5

LEMMA FlattenedBeside ==
  ASSUME NEW S, NEW T, NEW v \in Seq(Seq(S)), NEW w \in Seq(Seq(T)),
         Len(v) # 0, Len(v) = Len(w), \A i \in 1 .. Len(v) : Len(v[i]) = Len(w[i])
  PROVE  /\ FlattenSeq(v) \in Seq(S) /\ FlattenSeq(w) \in Seq(T)
         /\ Beside(v, w, Len(v), FlattenSeq(v), FlattenSeq(w))
<1>1. Len(v) \in Nat \ {0}
  BY LenProperties
<1>2. PICK x : /\ FlattenSeq(v) = x[Len(v)]
               /\ \A i \in 1 .. Len(v) : x[i] = IF i = 1 THEN v[i] ELSE x[i - 1] \o v[i]
  BY <1>1, FlattenIsJoin
<1>a. Len(w) \in Nat \ {0} /\ Len(v) = Len(w)
  BY <1>1
<1>b. PICK y : /\ FlattenSeq(w) = y[Len(w)]
               /\ \A i \in 1 .. Len(w) : y[i] = IF i = 1 THEN w[i] ELSE y[i - 1] \o w[i]
  BY <1>a, FlattenIsJoin
<1>3. /\ FlattenSeq(w) = y[Len(v)]
      /\ \A i \in 1 .. Len(v) : y[i] = IF i = 1 THEN w[i] ELSE y[i - 1] \o w[i]
  BY <1>a, <1>b
<1>. DEFINE P(i) == x[i] \in Seq(S) /\ y[i] \in Seq(T) /\ Beside(v, w, i, x[i], y[i])
            Bad == {i \in 1 .. Len(v) : ~ P(i)}
<1>4. CASE Bad = {}
  <2>1. P(Len(v))
    BY <1>1, <1>4
  <2>. QED BY <1>2, <1>3, <2>1
<1>5. CASE Bad # {}
  <2>1. Bad \in SUBSET Nat
    OBVIOUS
  <2>2. PICK m \in Bad : \A n \in Bad : m <= n
    <3>. HIDE DEF Bad
    <3>. QED BY <1>5, <2>1, LeastNat
  <2>3. m \in 1 .. Len(v) /\ ~ P(m) /\ v[m] \in Seq(S) /\ w[m] \in Seq(T)
    BY <2>2, ElementOfSeq
  <2>4. CASE m = 1
    <3>1. x[1] = v[1] /\ y[1] = w[1]
      BY <1>2, <1>3, <2>3, <2>4
    <3>2. Beside(v, w, 1, v[1], w[1])
      <4>1. Len(v[1]) = Len(w[1]) /\ 1 \in 1 .. 1
        BY <2>3, <2>4
      <4>. QED BY <4>1 DEF Beside
    <3>. QED BY <2>3, <2>4, <3>1, <3>2
  <2>5. CASE m # 1
    <3>1. m - 1 \in 1 .. Len(v) /\ m - 1 \notin Bad
      BY <1>1, <2>2, <2>3, <2>5
    <3>2. P(m - 1)
      BY <3>1
    <3>3. x[m] = x[m - 1] \o v[m] /\ y[m] = y[m - 1] \o w[m]
      BY <1>2, <1>3, <2>3, <2>5
    <3>4. Beside(v, w, m, x[m], y[m])
      <4>. HIDE DEF Bad
      <4>. QED BY <2>3, <3>2, <3>3, JoinedBeside
    <3>5. x[m] \in Seq(S) /\ y[m] \in Seq(T)
      BY <2>3, <3>2, <3>3, ConcatProperties
    <3>. QED BY <2>3, <3>4, <3>5
  <2>. QED BY <2>4, <2>5
<1>. QED BY <1>4, <1>5

\* Sequences of one element each are joined to the sequence of the elements.
LEMMA FlattenedSingles ==
  ASSUME NEW T, NEW w \in Seq(Seq(T)), Len(w) # 0, \A i \in 1 .. Len(w) : Len(w[i]) = 1
  PROVE  /\ FlattenSeq(w) \in Seq(T) /\ Len(FlattenSeq(w)) = Len(w)
         /\ \A i \in 1 .. Len(w) : FlattenSeq(w)[i] = w[i][1]
<1>1. Len(w) \in Nat \ {0}
  BY LenProperties
<1>2. PICK y : /\ FlattenSeq(w) = y[Len(w)]
               /\ \A i \in 1 .. Len(w) : y[i] = IF i = 1 THEN w[i] ELSE y[i - 1] \o w[i]
  BY <1>1, FlattenIsJoin
<1>. DEFINE P(i) == y[i] \in Seq(T) /\ Len(y[i]) = i /\ \A j \in 1 .. i : y[i][j] = w[j][1]
            Bad == {i \in 1 .. Len(w) : ~ P(i)}
<1>4. CASE Bad = {}
  <2>1. P(Len(w))
    BY <1>1, <1>4
  <2>. QED BY <1>2, <2>1
<1>5. CASE Bad # {}
  <2>1. Bad \in SUBSET Nat
    OBVIOUS
  <2>2. PICK m \in Bad : \A n \in Bad : m <= n
    <3>. HIDE DEF Bad
    <3>. QED BY <1>5, <2>1, LeastNat
  <2>3. m \in 1 .. Len(w) /\ ~ P(m) /\ w[m] \in Seq(T) /\ Len(w[m]) = 1
    BY <2>2, ElementOfSeq
  <2>4. CASE m = 1
    BY <1>2, <2>3, <2>4
  <2>5. CASE m # 1
    <3>1. m - 1 \in 1 .. Len(w) /\ m - 1 \notin Bad
      BY <1>1, <2>2, <2>3, <2>5
    <3>2. P(m - 1)
      BY <3>1
    <3>3. y[m] = y[m - 1] \o w[m]
      BY <1>2, <2>3, <2>5
    <3>4. /\ y[m] \in Seq(T) /\ Len(y[m]) = m - 1 + 1
          /\ \A j \in 1 .. m - 1 + 1 :
               y[m][j] = IF j <= m - 1 THEN y[m - 1][j] ELSE w[m][j - (m - 1)]
      <4>. DEFINE z == y[m - 1]
      <4>1. z \in Seq(T) /\ Len(z) = m - 1 /\ y[m] = z \o w[m]
        BY <3>2, <3>3
      <4>2. /\ z \o w[m] \in Seq(T) /\ Len(z \o w[m]) = Len(z) + Len(w[m])
            /\ \A j \in 1 .. Len(z) + Len(w[m]) :
                 (z \o w[m])[j] = IF j <= Len(z) THEN z[j] ELSE w[m][j - Len(z)]
        <5>. HIDE DEF z
        <5>. QED BY <2>3, <4>1, ConcatProperties
      <4>. HIDE DEF z
      <4>3. Len(z) + Len(w[m]) = m - 1 + 1
        BY <2>3, <4>1
      <4>4. /\ y[m] \in Seq(T) /\ Len(y[m]) = m - 1 + 1
            /\ \A j \in 1 .. m - 1 + 1 : y[m][j] = IF j <= m - 1 THEN z[j] ELSE w[m][j - (m - 1)]
        BY <4>1, <4>2, <4>3
      <4>. QED BY <4>4 DEF z
    <3>5. m \in Nat
      BY <2>3
    <3>6. Len(y[m]) = m
      BY <3>4, <3>5
    <3>7. ASSUME NEW j \in 1 .. m PROVE y[m][j] = w[j][1]
      <4>1. j \in 1 .. m - 1 + 1
        BY <3>5
      <4>2. CASE j <= m - 1
        <5>1. j \in 1 .. m - 1
          BY <4>2, <3>5
        <5>. QED BY <4>1, <4>2, <5>1, <3>2, <3>4
      <4>3. CASE ~(j <= m - 1)
        <5>1. j = m /\ j - (m - 1) = 1
          BY <4>3, <3>5
        <5>. QED BY <4>1, <4>3, <5>1, <3>4
      <4>. QED BY <4>2, <4>3
    <3>. QED BY <2>3, <3>4, <3>6, <3>7
  <2>. QED BY <2>4, <2>5
<1>. QED BY <1>4, <1>5

-----------------------------------------------------------------------------
Rows == [region : Regions, index : Nat, build : Builds, whole : BOOLEAN]
ReportLines == [region : Regions, build : Builds, whole : BOOLEAN]

\* What was accepted of a region: all its rows, of one build, and that build's report.
Captured(r) ==
  /\ Len(listings[r]) = Counts[r]
  /\ \A i \in 1 .. Counts[r] :
       /\ listings[r][i].region = r /\ listings[r][i].index = i
       /\ listings[r][i].whole \/ i = Counts[r]
       /\ listings[r][i].build = reports[r][1].build
  /\ Len(reports[r]) = 1 /\ reports[r][1].region = r

\* What the lists of a run hold.
Lists ==
  /\ tool \in Builds /\ run \in Nat
  /\ listings \in Seq(Seq(Rows)) /\ reports \in Seq(Seq(ReportLines))
  /\ Len(reports) = Len(listings) /\ Len(listings) <= Len(Counts)
  /\ \A r \in 1 .. Len(listings) : Captured(r)

\* How many regions they hold at each step.
Stands ==
  /\ file \in Files /\ pc \in {"tool", "open", "fill", "captured", "failed"}
  /\ pc = "tool" => file \in Regions /\ Len(listings) = file - 1
  /\ pc \in {"open", "fill"} =>
       Len(listings) = IF file \in Regions THEN file ELSE Len(Counts)
  /\ pc = "captured" => Len(listings) = Len(Counts)

Holds(f) == files[f].run = run /\ files[f].text = Text(f)

\* Who wrote the files: the run has written those before the current one and
\* none of those behind it; before it began, older runs had done the same.
Written ==
  /\ files \in [Files -> [run : Nat, text : Seq(Rows \cup ReportLines)]]
  /\ \A f \in Files : files[f].run <= run
  /\ \A f, g \in Files : f < g => files[f].run >= files[g].run
  /\ pc \in {"tool", "open", "fill"} =>
       /\ \A f \in Files : f < file => Holds(f)
       /\ \A f \in Files : f > file => files[f].run < run
       /\ IF pc = "fill" THEN files[file].run = run ELSE files[file].run < run
  /\ pc = "captured" => \A f \in Files : Holds(f)

Listing == files[listing_txt].text

Follows(r) ==
  files[r].run = files[listing_txt].run =>
    \A k \in DOMAIN Listing :
      Listing[k].region = r =>
        /\ Listing[k].index \in DOMAIN files[r].text
        /\ \/ Listing[k] = files[r].text[Listing[k].index]
           \/ k = Len(Listing) /\ Listing[k] = Torn(files[r].text[Listing[k].index])

IInv == Lists /\ Stands /\ Written /\ InOrder(Listing) /\ \A r \in Regions : Follows(r)

LEMMA FilesFacts ==
  /\ Len(Counts) \in Nat \ {0} /\ Regions = 1 .. Len(Counts)
  /\ \A r \in Regions : Counts[r] \in Nat
  /\ listing_txt \in Files /\ unsupported_txt \in Files /\ unsupported_txt \in Nat
  /\ Files = Regions \cup {listing_txt, unsupported_txt}
  /\ listing_txt \notin Regions /\ unsupported_txt \notin Regions /\ listing_txt < unsupported_txt
  /\ Files \subseteq Nat /\ Regions \subseteq Files /\ 1 \in Regions
<1>1. Len(Counts) \in Nat /\ Regions = 1 .. Len(Counts) /\ Counts \in [1 .. Len(Counts) -> Nat]
  BY CaptureAssumption, LenProperties DEF Regions
<1>2. Len(Counts) # 0
  BY CaptureAssumption, EmptySeq
<1>. QED BY <1>1, <1>2 DEF Files, listing_txt, unsupported_txt

\* The rows a listing may have, joined as the words of the manifest are.
WantedOf == [r \in Regions |-> [i \in 1 .. Counts[r] |-> <<r, i>>]]

LEMMA JoinedListing ==
  ASSUME Lists, Len(listings) = Len(Counts)
  PROVE  /\ FlattenSeq(listings) \in Seq(Rows)
         /\ Len(FlattenSeq(listings)) = Len(Wanted)
         /\ \A k \in 1 .. Len(FlattenSeq(listings)) :
              \E r \in Regions : \E i \in 1 .. Counts[r] :
                Wanted[k] = <<r, i>> /\ FlattenSeq(listings)[k] = listings[r][i]
<1>1. WantedOf \in Seq(Seq(Regions \X Nat)) /\ Len(WantedOf) = Len(Counts)
  <2>1. \A r \in Regions : [i \in 1 .. Counts[r] |-> <<r, i>>] \in Seq(Regions \X Nat)
    <3>1. \A r \in Regions : [i \in 1 .. Counts[r] |-> <<r, i>>] \in [1 .. Counts[r] -> Regions \X Nat]
      BY FilesFacts
    <3>. QED BY <3>1, FilesFacts, SeqDef
  <2>2. WantedOf \in [1 .. Len(Counts) -> Seq(Regions \X Nat)]
    BY <2>1, FilesFacts DEF WantedOf
  <2>3. WantedOf \in Seq(Seq(Regions \X Nat))
    <3>. DEFINE T == Seq(Regions \X Nat)
    <3>1. WantedOf \in [1 .. Len(Counts) -> T] /\ Len(Counts) \in Nat
      BY <2>2, FilesFacts
    <3>. HIDE DEF T
    <3>2. WantedOf \in Seq(T)
      BY <3>1, SeqDef
    <3>. QED BY <3>2 DEF T
  <2>. QED BY <2>2, <2>3, FilesFacts, LenProperties
<1>2. \A r \in Regions : Len(WantedOf[r]) = Counts[r] /\ \A i \in 1 .. Counts[r] : WantedOf[r][i] = <<r, i>>
  BY FilesFacts DEF WantedOf
<1>3. listings \in Seq(Seq(Rows)) /\ \A r \in Regions : Captured(r)
  BY FilesFacts DEF Lists
<1>4. \A r \in 1 .. Len(WantedOf) : Len(WantedOf[r]) = Len(listings[r])
  BY <1>1, <1>2, <1>3, FilesFacts DEF Captured
<1>5. /\ FlattenSeq(listings) \in Seq(Rows)
      /\ Beside(WantedOf, listings, Len(WantedOf), FlattenSeq(WantedOf), FlattenSeq(listings))
  BY <1>1, <1>3, <1>4, FilesFacts, FlattenedBeside
<1>6. Wanted = FlattenSeq(WantedOf)
  BY DEF Wanted, WantedOf
<1>7. Len(FlattenSeq(listings)) = Len(Wanted)
  BY <1>5, <1>6 DEF Beside
<1>8. ASSUME NEW k \in 1 .. Len(Wanted)
      PROVE  \E r \in Regions : \E i \in 1 .. Counts[r] :
               Wanted[k] = <<r, i>> /\ FlattenSeq(listings)[k] = listings[r][i]
  <2>1. PICK r \in 1 .. Len(WantedOf) : \E i \in 1 .. Len(WantedOf[r]) :
          Wanted[k] = WantedOf[r][i] /\ FlattenSeq(listings)[k] = listings[r][i]
    BY <1>5, <1>6, <1>8 DEF Beside
  <2>2. r \in Regions /\ Len(WantedOf[r]) = Counts[r]
    BY <1>1, <1>2, FilesFacts
  <2>. QED BY <1>2, <2>1, <2>2
<1>. QED BY <1>5, <1>7, <1>8

LEMMA InitInv == Init => IInv
<1> SUFFICES ASSUME Init PROVE IInv
  OBVIOUS
<1>1. Lists
  BY FilesFacts, EmptySeq DEF Init, Lists
<1>b. Stands
  BY FilesFacts DEF Init, Stands
<1>2. Written
  BY FilesFacts, EmptySeq DEF Init, Written
<1>3. Listing = <<>>
  BY FilesFacts DEF Init, Listing
<1>4. DOMAIN Listing = {}
  BY <1>3
<1>. QED BY <1>1, <1>b, <1>2, <1>4 DEF IInv, InOrder, Follows


-----------------------------------------------------------------------------
\* The rows of an accepted listing.
LEMMA AcceptedRows ==
  ASSUME Lists, file \in Regions, NEW stdout \in Output(file), NEW status, Accept(status, stdout)
  PROVE  /\ stdout \in Seq(Rows) /\ Len(stdout) = Counts[file]
         /\ \A i \in 1 .. Counts[file] :
              /\ stdout[i].region = file /\ stdout[i].index = i /\ stdout[i].build = tool
              /\ stdout[i].whole \/ i = Counts[file]
<1>0. Counts[file] \in Nat /\ tool \in Builds
  BY FilesFacts DEF Lists
<1>1. PICK n \in 0 .. Counts[file], whole \in BOOLEAN :
        stdout = [i \in 1 .. n |-> Row(file, i, i < n \/ whole)]
  BY DEF Output
<1>2. ASSUME NEW i \in 1 .. n
      PROVE  /\ stdout[i].region = file /\ stdout[i].index = i /\ stdout[i].build = tool
             /\ stdout[i].whole \/ i = n
             /\ stdout[i] \in Rows
  <2>1. stdout[i] = Row(file, i, i < n \/ whole)
    BY <1>1
  <2>2. (i < n \/ whole) \in BOOLEAN /\ i \in Nat
    BY <1>0
  <2>3. i < n \/ i = n
    BY <1>0
  <2>4. stdout[i].whole \/ i = n
    <3>1. stdout[i].whole = (i < n \/ whole)
      BY <2>1 DEF Row
    <3>. QED BY <2>3, <3>1, Zenon
  <2>. QED BY <1>0, <2>1, <2>2, <2>4 DEF Row, Rows
<1>3. stdout \in [1 .. n -> Rows] /\ n \in Nat
  BY <1>0, <1>1, <1>2
<1>4. stdout \in Seq(Rows)
  BY <1>3, SeqDef
<1>5. Len(stdout) = n
  BY <1>3, <1>4, LenProperties
<1>6. n = Counts[file]
  BY <1>5 DEF Accept
<1>. QED BY <1>2, <1>4, <1>5, <1>6

\* A run that keeps its lists keeps what they hold.
LEMMA ListsKept ==
  ASSUME Lists, UNCHANGED <<listings, reports>>, tool' \in Builds, run' \in Nat
  PROVE  Lists'
BY DEF Lists, Captured

LEMMA StepLists == Lists /\ Stands /\ [Next]_vars => Lists'
<1> SUFFICES ASSUME Lists, Stands, [Next]_vars PROVE Lists'
  OBVIOUS
<1>a. /\ listings \in Seq(Seq(Rows)) /\ Len(listings) \in Nat /\ reports \in Seq(Seq(ReportLines))
      /\ run \in Nat /\ tool \in Builds
  BY LenProperties DEF Lists
<1>1. CASE Start
  <2>1. listings' = <<>> /\ reports' = <<>> /\ run' \in Nat /\ tool' \in Builds
    BY <1>a, <1>1 DEF Start
  <2>. QED BY <2>1, FilesFacts, EmptySeq DEF Lists
<1>2. CASE RunTool
  <2>0. pc = "tool" /\ file \in Regions /\ Len(listings) = file - 1
    BY <1>2 DEF RunTool, Stands
  <2>1. CASE UNCHANGED <<listings, reports>>
    BY <1>2, <1>a, <2>1, ListsKept DEF RunTool
  <2>2. CASE ~ UNCHANGED <<listings, reports>>
    <3>1. PICK status \in {0, 1}, stdout \in Output(file) :
            /\ Accept(status, stdout)
            /\ listings' = Append(listings, stdout)
            /\ reports' = Append(reports, <<[region |-> file, build |-> tool, whole |-> TRUE]>>)
      BY <1>2, <2>2 DEF RunTool
    <3>2. /\ stdout \in Seq(Rows) /\ Len(stdout) = Counts[file]
          /\ \A i \in 1 .. Counts[file] :
               /\ stdout[i].region = file /\ stdout[i].index = i /\ stdout[i].build = tool
               /\ stdout[i].whole \/ i = Counts[file]
      BY <2>0, <3>1, AcceptedRows
    <3>. DEFINE line == [region |-> file, build |-> tool, whole |-> TRUE]
    <3>3. line \in ReportLines /\ line.region = file /\ line.build = tool
      BY <1>a, <2>0 DEF ReportLines
    <3>. HIDE DEF line
    <3>4. <<line>> \in Seq(ReportLines) /\ Len(<<line>>) = 1 /\ <<line>>[1] = line
      BY <3>3
    <3>5. reports' = Append(reports, <<line>>)
      BY <3>1 DEF line
    <3>6. /\ listings' \in Seq(Seq(Rows)) /\ Len(listings') = file /\ listings'[file] = stdout
          /\ \A r \in 1 .. file - 1 : listings'[r] = listings[r]
      BY <1>a, <2>0, <3>1, <3>2, FilesFacts, AppendProperties
    <3>7. /\ reports' \in Seq(Seq(ReportLines)) /\ Len(reports') = file /\ reports'[file] = <<line>>
          /\ \A r \in 1 .. file - 1 : reports'[r] = reports[r]
      <4>1. Len(reports) = file - 1
        BY <2>0 DEF Lists
      <4>. QED BY <1>a, <2>0, <3>4, <3>5, <4>1, FilesFacts, AppendProperties
    <3>8. ASSUME NEW r \in 1 .. file PROVE Captured(r)'
      <4>1. CASE r = file
        <5>1. listings'[r] = stdout /\ reports'[r] = <<line>> /\ Counts[r] = Counts[file]
          BY <3>6, <3>7, <4>1
        <5>2. reports'[r][1] = line
          BY <3>4, <5>1
        <5>3. Len(listings'[r]) = Counts[r] /\ Len(reports'[r]) = 1 /\ reports'[r][1].region = r
          BY <3>2, <3>3, <3>4, <4>1, <5>1, <5>2
        <5>4. ASSUME NEW i \in 1 .. Counts[r]
              PROVE  /\ listings'[r][i].region = r /\ listings'[r][i].index = i
                     /\ listings'[r][i].whole \/ i = Counts[r]
                     /\ listings'[r][i].build = reports'[r][1].build
          BY <3>2, <3>3, <4>1, <5>1, <5>2
        <5>. QED BY <5>3, <5>4 DEF Captured
      <4>2. CASE r # file
        <5>1. r \in 1 .. file - 1 /\ r \in 1 .. Len(listings)
          BY <2>0, <4>2, FilesFacts
        <5>2. Captured(r) /\ listings'[r] = listings[r] /\ reports'[r] = reports[r]
          BY <3>6, <3>7, <5>1 DEF Lists
        <5>. QED BY <5>2 DEF Captured
      <4>. QED BY <4>1, <4>2
    <3>. QED BY <1>a, <1>2, <2>0, <3>6, <3>7, <3>8, FilesFacts DEF Lists, RunTool
  <2>. QED BY <2>1, <2>2
<1>3. CASE Open \/ Fill \/ Die \/ Rebuild \/ UNCHANGED vars
  BY <1>a, <1>3, ListsKept DEF Open, Fill, Die, Rebuild, vars
<1> QED
  BY <1>1, <1>2, <1>3 DEF Next, Finished

LEMMA StepStands == Lists /\ Stands /\ [Next]_vars => Stands'
<1> SUFFICES ASSUME Lists, Stands, [Next]_vars PROVE Stands'
  OBVIOUS
<1>0. listings \in Seq(Seq(Rows)) /\ Len(listings) \in Nat
  BY LenProperties DEF Lists
<1>1. CASE Start
  BY <1>1, FilesFacts, EmptySeq DEF Start, Stands
<1>2. CASE RunTool
  <2>0. pc = "tool" /\ file \in Regions /\ Len(listings) = file - 1 /\ file' = file
    BY <1>2 DEF RunTool, Stands
  <2>1. CASE pc' = "failed"
    BY <2>0, <2>1, FilesFacts DEF Stands
  <2>2. CASE pc' # "failed"
    <3>1. PICK status \in {0, 1}, stdout \in Output(file) :
            Accept(status, stdout) /\ listings' = Append(listings, stdout) /\ pc' = "open"
      BY <1>2, <2>2 DEF RunTool
    <3>2. Len(listings') = file
      BY <1>0, <2>0, <3>1, AcceptedRows, AppendProperties, FilesFacts
    <3>. QED BY <2>0, <3>1, <3>2, FilesFacts DEF Stands
  <2>. QED BY <2>1, <2>2
<1>3. CASE Open
  BY <1>3, FilesFacts DEF Open, Stands
<1>4. CASE Fill
  <2>1. /\ pc = "fill" /\ UNCHANGED listings
        /\ \/ pc' = NextFile /\ file' = IF NextFile = "captured" THEN file ELSE file + 1
           \/ pc' = "failed" /\ UNCHANGED file
    BY <1>4 DEF Fill
  <2>2. CASE pc' = "failed" /\ UNCHANGED file
    BY <2>1, <2>2 DEF Stands
  <2>3. CASE pc' = NextFile /\ file' = IF NextFile = "captured" THEN file ELSE file + 1
    <3>0. Len(listings) = IF file \in Regions THEN file ELSE Len(Counts)
      BY <2>1 DEF Stands
    <3>1. CASE file < Len(Counts)
      <4>1. file \in Regions /\ file + 1 \in Regions
        BY <3>1, FilesFacts DEF Stands, Files
      <4>. QED BY <2>1, <2>3, <3>0, <3>1, <4>1, FilesFacts DEF Stands, NextFile
    <3>2. CASE ~(file < Len(Counts)) /\ file < unsupported_txt
      <4>1. file + 1 \in Files /\ file + 1 \notin Regions /\ Len(listings) = Len(Counts)
        BY <3>0, <3>2, FilesFacts DEF Stands, Files, unsupported_txt
      <4>. QED BY <2>1, <2>3, <3>2, <4>1 DEF Stands, NextFile
    <3>3. CASE ~(file < Len(Counts)) /\ ~(file < unsupported_txt)
      <4>1. file = unsupported_txt /\ file \notin Regions
        BY <3>3, FilesFacts DEF Stands, Files
      <4>. QED BY <2>1, <2>3, <3>0, <3>3, <4>1 DEF Stands, NextFile
    <3>. QED BY <3>1, <3>2, <3>3
  <2>. QED BY <2>1, <2>2, <2>3
<1>5. CASE Die
  BY <1>5 DEF Die, Stands
<1>6. CASE Rebuild \/ UNCHANGED vars
  BY <1>6 DEF Rebuild, vars, Stands
<1> QED
  BY <1>1, <1>2, <1>3, <1>4, <1>5, <1>6 DEF Next, Finished

-----------------------------------------------------------------------------
Lines == Rows \cup ReportLines

LEMMA TextTyped ==
  ASSUME Lists, Stands, pc = "fill"
  PROVE  Text(file) \in Seq(Lines)
<1>0. Len(listings) = IF file \in Regions THEN file ELSE Len(Counts)
  BY DEF Stands
<1>1. CASE file \in Regions
  <2>1. listings[file] \in Seq(Rows)
    <3>1. file \in 1 .. Len(listings)
      BY <1>0, <1>1, FilesFacts
    <3>. QED BY <3>1, ElementOfSeq DEF Lists
  <2>. QED BY <1>1, <2>1, SeqMonotonic DEF Text, Lines
<1>2. CASE file = listing_txt
  <2>1. FlattenSeq(listings) \in Seq(Rows)
    BY <1>0, <1>2, FilesFacts, JoinedListing
  <2>. QED BY <1>2, <2>1, FilesFacts, SeqMonotonic DEF Text, Lines
<1>3. CASE file = unsupported_txt
  <2>1. reports \in Seq(Seq(ReportLines)) /\ Len(reports) # 0
        /\ \A r \in 1 .. Len(reports) : Len(reports[r]) = 1
    BY <1>0, <1>3, FilesFacts DEF Lists, Captured
  <2>2. FlattenSeq(reports) \in Seq(ReportLines)
    BY <2>1, FlattenedSingles
  <2>. QED BY <1>3, <2>2, FilesFacts, SeqMonotonic DEF Text, Lines
<1>. QED BY <1>1, <1>2, <1>3, FilesFacts DEF Stands

\* What a step writes.
LEMMA OpenWrites ==
  ASSUME Lists, Stands, Written, Open
  PROVE  /\ files' \in [Files -> [run : Nat, text : Seq(Lines)]]
         /\ \A f \in Files : f # file => files'[f] = files[f]
         /\ files'[file].run = run /\ files'[file].text = <<>>
<1>1. file \in Files /\ run \in Nat /\ files \in [Files -> [run : Nat, text : Seq(Lines)]]
  BY DEF Lists, Stands, Written, Lines
<1>2. files' = [files EXCEPT ![file] = [run |-> run, text |-> <<>>]]
  BY DEF Open
<1>3. <<>> \in Seq(Lines)
  BY EmptySeq
<1>. QED BY <1>1, <1>2, <1>3

\* A torn row is a row.
LEMMA TornRow ==
  /\ \A row \in Rows : /\ Torn(row) \in Rows
                      /\ Torn(row).region = row.region /\ Torn(row).index = row.index
  /\ \A row \in Lines : Torn(row) \in Lines
<1>1. ASSUME NEW row \in Rows
      PROVE  Torn(row) \in Rows /\ Torn(row).region = row.region /\ Torn(row).index = row.index
  BY DEF Rows, Torn
<1>2. ASSUME NEW row \in ReportLines PROVE Torn(row) \in ReportLines
  BY DEF ReportLines, Torn
<1>. QED BY <1>1, <1>2 DEF Lines

\* The rows of a part are those of the text, but for a torn last one.
LEMMA PartRows ==
  ASSUME NEW S, \A row \in S : Torn(row) \in S,
         NEW text \in Seq(S), NEW n \in 0 .. Len(text), NEW torn \in BOOLEAN,
         NEW part, part = Part(text, n, torn)
  PROVE  /\ part \in Seq(S) /\ Len(part) = n /\ DOMAIN part = 1 .. n
         /\ \A k \in 1 .. n :
              /\ k \in 1 .. Len(text) /\ text[k] \in S
              /\ part[k] = text[k] \/ (k = n /\ part[k] = Torn(text[k]))
<1>1. n \in Nat /\ \A k \in 1 .. n : k \in 1 .. Len(text)
  BY LenProperties
<1>2. \A k \in 1 .. n : text[k] \in S
  BY <1>1, ElementOfSeq
<1>3. part = [k \in 1 .. n |-> IF torn /\ k = n THEN Torn(text[k]) ELSE text[k]]
  BY DEF Part
<1>4. \A k \in 1 .. n : part[k] = text[k] \/ (k = n /\ part[k] = Torn(text[k]))
  BY <1>3
<1>5. part \in [1 .. n -> S]
  BY <1>2, <1>3
<1>6. part \in Seq(S)
  BY <1>1, <1>5, SeqDef
<1>. QED BY <1>1, <1>2, <1>4, <1>5, <1>6, LenProperties

\* A whole text is a part of itself.
LEMMA WholeIsPart ==
  ASSUME NEW S, NEW text \in Seq(S)
  PROVE  Part(text, Len(text), FALSE) = text
<1>1. text = [k \in 1 .. Len(text) |-> text[k]]
  BY LenProperties
<1>. QED BY <1>1 DEF Part

LEMMA FillWrites ==
  ASSUME Lists, Stands, Written, Fill
  PROVE  /\ files' \in [Files -> [run : Nat, text : Seq(Lines)]]
         /\ \A f \in Files : f # file => files'[f] = files[f]
         /\ files'[file].run = run
         /\ \E n \in 0 .. Len(Text(file)), torn \in BOOLEAN :
              files'[file].text = Part(Text(file), n, torn)
         /\ \/ /\ files'[file].text = Text(file)
               /\ pc' = NextFile /\ file' = IF NextFile = "captured" THEN file ELSE file + 1
            \/ pc' = "failed" /\ UNCHANGED file
<1>1. /\ file \in Files /\ files \in [Files -> [run : Nat, text : Seq(Lines)]]
      /\ pc = "fill" /\ files[file].run = run
  BY DEF Stands, Written, Lines, Fill
<1>2. Text(file) \in Seq(Lines) /\ Len(Text(file)) \in Nat
  BY <1>1, TextTyped, LenProperties
<1>3. PICK n \in 0 .. Len(Text(file)), torn \in BOOLEAN :
        /\ files' = [files EXCEPT ![file].text = Part(Text(file), n, torn)]
        /\ \/ /\ Part(Text(file), n, torn) = Text(file) /\ pc' = NextFile
              /\ file' = IF NextFile = "captured" THEN file ELSE file + 1
           \/ pc' = "failed" /\ UNCHANGED file
  <2>1. CASE /\ files' = [files EXCEPT ![file].text = Text(file)] /\ pc' = NextFile
             /\ file' = IF NextFile = "captured" THEN file ELSE file + 1
    <3>1. Part(Text(file), Len(Text(file)), FALSE) = Text(file)
      BY <1>2, WholeIsPart
    <3>2. Len(Text(file)) \in 0 .. Len(Text(file))
      BY <1>2
    <3>. QED BY <2>1, <3>1, <3>2
  <2>2. CASE \E n \in 0 .. Len(Text(file)), torn \in BOOLEAN :
               /\ files' = [files EXCEPT ![file].text = Part(Text(file), n, torn)]
               /\ pc' = "failed" /\ UNCHANGED file
    BY <2>2
  <2>. QED BY <2>1, <2>2 DEF Fill
<1>. DEFINE part == Part(Text(file), n, torn)
<1>4. part \in Seq(Lines)
  BY <1>2, TornRow, PartRows
<1>. HIDE DEF part
<1>5. files' = [files EXCEPT ![file].text = part]
  BY <1>3 DEF part
<1>6. /\ files' \in [Files -> [run : Nat, text : Seq(Lines)]]
      /\ \A f \in Files : f # file => files'[f] = files[f]
      /\ files'[file].run = run /\ files'[file].text = part
  BY <1>1, <1>4, <1>5
<1>. QED BY <1>3, <1>6 DEF part

\* Text of the files before the current one does not change with a new region.
LEMMA TextKept ==
  ASSUME Lists, Stands, NEW f \in Files, f < file, RunTool
  PROVE  Text(f)' = Text(f)
<1>1. pc = "tool" /\ file \in Regions /\ Len(listings) = file - 1
  BY DEF RunTool, Stands
<1>2. f \in Regions /\ f \in 1 .. Len(listings)
  <2>1. f \in Nat /\ f >= 1
    BY FilesFacts DEF Files
  <2>. QED BY <1>1, <2>1, FilesFacts
<1>3. listings'[f] = listings[f]
  <2>1. CASE UNCHANGED listings
    BY <2>1
  <2>2. CASE ~ UNCHANGED listings
    <3>1. PICK status \in {0, 1}, stdout \in Output(file) :
            Accept(status, stdout) /\ listings' = Append(listings, stdout)
      BY <2>2 DEF RunTool
    <3>2. stdout \in Seq(Rows)
      BY <1>1, <3>1, AcceptedRows
    <3>. QED BY <1>2, <3>1, <3>2, AppendProperties DEF Lists
  <2>. QED BY <2>1, <2>2
<1>. QED BY <1>2, <1>3 DEF Text

LEMMA StepWritten == Lists /\ Stands /\ Written /\ [Next]_vars => Written'
<1> SUFFICES ASSUME Lists, Stands, Written, [Next]_vars PROVE Written'
  OBVIOUS
<1>0. /\ files \in [Files -> [run : Nat, text : Seq(Lines)]] /\ run \in Nat /\ file \in Files
      /\ \A f \in Files : files[f].run <= run /\ files[f].run \in Nat
      /\ \A f, g \in Files : f < g => files[f].run >= files[g].run
  BY DEF Lists, Stands, Written, Lines
<1>1. CASE Start
  <2>1. run' = run + 1 /\ pc' = "tool" /\ file' = 1 /\ files' = files
    BY <1>1 DEF Start
  <2>2. \A f \in Files : ~(f < 1) /\ files[f].run < run + 1
    <3>1. \A f \in Files : f >= 1 /\ f \in Nat
      BY FilesFacts DEF Files
    <3>. QED BY <1>0, <3>1
  <2>3. 1 \in Files
    BY FilesFacts
  <2>. QED BY <1>0, <2>1, <2>2, <2>3 DEF Written, Lines
<1>2. CASE RunTool
  <2>1. pc = "tool" /\ pc' \in {"open", "failed"} /\ UNCHANGED <<files, run, file>>
    BY <1>2 DEF RunTool
  <2>2. \A f \in Files : f < file => Holds(f)'
    BY <1>2, <2>1, TextKept DEF Holds, Written
  <2>. QED BY <2>1, <2>2 DEF Written
<1>3. CASE Open
  <2>1. pc = "open" /\ pc' = "fill" /\ UNCHANGED <<run, file, listings, reports>>
    BY <1>3 DEF Open
  <2>2. ASSUME NEW f \in Files, f < file PROVE Holds(f)'
    <3>0. f # file
      BY <1>0, <2>2, FilesFacts
    <3>1. files'[f] = files[f]
      BY <1>3, <3>0, OpenWrites
    <3>2. Holds(f)
      BY <2>1, <2>2 DEF Written
    <3>3. Text(f)' = Text(f)
      BY <2>1 DEF Text
    <3>. QED BY <2>1, <3>1, <3>2, <3>3 DEF Holds
  <2>3. \A f \in Files : f > file => files'[f].run < run
    BY <1>0, <1>3, <2>1, OpenWrites, FilesFacts DEF Written
  <2>4. \A f, g \in Files : f < g => files'[f].run >= files'[g].run
    <3>1. \A f \in Files : f < file => files'[f].run = run
      BY <2>1, <2>2 DEF Holds
    <3>2. \A f \in Files : f # file => files'[f].run = files[f].run
      BY <1>3, OpenWrites
    <3>3. files'[file].run = run
      BY <1>3, OpenWrites
    <3>4. \A f \in Files : files'[f].run <= run
      BY <1>0, <3>2, <3>3
    <3>5. \A f, g \in Files : f < g /\ f >= file => files'[f].run >= files'[g].run
      BY <1>0, <3>2, <3>3, <3>4, FilesFacts
    <3>6. \A f, g \in Files : f < g /\ f < file => files'[f].run >= files'[g].run
      BY <1>0, <3>1, <3>2, <3>3, <3>4
    <3>7. \A f \in Files : f < file \/ f >= file
      BY <1>0, FilesFacts
    <3>. QED BY <3>5, <3>6, <3>7
  <2>5. /\ files' \in [Files -> [run : Nat, text : Seq(Rows \cup ReportLines)]]
        /\ files'[file].run = run
        /\ \A f \in Files : f # file => files'[f].run = files[f].run
    BY <1>3, OpenWrites DEF Lines
  <2>6. ASSUME NEW f \in Files PROVE files'[f].run <= run
    <3>1. CASE f = file
      BY <1>0, <2>5, <3>1
    <3>2. CASE f # file
      BY <1>0, <2>5, <3>2
    <3>. QED BY <3>1, <3>2
  <2>. QED BY <2>1, <2>2, <2>3, <2>4, <2>5, <2>6 DEF Written
<1>4. CASE Fill
  <2>1. pc = "fill" /\ UNCHANGED <<run, listings, reports>> /\ files[file].run = run
    BY <1>4 DEF Fill, Written
  <2>2. ASSUME NEW f \in Files, f < file PROVE Holds(f)'
    <3>0. f # file
      BY <1>0, <2>2, FilesFacts
    <3>1. files'[f] = files[f]
      BY <1>4, <3>0, FillWrites
    <3>2. Holds(f)
      BY <2>1, <2>2 DEF Written
    <3>3. Text(f)' = Text(f)
      BY <2>1 DEF Text
    <3>. QED BY <2>1, <3>1, <3>2, <3>3 DEF Holds
  <2>3. \A f \in Files : files'[f].run = files[f].run
    BY <1>0, <1>4, <2>1, FillWrites
  <2>4. CASE pc' = "failed" /\ UNCHANGED file
    BY <1>0, <1>4, <2>1, <2>3, <2>4, FillWrites DEF Written, Lines
  <2>5. CASE files'[file].text = Text(file) /\ pc' = NextFile
             /\ file' = IF NextFile = "captured" THEN file ELSE file + 1
    <3>1. \A f \in Files : f = file => Holds(f)'
      BY <2>1, <2>3, <2>5, <1>0 DEF Holds, Text
    <3>2. CASE NextFile = "captured"
      <4>1. \A f \in Files : f < file \/ f = file
        <5>1. ~(file < unsupported_txt) /\ unsupported_txt \in Nat
          BY <3>2, FilesFacts DEF NextFile
        <5>. QED BY <1>0, <5>1 DEF Files
      <4>. QED BY <1>0, <1>4, <2>1, <2>2, <2>3, <2>5, <3>1, <3>2, <4>1, FillWrites DEF Written, Lines
    <3>3. CASE NextFile # "captured"
      <4>1. pc' \in {"tool", "open"} /\ file' = file + 1
        BY <2>5, <3>3 DEF NextFile
      <4>2. \A f \in Files : f > file => files'[f].run < run
        BY <2>1, <2>3 DEF Written
      <4>3. \A f \in Files : f < file + 1 => Holds(f)'
        BY <1>0, <2>2, <3>1, FilesFacts
      <4>4. file + 1 \in Files
        BY <1>0, <3>3, FilesFacts DEF NextFile, Files
      <4>5. \A f \in Files : f > file + 1 => files'[f].run < run
        BY <1>0, <4>2, FilesFacts
      <4>6. files'[file + 1].run < run
        BY <1>0, <4>2, <4>4, FilesFacts
      <4>. QED BY <1>0, <1>4, <2>1, <2>3, <4>1, <4>3, <4>5, <4>6, FillWrites DEF Written, Lines
    <3>. QED BY <3>2, <3>3
  <2>. QED BY <1>4, <2>4, <2>5, FillWrites
<1>5. CASE Die
  BY <1>5 DEF Die, Written
<1>6. CASE Rebuild \/ UNCHANGED vars
  BY <1>6 DEF Rebuild, vars, Written, Holds, Text
<1> QED
  BY <1>1, <1>2, <1>3, <1>4, <1>5, <1>6 DEF Next, Finished

-----------------------------------------------------------------------------
\* A beginning of the joined listing: words in the order of the manifest, each
\* the row its region's listing has for it.
LEMMA JoinedBeginning ==
  ASSUME Lists, Len(listings) = Len(Counts),
         NEW n \in 0 .. Len(FlattenSeq(listings)), NEW torn \in BOOLEAN,
         NEW text, text = Part(FlattenSeq(listings), n, torn)
  PROVE  /\ InOrder(text)
         /\ \A k \in DOMAIN text :
              /\ text[k].region \in Regions /\ text[k].index \in 1 .. Counts[text[k].region]
              /\ \/ text[k] = listings[text[k].region][text[k].index]
                 \/ /\ k = Len(text)
                    /\ text[k] = Torn(listings[text[k].region][text[k].index])
<1>. DEFINE F == FlattenSeq(listings)
<1>1. /\ F \in Seq(Rows) /\ Len(F) = Len(Wanted)
      /\ \A k \in 1 .. Len(F) :
           \E r \in Regions : \E i \in 1 .. Counts[r] :
             Wanted[k] = <<r, i>> /\ F[k] = listings[r][i]
  BY JoinedListing
<1>2. n \in 0 .. Len(F) /\ text = Part(F, n, torn)
  OBVIOUS
<1>. HIDE DEF F
<1>3. /\ Len(text) = n /\ DOMAIN text = 1 .. n
      /\ \A k \in 1 .. n :
           /\ k \in 1 .. Len(F) /\ F[k] \in Rows
           /\ text[k] = F[k] \/ (k = n /\ text[k] = Torn(F[k]))
  BY <1>1, <1>2, TornRow, PartRows
<1>4. Len(F) \in Nat
  BY <1>1, LenProperties
<1>5. ASSUME NEW k \in DOMAIN text
      PROVE  /\ k <= Len(Wanted) /\ <<text[k].region, text[k].index>> = Wanted[k]
             /\ WholeOrLast(text[k]) \/ k = Len(text)
             /\ text[k].region \in Regions /\ text[k].index \in 1 .. Counts[text[k].region]
             /\ \/ text[k] = listings[text[k].region][text[k].index]
                \/ /\ k = Len(text)
                   /\ text[k] = Torn(listings[text[k].region][text[k].index])
  <2>1. /\ k \in 1 .. Len(F) /\ k <= Len(Wanted) /\ F[k] \in Rows
        /\ text[k] = F[k] \/ (k = Len(text) /\ text[k] = Torn(F[k]))
    BY <1>1, <1>3, <1>4
  <2>2. PICK r \in Regions : \E i \in 1 .. Counts[r] : Wanted[k] = <<r, i>> /\ F[k] = listings[r][i]
    BY <1>1, <2>1
  <2>3. PICK i \in 1 .. Counts[r] : Wanted[k] = <<r, i>> /\ F[k] = listings[r][i]
    BY <2>2
  <2>4. Captured(r)
    BY FilesFacts DEF Lists
  <2>5. F[k].region = r /\ F[k].index = i /\ (F[k].whole \/ i = Counts[r])
    <3>1. listings[r][i].region = r /\ listings[r][i].index = i /\ (listings[r][i].whole \/ i = Counts[r])
      BY <2>3, <2>4 DEF Captured
    <3>. QED BY <2>3, <3>1
  <2>6. text[k].region = r /\ text[k].index = i
    BY <2>1, <2>5, TornRow
  <2>7. WholeOrLast(text[k]) \/ k = Len(text)
    <3>1. CASE text[k] = F[k]
      <4>1. WholeOrLast(F[k])
        BY <2>5, Zenon DEF WholeOrLast
      <4>. QED BY <3>1, <4>1, Zenon
    <3>2. CASE k = Len(text)
      BY <3>2
    <3>. QED BY <2>1, <3>1, <3>2
  <2>. QED BY <2>1, <2>3, <2>6, <2>7
<1>. QED BY <1>5 DEF InOrder

LEMMA StepListing ==
  IInv /\ [Next]_vars => InOrder(Listing)' /\ \A r \in Regions : Follows(r)'
<1> SUFFICES ASSUME IInv, [Next]_vars
             PROVE  InOrder(Listing)' /\ \A r \in Regions : Follows(r)'
  OBVIOUS
<1>0. Lists /\ Stands /\ Written /\ InOrder(Listing) /\ \A r \in Regions : Follows(r)
  BY DEF IInv
<1>a. /\ files \in [Files -> [run : Nat, text : Seq(Lines)]] /\ run \in Nat /\ file \in Files
      /\ listing_txt \in Files /\ listing_txt \notin Regions /\ listing_txt \in Nat
      /\ Regions \subseteq Files /\ Files \subseteq Nat
      /\ \A f \in Files : files[f].run \in Nat
  BY <1>0, FilesFacts DEF Lists, Stands, Written, Lines
<1>r. \A r \in Regions : r \in Files /\ r < listing_txt /\ r # listing_txt
  BY FilesFacts DEF listing_txt
<1>. DEFINE Same == Listing' = Listing /\ files'[listing_txt].run = files[listing_txt].run
            Others(r) == files'[r] = files[r]
<1>b. Same => InOrder(Listing)'
  BY <1>0 DEF InOrder
<1>c. \A r \in Regions : Same /\ Others(r) => Follows(r)'
  BY <1>0 DEF Follows
<1>d. UNCHANGED files => Same /\ \A r \in Regions : Others(r)
  BY DEF Listing
<1>1. CASE Open
  <2>1. \A f \in Files : f # file => files'[f] = files[f]
    BY <1>0, <1>1, OpenWrites
  <2>2. files'[file].run = run /\ files'[file].text = <<>> /\ pc = "open"
    BY <1>0, <1>1, OpenWrites DEF Open
  <2>3. CASE file = listing_txt
    <3>1. Listing' = <<>> /\ DOMAIN Listing' = {}
      BY <2>2, <2>3 DEF Listing
    <3>. QED BY <3>1 DEF InOrder, Follows
  <2>4. CASE file # listing_txt
    <3>1. Same
      BY <1>a, <2>1, <2>4 DEF Listing
    <3>2. ASSUME NEW r \in Regions, r = file PROVE Follows(r)'
      <4>1. listing_txt > file
        BY <3>2, FilesFacts DEF listing_txt
      <4>2. files[listing_txt].run < run
        BY <1>0, <1>a, <2>2, <4>1 DEF Written
      <4>3. files'[r].run # files'[listing_txt].run
        BY <1>a, <2>2, <3>1, <3>2, <4>2
      <4>. QED BY <4>3 DEF Follows
    <3>3. ASSUME NEW r \in Regions, r # file PROVE Follows(r)'
      BY <1>a, <1>c, <2>1, <3>1, <3>3
    <3>. QED BY <1>b, <3>1, <3>2, <3>3
  <2>. QED BY <2>3, <2>4
<1>2. CASE Fill
  <2>1. \A f \in Files : f # file => files'[f] = files[f]
    BY <1>0, <1>2, FillWrites
  <2>2. files'[file].run = run /\ pc = "fill" /\ files[file].run = run
    BY <1>0, <1>2, FillWrites DEF Fill, Written
  <2>3. CASE file = listing_txt
    <3>1. Len(listings) = Len(Counts) /\ Text(file) = FlattenSeq(listings)
      BY <1>0, <1>a, <2>2, <2>3 DEF Stands, Text
    <3>2. PICK n \in 0 .. Len(FlattenSeq(listings)), torn \in BOOLEAN :
            Listing' = Part(FlattenSeq(listings), n, torn)
      BY <1>0, <1>2, <2>3, <3>1, FillWrites DEF Listing
    <3>3. /\ InOrder(Listing')
          /\ \A k \in DOMAIN Listing' :
               /\ Listing'[k].region \in Regions
               /\ Listing'[k].index \in 1 .. Counts[Listing'[k].region]
               /\ \/ Listing'[k] = listings[Listing'[k].region][Listing'[k].index]
                  \/ /\ k = Len(Listing')
                     /\ Listing'[k] = Torn(listings[Listing'[k].region][Listing'[k].index])
      BY <1>0, <3>1, <3>2, JoinedBeginning
    <3>4. ASSUME NEW r \in Regions PROVE Follows(r)'
      <4>1. r < file /\ r # file /\ Holds(r)
        BY <1>0, <2>2, <2>3, <1>r DEF Written
      <4>2. files'[r].text = listings[r]
        BY <1>a, <2>1, <4>1 DEF Holds, Text
      <4>3. Captured(r)
        BY <1>0, <3>1, FilesFacts DEF Lists
      <4>4. DOMAIN listings[r] = 1 .. Counts[r]
        <5>1. listings[r] \in Seq(Rows)
          BY <1>0, <3>1, FilesFacts, ElementOfSeq DEF Lists
        <5>. QED BY <4>3, <5>1, LenProperties DEF Captured
      <4>5. Len(Listing)' = Len(Listing')
        OBVIOUS
      <4>. QED BY <3>3, <4>2, <4>4, <4>5 DEF Follows
    <3>. QED BY <3>3, <3>4 DEF InOrder
  <2>4. CASE file # listing_txt
    <3>1. Same
      BY <1>a, <2>1, <2>4 DEF Listing
    <3>2. ASSUME NEW r \in Regions, r = file PROVE Follows(r)'
      <4>1. listing_txt > file
        BY <3>2, FilesFacts DEF listing_txt
      <4>2. files[listing_txt].run < run
        BY <1>0, <1>a, <2>2, <4>1 DEF Written
      <4>3. files'[r].run # files'[listing_txt].run
        BY <1>a, <2>2, <3>1, <3>2, <4>2
      <4>. QED BY <4>3 DEF Follows
    <3>3. ASSUME NEW r \in Regions, r # file PROVE Follows(r)'
      BY <1>a, <1>c, <2>1, <3>1, <3>3
    <3>. QED BY <1>b, <3>1, <3>2, <3>3
  <2>. QED BY <2>3, <2>4
<1>3. CASE UNCHANGED files
  BY <1>b, <1>c, <1>d, <1>3
<1> QED
  BY <1>1, <1>2, <1>3 DEF Next, Start, RunTool, Die, Rebuild, Finished, vars

LEMMA StepInv == IInv /\ [Next]_vars => IInv'
BY StepLists, StepStands, StepWritten, StepListing DEF IInv

-----------------------------------------------------------------------------
\* What a run has captured and what it has written of it, at every step (IInv).
THEOREM InvariantHolds == Spec => []IInv
BY InitInv, StepInv, PTL DEF Spec

\* However runs fail and die, listing.txt holds the words of the manifest from
\* the first on, none twice and none left out.
THEOREM InManifestOrder == Spec => []ListingInOrder
<1>1. IInv => ListingInOrder
  BY DEF IInv, ListingInOrder, Listing
<1> QED
  BY <1>1, InvariantHolds, PTL

\* A region's file is never older than listing.txt, nor that older than the
\* report, and a listing of the same run repeats the rows of the region's file.
THEOREM OldAndNew == Spec => []ListingFollowsRegions
<1>1. IInv => ListingFollowsRegions
  BY DEF IInv, Written, ListingFollowsRegions, Listing, Follows
<1> QED
  BY <1>1, InvariantHolds, PTL

\* After "captured" all files are of this run, the listing has every word of the
\* manifest, and each region's rows are of the build that wrote its report.
THEOREM CapturedIsWhole == Spec => []CapturedWhole
<1>1. IInv => CapturedWhole
  <2> SUFFICES ASSUME IInv, pc = "captured" PROVE CapturedWhole
    BY DEF CapturedWhole
  <2>1. Lists /\ InOrder(Listing) /\ Len(listings) = Len(Counts) /\ \A f \in Files : Holds(f)
    BY DEF IInv, Stands, Written
  <2>2. files[listing_txt].text = FlattenSeq(listings) /\ files[unsupported_txt].text = FlattenSeq(reports)
    BY <2>1, FilesFacts DEF Holds, Text
  <2>3. \A r \in Regions : files[r].text = listings[r] /\ Captured(r)
    BY <2>1, FilesFacts DEF Holds, Text, Lists
  <2>4. listings = [r \in Regions |-> files[r].text]
    <3>1. listings = [r \in 1 .. Len(listings) |-> listings[r]]
      BY <2>1, LenProperties DEF Lists
    <3>. QED BY <2>1, <2>3, <3>1, FilesFacts
  <2>5. Len(FlattenSeq(listings)) = Len(Wanted) /\ FlattenSeq(listings) \in Seq(Rows)
    BY <2>1, JoinedListing
  <2>6. \A r \in Regions : FlattenSeq(reports)[r] = reports[r][1]
    <3>1. reports \in Seq(Seq(ReportLines)) /\ Len(reports) = Len(Counts) /\ Len(reports) # 0
          /\ \A r \in 1 .. Len(reports) : Len(reports[r]) = 1
      BY <2>1, <2>3, FilesFacts DEF Lists, Captured
    <3>. QED BY <3>1, FlattenedSingles, FilesFacts
  <2>7. \A r \in Regions : files[unsupported_txt].text[r] = reports[r][1] /\ reports[r][1].region = r
    BY <2>2, <2>3, <2>6 DEF Captured
  <2>8. ASSUME NEW k \in DOMAIN files[listing_txt].text
        PROVE  files[listing_txt].text[k].build
                 = files[unsupported_txt].text[files[listing_txt].text[k].region].build
    <3>. DEFINE F == FlattenSeq(listings)
    <3>1. k \in 1 .. Len(F)
      BY <2>2, <2>5, LenProperties
    <3>2. PICK r \in Regions : \E i \in 1 .. Counts[r] : F[k] = listings[r][i]
      BY <2>1, <3>1, JoinedListing
    <3>3. F[k].region = r /\ F[k].build = reports[r][1].build
      BY <2>3, <3>2 DEF Captured
    <3>. QED BY <2>2, <2>7, <3>3
  <2>10. ASSUME NEW k \in DOMAIN files[listing_txt].text
         PROVE  WholeOrLast(files[listing_txt].text[k])
    <3>. DEFINE F == FlattenSeq(listings)
    <3>1. k \in 1 .. Len(F)
      BY <2>2, <2>5, LenProperties
    <3>2. PICK r \in Regions : \E i \in 1 .. Counts[r] : F[k] = listings[r][i]
      BY <2>1, <3>1, JoinedListing
    <3>3. PICK i \in 1 .. Counts[r] : F[k] = listings[r][i]
      BY <3>2
    <3>4. F[k].region = r /\ F[k].index = i
      BY <2>3, <3>3 DEF Captured
    <3>5. F[k].whole \/ i = Counts[r]
      <4>1. listings[r][i].whole \/ i = Counts[r]
        BY <2>3 DEF Captured
      <4>. QED BY <3>3, <4>1, Zenon
    <3>6. WholeOrLast(F[k])
      BY <3>4, <3>5, Zenon DEF WholeOrLast
    <3>. QED BY <2>2, <3>6, Zenon
  <2>9. \A f \in Files : files[f].run = run
    BY <2>1 DEF Holds
  <2>. QED
    BY <2>1, <2>2, <2>4, <2>5, <2>7, <2>8, <2>9, <2>10 DEF CapturedWhole, Listing
<1> QED
  BY <1>1, InvariantHolds, PTL

-----------------------------------------------------------------------------
(* build_reference.ps1.                                                    *)
CONSTANTS Cores, PinnedCore, Builders, RecordedBuilder, Settings, MaxEdits
VARIABLES
  core, builder, output, apart, setting, previous, buildRun, buildPc, printed, edits,
  touched, caller, found

Build == INSTANCE ReferenceBuild WITH run <- buildRun, pc <- buildPc

\* The setting the script has put away is the caller's, and while it has put
\* none away the session has it.
SettingInv ==
  IF buildPc \in {"build", "restore", "restore, throw"} THEN previous = caller ELSE setting = caller

\* Where the file at the output path comes from: until the builder starts it is
\* the one that was found, and that is none where the check looked at it.
OutputInv ==
  ~ touched =>
    /\ buildPc \in {"core", "output", "builder", "set", "build"} => output = found
    /\ buildPc \in {"builder", "set", "build"} /\ ~ apart => output = Build!Absent
    /\ buildPc \in {"restore", "produced", "inspect core", "inspect elf", "print"} =>
         output = Build!Absent \/ output.run = buildRun \/ (apart /\ output = found)
    /\ buildPc = "print" => output.core = PinnedCore /\ output.whole
    /\ buildPc = "accepted" =>
         /\ printed.core = PinnedCore /\ printed.whole
         /\ printed.run = buildRun \/ (apart /\ printed = found)

BuildInv == SettingInv /\ OutputInv

-----------------------------------------------------------------------------
LEMMA BuildInitInv == Build!Init => BuildInv
BY DEF Build!Init, BuildInv, SettingInv, OutputInv

\* An Absent output is not whole, so the comparison never accepts it.
LEMMA BuildStepInv == BuildInv /\ [Build!Next]_(Build!vars) => BuildInv'
<1> SUFFICES ASSUME BuildInv, [Build!Next]_(Build!vars) PROVE BuildInv'
  OBVIOUS
<1> USE DEF BuildInv, SettingInv, OutputInv, Build!files, Build!session, Build!history
<1>1. CASE Build!Start
  BY <1>1 DEF Build!Start, Build!Ended
<1>2. CASE Build!CheckCore
  BY <1>2 DEF Build!CheckCore, Build!Check
<1>3. CASE Build!CheckOutput
  BY <1>3 DEF Build!CheckOutput, Build!Check
<1>4. CASE Build!CheckBuilder
  BY <1>4 DEF Build!CheckBuilder, Build!Check
<1>5. CASE Build!SetRollForward
  BY <1>5 DEF Build!SetRollForward
<1>6. CASE Build!Build
  <2>1. buildPc = "build" /\ buildPc' \in {"restore", "restore, throw"}
    BY <1>6 DEF Build!Build
  <2>2. ~ touched =>
          \/ output' = Build!Absent \/ output'.run = buildRun' \/ (apart' /\ output' = found')
    BY <1>6, <2>1 DEF Build!Build, Build!Elfs
  <2> QED
    BY <1>6, <2>1, <2>2 DEF Build!Build
<1>7. CASE Build!Restore
  BY <1>7 DEF Build!Restore
<1>8. CASE Build!CheckProduced
  BY <1>8 DEF Build!CheckProduced, Build!Check
<1>9. CASE Build!InspectCore
  BY <1>9 DEF Build!InspectCore, Build!Check
<1>10. CASE Build!InspectElf
  <2>1. buildPc' = "print" => output # Build!Absent /\ output.core = PinnedCore /\ output.whole
    <3>1. ~ Build!Absent.whole
      BY DEF Build!Absent
    <3> QED
      BY <1>10, <3>1 DEF Build!InspectElf, Build!Check
  <2> QED
    BY <1>10, <2>1 DEF Build!InspectElf, Build!Check
<1>11. CASE Build!PrintHash
  BY <1>11 DEF Build!PrintHash
<1>12. CASE Build!Interrupted
  BY <1>12 DEF Build!Interrupted, Build!Ended
<1>13. CASE Build!Others
  <2>1. CASE UNCHANGED <<output, touched>>
    BY <1>13, <2>1 DEF Build!Others
  <2>2. CASE touched'
    BY <1>13, <2>2 DEF Build!Others
  <2> QED
    BY <1>13, <2>1, <2>2 DEF Build!Others
<1>14. CASE UNCHANGED Build!vars
  BY <1>14 DEF Build!vars
<1> QED
  BY <1>1, <1>2, <1>3, <1>4, <1>5, <1>6, <1>7, <1>8, <1>9, <1>10, <1>11, <1>12, <1>13, <1>14
  DEF Build!Next, Build!Finished

LEMMA BuildInductive == Build!Spec => []BuildInv
BY BuildInitInv, BuildStepInv, PTL DEF Build!Spec

-----------------------------------------------------------------------------
\* However CORE and the builder are replaced after their hashes were taken, and
\* whatever a builder or an earlier run left: unless others write the output, an
\* accepted one is whole and made from the pinned CORE, by this run wherever the
\* check for an output looked at the file that is written.
THEOREM AcceptedIsPinned == Build!Spec => []Build!AcceptedMatchesPinned
<1>1. BuildInv => Build!AcceptedMatchesPinned
  BY DEF BuildInv, OutputInv, Build!AcceptedMatchesPinned
<1> QED
  BY <1>1, BuildInductive, PTL

\* The script leaves the session the roll-forward setting it had, also when the
\* builder fails or the run is interrupted.
THEOREM SettingKept == Build!Spec => []Build!CallerSettingKept
<1>1. BuildInv => Build!CallerSettingKept
  BY DEF BuildInv, SettingInv, Build!CallerSettingKept, Build!Ended
<1> QED
  BY <1>1, BuildInductive, PTL

-----------------------------------------------------------------------------
LEMMA MoreRuns ==
  ASSUME NEW n \in Nat
  PROVE  Build!Elfs(0 .. n) \subseteq Build!Elfs(0 .. n + 1) /\ Build!Elfs({n}) \subseteq Build!Elfs(0 .. n)
         /\ Build!Elfs({0}) \subseteq Build!Elfs(0 .. n)
<1>1. 0 .. n \subseteq 0 .. n + 1 /\ {n} \subseteq 0 .. n /\ {0} \subseteq 0 .. n
  OBVIOUS
<1> QED
  BY <1>1 DEF Build!Elfs

\* Every variable keeps its type.
THEOREM BuildTypeCorrect ==
  ASSUME "Major" \in Settings, MaxRuns \in Nat, MaxEdits \in Nat
  PROVE  Build!Spec => []Build!TypeOK
<1>1. Build!Init => Build!TypeOK
  <2> SUFFICES ASSUME Build!Init PROVE Build!TypeOK
    OBVIOUS
  <2>1. buildRun \in 0 .. MaxRuns /\ edits \in 0 .. MaxEdits
    BY DEF Build!Init
  <2>2. touched \in BOOLEAN
    BY DEF Build!Init
  <2> QED
    BY <2>1, <2>2 DEF Build!Init, Build!TypeOK
<1>2. Build!TypeOK /\ [Build!Next]_(Build!vars) => Build!TypeOK'
  <2> SUFFICES ASSUME Build!TypeOK, [Build!Next]_(Build!vars) PROVE Build!TypeOK'
    OBVIOUS
  <2>0. buildRun \in 0 .. MaxRuns /\ edits \in 0 .. MaxEdits
    BY Zenon DEF Build!TypeOK
  <2>00. buildRun \in Nat
    BY <2>0
  <2> USE DEF Build!files, Build!session, Build!history
  <2>1. CASE Build!Start
    <3>0. buildRun' = buildRun + 1 /\ buildRun < MaxRuns
      BY <2>1 DEF Build!Start
    <3>1a. buildRun' \in 0 .. MaxRuns
      BY <2>00, <3>0
    <3>1b. Build!Elfs(0 .. buildRun) \subseteq Build!Elfs(0 .. buildRun + 1)
      BY <2>00, MoreRuns
    <3>1. buildRun' \in 0 .. MaxRuns /\ Build!Elfs(0 .. buildRun) \subseteq Build!Elfs(0 .. buildRun')
      BY <3>0, <3>1a, <3>1b
    <3>2. touched' \in BOOLEAN
      BY <2>1 DEF Build!Start
    <3> QED
      BY <2>1, <3>1, <3>2 DEF Build!Start, Build!TypeOK
  <2>2. CASE Build!CheckCore \/ Build!CheckOutput \/ Build!CheckBuilder \/ Build!CheckProduced \/ Build!InspectCore \/ Build!InspectElf
    BY <2>2 DEF Build!CheckCore, Build!CheckOutput, Build!CheckBuilder, Build!CheckProduced, Build!InspectCore, Build!InspectElf, Build!Check, Build!TypeOK
  <2>3. CASE Build!SetRollForward \/ Build!Restore \/ Build!PrintHash \/ Build!Interrupted
    BY <2>3 DEF Build!SetRollForward, Build!Restore, Build!PrintHash, Build!Interrupted, Build!TypeOK
  <2>4. CASE Build!Build
    <3>1. output' \in Build!Elfs({buildRun}) \cup {output}
      BY <2>4 DEF Build!Build
    <3>2. output' \in Build!Elfs(0 .. buildRun) \cup {Build!Absent}
      BY <2>00, <3>1, MoreRuns DEF Build!TypeOK
    <3> QED
      BY <2>4, <3>2 DEF Build!Build, Build!TypeOK
  <2>5. CASE Build!Others
    <3>1. output' \in Build!Elfs(0 .. buildRun) \cup {Build!Absent} /\ core' \in Cores /\ builder' \in Builders
      BY <2>00, <2>5, MoreRuns DEF Build!Others, Build!TypeOK
    <3>2. edits' \in 0 .. MaxEdits
      BY <2>0, <2>5 DEF Build!Others
    <3>3. touched' \in BOOLEAN
      BY <2>5 DEF Build!Others, Build!TypeOK
    <3> QED
      BY <2>5, <3>1, <3>2, <3>3 DEF Build!Others, Build!TypeOK
  <2>6. CASE UNCHANGED Build!vars
    BY <2>6 DEF Build!vars, Build!TypeOK
  <2> QED
    BY <2>1, <2>2, <2>3, <2>4, <2>5, <2>6 DEF Build!Next, Build!Finished
<1> QED
  BY <1>1, <1>2, PTL DEF Build!Spec
=============================================================================
