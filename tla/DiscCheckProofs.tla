---------------------------- MODULE DiscCheckProofs ----------------------------
(***************************************************************************)
(* Proofs about DiscCheck for every image layout, every set of images and  *)
(* manifests, and every number of disturbances.                            *)
(***************************************************************************)
EXTENDS DiscCheck, SequenceTheorems, TLAPS

-----------------------------------------------------------------------------
(***************************************************************************)
(* The inductive invariant.                                                *)
(***************************************************************************)
Regions == DOMAIN Contents
Values == UNION {Contents[region] : region \in Regions}
Image(d) == IsMap(d) /\ DOMAIN d = Regions /\ \A r \in Regions : d[r] \in Contents[r]

BeforeFiles == {"read_manifest", "hash", "compare_disc", "open", "config"}
AfterHash == {"compare_disc", "open", "config", "files", "compare", "exit_0", "exit_1"}
AfterOpen == {"config", "files", "compare", "exit_0"}
AfterConfig == {"files", "compare", "exit_0"}

\* Every image is one, the hash is a list, the statuses are what they are.
Shapes ==
  /\ Image(disk) /\ Image(first)
  /\ command \in {"inspect", "verify"}
  /\ command = "verify" => manifest \in Manifests
  /\ disturbances \in Nat
  /\ pc \in BeforeFiles \cup AfterHash \cup {"exit_2"}
  /\ pc \in {"read_manifest", "compare_disc", "compare", "exit_1"} => command = "verify"

\* With no disturbance the image is the one at the start, with one it differs
\* from it in one region at most.
Written ==
  /\ disturbances = 0 => disk = first
  /\ disturbances <= 1 => \E r \in Regions : \A s \in Regions \ {r} : disk[s] = first[s]

\* The regions hashed so far are those of one image when there was one write at
\* most: a region is hashed once, before the write or after it.
Hashed ==
  /\ disc \in Seq(Values)
  /\ pc = "read_manifest" => disc = <<>>
  /\ pc = "hash" => Len(disc) < Len(ImageOrder)
  /\ Len(disc) <= Len(ImageOrder)
  /\ pc \in AfterHash => Len(disc) = Len(ImageOrder)
  /\ disturbances <= 1 =>
       \/ \A i \in 1 .. Len(disc) : disc[i] = first[ImageOrder[i]]
       \/ \A i \in 1 .. Len(disc) : disc[i] = disk[ImageOrder[i]]

\* What verify has found out about the manifest.
Compared ==
  command = "verify" =>
    /\ pc \in {"hash"} \cup AfterHash => validate_manifest(manifest)
    /\ pc \in {"open"} \cup AfterOpen => differences(manifest.disc, fingerprint(disc)) = {}
    /\ pc = "exit_0" => differences(manifest, Actual) = {}
    /\ pc = "exit_1" => \/ differences(manifest.disc, fingerprint(disc)) # {}
                        \/ differences(manifest, Actual) # {}
                           /\ (disturbances = 0 => Actual = Inspection(disk))

\* What an undisturbed run has read is what the image holds, and an error says
\* that it could not have been inspected.
Read ==
  /\ IsMap(files) /\ (pc \in BeforeFiles => DOMAIN files = {})
  /\ disturbances = 0 =>
       /\ pc \in AfterOpen => directory = disk["directory"]
       /\ pc \in AfterConfig =>
            /\ config = read_config(disk[SYSTEM_CNF]) /\ config # None
            /\ DOMAIN files \subseteq Fingerprinted(config.boot_path) \cap directory
            /\ \A name \in DOMAIN files : files[name] = fingerprint(<<disk[name]>>)
       /\ pc = "files" => DOMAIN files # Fingerprinted(config.boot_path)
       /\ pc \in {"compare", "exit_0"} => DOMAIN files = Fingerprinted(config.boot_path)
       /\ pc = "exit_2" =>
            \/ Inspection(disk) = None
               /\ (command = "verify" => validate_manifest(manifest)
                                         /\ differences(manifest.disc, fingerprint(disc)) = {}
                                         /\ Len(disc) = Len(ImageOrder))
            \/ command = "verify" /\ ~ validate_manifest(manifest)

Inv == Shapes /\ Written /\ Hashed /\ Compared /\ Read

-----------------------------------------------------------------------------
(***************************************************************************)
(* Dictionaries.                                                           *)
(***************************************************************************)

\* Dictionaries without a differing key are equal, and equal ones have none.
LEMMA NoDifference ==
  ASSUME NEW f, NEW g, IsMap(f), IsMap(g)
  PROVE  differences(f, g) = {} <=> f = g
<1>1. ASSUME differences(f, g) = {} PROVE f = g
  <2>1. \A key \in DOMAIN f \cup DOMAIN g :
          key \in DOMAIN f \cap DOMAIN g /\ f[key] = g[key]
    BY <1>1, Zenon DEF differences
  <2>2. DOMAIN f = DOMAIN g /\ \A key \in DOMAIN f : f[key] = g[key]
    BY <2>1
  <2>3. f = [x \in DOMAIN f |-> f[x]] /\ g = [x \in DOMAIN g |-> g[x]]
    BY DEF IsMap
  <2>. QED BY ONLY <2>2, <2>3
<1>2. ASSUME f = g PROVE differences(f, g) = {}
  BY <1>2 DEF differences
<1>. QED BY <1>1, <1>2

LEMMA ActualIsMap == IsMap(Actual) /\ Actual.disc = fingerprint(disc) /\ Actual.system = config
                     /\ Actual.files = files /\ Actual.schema_version = 1
                     /\ DOMAIN Actual = {"schema_version", "disc", "system", "files"}
BY DEF Actual, IsMap

LEMMA IdentityIsMap ==
  ASSUME NEW chunks
  PROVE  IsMap(fingerprint(chunks))
BY DEF IsMap, fingerprint

\* The fingerprint of a stream that is not empty is a valid one.
LEMMA IdentityIsValid ==
  ASSUME NEW S, NEW chunks \in Seq(S), 0 < Len(chunks)
  PROVE  validate_identity(fingerprint(chunks))
<1>1. Len(chunks) \in Nat /\ chunks # <<>>
  OBVIOUS
<1>. QED BY <1>1 DEF validate_identity, fingerprint

\* A list of regions as long as the order that agrees with an image is the hash
\* of the image.
LEMMA WholeHash ==
  ASSUME NEW image, disc \in Seq(Values), Len(disc) = Len(ImageOrder),
         \A i \in 1 .. Len(disc) : disc[i] = image[ImageOrder[i]]
  PROVE  disc = DiscOf(image)
<1>1. disc \in [1 .. Len(disc) -> Values]
  BY SeqDef
<1>2. DOMAIN ImageOrder = 1 .. Len(ImageOrder)
  BY DiscAssumption
<1>. QED BY <1>1, <1>2 DEF DiscOf

LEMMA InitInv == Init => Inv
<1> SUFFICES ASSUME Init PROVE Inv
  OBVIOUS
<1>1. Shapes
  BY DiscAssumption DEF Init, Shapes, Image, Regions, BeforeFiles, AfterHash
<1>2. Written
  <2>1. ImageOrder[1] \in Regions
    BY DiscAssumption DEF Regions
  <2>. QED BY <2>1 DEF Init, Written
<1>3. Hashed
  <2>1. disc = <<>> /\ pc \in {"read_manifest", "hash"}
    BY DEF Init
  <2>2. disc \in Seq(Values) /\ Len(disc) = 0
    BY <2>1
  <2>3. Len(ImageOrder) \in Nat /\ 0 < Len(ImageOrder)
    BY DiscAssumption
  <2>4. pc \notin AfterHash
    BY <2>1 DEF AfterHash
  <2>. QED BY <2>1, <2>2, <2>3, <2>4 DEF Hashed
<1>4. Compared
  BY DEF Init, Compared, AfterHash, AfterOpen
<1>5. Read
  BY DEF Init, Read, AfterOpen, AfterConfig, BeforeFiles, IsMap
<1>. QED BY <1>1, <1>2, <1>3, <1>4, <1>5 DEF Inv

-----------------------------------------------------------------------------
(***************************************************************************)
(* The steps of the run.                                                   *)
(***************************************************************************)

\* A step of main touches neither the image nor what was given to the run.
Quiet == UNCHANGED <<disk, command, manifest, first, disturbances>>

LEMMA QuietShapes ==
  ASSUME Shapes, Written, Quiet,
         pc' \in BeforeFiles \cup AfterHash \cup {"exit_2"},
         pc' \in {"read_manifest", "compare_disc", "compare", "exit_1"} => command = "verify"
  PROVE  Shapes' /\ Written'
<1>1. Image(disk)' /\ Image(first)'
  BY DEF Shapes, Quiet, Image
<1>2. Shapes'
  BY <1>1 DEF Shapes, Quiet
<1>3. Written'
  BY DEF Written, Quiet
<1>. QED BY <1>2, <1>3

\* A step that hashes nothing keeps what is known of the hash.
LEMMA QuietHashed ==
  ASSUME Hashed, Quiet, disc' = disc,
         pc' # "read_manifest", pc' # "hash",
         pc' \in AfterHash => pc \in AfterHash
  PROVE  Hashed'
BY DEF Hashed, Quiet

LEMMA ReadManifestInv ==
  ASSUME Inv, ReadManifest
  PROVE  Inv'
<1>1. /\ pc = "read_manifest" /\ Quiet /\ UNCHANGED <<disc, directory, config, files>>
      /\ pc' = IF validate_manifest(manifest) THEN "hash" ELSE "exit_2"
  BY DEF ReadManifest, Step, Quiet, input, report
<1>2. command = "verify"
  BY <1>1 DEF Inv, Shapes
<1>3. Shapes' /\ Written'
  BY <1>1, <1>2, QuietShapes DEF Inv, BeforeFiles, AfterHash
<1>4. Hashed'
  <2>1. disc = <<>> /\ Hashed
    BY <1>1 DEF Inv, Hashed
  <2>2. Len(disc) = 0 /\ 0 < Len(ImageOrder)
    BY <2>1, DiscAssumption
  <2>3. pc' \notin AfterHash /\ pc' # "read_manifest"
    BY <1>1 DEF AfterHash
  <2>4. disc' = disc /\ disk' = disk /\ first' = first /\ disturbances' = disturbances
    BY <1>1 DEF Quiet
  <2>. QED BY <2>1, <2>2, <2>3, <2>4 DEF Hashed
<1>5. Compared'
  <2>1. pc' = "hash" => validate_manifest(manifest)
    BY <1>1
  <2>2. pc' \in {"hash", "exit_2"} /\ manifest' = manifest
    BY <1>1 DEF Quiet
  <2>. QED BY <2>1, <2>2 DEF Compared, AfterHash, AfterOpen
<1>6. Read'
  <2>1. Read /\ pc \in BeforeFiles
    BY <1>1 DEF Inv, BeforeFiles
  <2>2. IsMap(files)' /\ DOMAIN files' = {}
    BY <1>1, <2>1 DEF Read, IsMap
  <2>3. pc' = "exit_2" => ~ validate_manifest(manifest)
    BY <1>1
  <2>4. pc' \in {"hash", "exit_2"} /\ manifest' = manifest /\ command' = "verify"
    BY <1>1, <1>2 DEF Quiet
  <2>. QED BY <2>2, <2>3, <2>4 DEF Read, AfterOpen, AfterConfig
<1>. QED BY <1>3, <1>4, <1>5, <1>6 DEF Inv

\* One more region of the image: with at most one write so far, the list is
\* still that of the image at the start, or that of the image as it is now.
LEMMA HashGrows ==
  ASSUME Shapes, Written, Hashed, disturbances <= 1,
         NEW n \in Nat, n = Len(disc) + 1, n <= Len(ImageOrder),
         NEW longer, longer = Append(disc, disk[ImageOrder[n]])
  PROVE  \/ \A i \in 1 .. n : longer[i] = first[ImageOrder[i]]
         \/ \A i \in 1 .. n : longer[i] = disk[ImageOrder[i]]
<1>1. disc \in Seq(Values) /\ Len(disc) \in Nat /\ Len(ImageOrder) \in Nat
  BY DiscAssumption DEF Hashed
<1>2. \A i \in 1 .. n : i < n => longer[i] = disc[i] /\ i \in 1 .. Len(disc)
  BY <1>1
<1>3. longer[n] = disk[ImageOrder[n]]
  BY <1>1
<1>4. DOMAIN ImageOrder = 1 .. Len(ImageOrder)
      /\ \A i \in 1 .. Len(ImageOrder) : ImageOrder[i] \in Regions
  BY DiscAssumption DEF Regions
<1>5. n \in 1 .. Len(ImageOrder) /\ \A i \in 1 .. n : i \in 1 .. Len(ImageOrder)
  BY <1>1
<1>6. PICK r \in Regions : \A s \in Regions \ {r} : disk[s] = first[s]
  BY DEF Written
<1>7. CASE \A i \in 1 .. Len(disc) : disc[i] = disk[ImageOrder[i]]
  <2>1. ASSUME NEW i \in 1 .. n PROVE longer[i] = disk[ImageOrder[i]]
    <3>1. i = n \/ i < n
      BY <1>1
    <3>. QED BY <1>2, <1>3, <1>7, <3>1
  <2>. QED BY <2>1
<1>8. CASE \A i \in 1 .. Len(disc) : disc[i] = first[ImageOrder[i]]
  <2>1. CASE ImageOrder[n] # r
    <3>1. disk[ImageOrder[n]] = first[ImageOrder[n]]
      BY <1>4, <1>5, <1>6, <2>1
    <3>2. ASSUME NEW i \in 1 .. n PROVE longer[i] = first[ImageOrder[i]]
      <4>1. i = n \/ i < n
        BY <1>1
      <4>. QED BY <1>2, <1>3, <1>8, <3>1, <4>1
    <3>. QED BY <3>2
  <2>2. CASE ImageOrder[n] = r
    <3>1. ASSUME NEW i \in 1 .. n, i < n PROVE disk[ImageOrder[i]] = first[ImageOrder[i]]
      <4>1. i # n
        BY <3>1
      <4>2. ImageOrder[i] # r
        BY <1>4, <1>5, <2>2, <4>1, DiscAssumption
      <4>. QED BY <1>4, <1>5, <1>6, <4>2
    <3>2. ASSUME NEW i \in 1 .. n PROVE longer[i] = disk[ImageOrder[i]]
      <4>1. i = n \/ i < n
        BY <1>1
      <4>. QED BY <1>2, <1>3, <1>8, <3>1, <4>1
    <3>. QED BY <3>2
  <2>. QED BY <2>1, <2>2
<1>. QED BY <1>7, <1>8 DEF Hashed

LEMMA HashChunkInv ==
  ASSUME Inv, HashChunk
  PROVE  Inv'
<1>. DEFINE n == Len(disc) + 1
<1>1. /\ pc = "hash" /\ Quiet /\ UNCHANGED <<directory, config, files>>
      /\ pc' = IF n < Len(ImageOrder) THEN "hash"
               ELSE IF command = "verify" THEN "compare_disc" ELSE "open"
      /\ disc' = Append(disc, disk[ImageOrder[n]])
  BY DEF HashChunk, Step, Quiet, input
<1>2. /\ disc \in Seq(Values) /\ Len(disc) < Len(ImageOrder) /\ Len(disc) \in Nat
      /\ n \in Nat /\ n <= Len(ImageOrder) /\ Len(ImageOrder) \in Nat /\ n \in 1 .. Len(ImageOrder)
  BY <1>1, DiscAssumption DEF Inv, Hashed
<1>3. Shapes' /\ Written'
  BY <1>1, QuietShapes DEF Inv, BeforeFiles, AfterHash
<1>4. disk[ImageOrder[n]] \in Values
  <2>1. ImageOrder[n] \in Regions
    BY <1>2, DiscAssumption DEF Regions
  <2>2. disk[ImageOrder[n]] \in Contents[ImageOrder[n]]
    BY <2>1 DEF Inv, Shapes, Image
  <2>. QED BY <2>1, <2>2 DEF Values, Regions
<1>5. disc' \in Seq(Values) /\ Len(disc') = n
  BY <1>1, <1>2, <1>4
<1>6. disturbances <= 1 =>
        \/ \A i \in 1 .. n : disc'[i] = first[ImageOrder[i]]
        \/ \A i \in 1 .. n : disc'[i] = disk[ImageOrder[i]]
  BY <1>1, <1>2, HashGrows DEF Inv
<1>. HIDE DEF n
<1>7. Hashed'
  <2>1. disk' = disk /\ first' = first /\ disturbances' = disturbances
    BY <1>1 DEF Quiet
  <2>2. pc' = "hash" => n < Len(ImageOrder)
    BY <1>1
  <2>3. pc' \in AfterHash => n = Len(ImageOrder)
    BY <1>1, <1>2 DEF AfterHash
  <2>4. pc' # "read_manifest"
    BY <1>1
  <2>. QED BY <1>2, <1>5, <1>6, <2>1, <2>2, <2>3, <2>4 DEF Hashed
<1>8. Compared'
  <2>1. manifest' = manifest /\ command' = command
        /\ pc' \in {"hash", "compare_disc", "open"}
        /\ (command = "verify" => pc' # "open")
    BY <1>1 DEF Quiet
  <2>2. command = "verify" => validate_manifest(manifest)
    BY <1>1 DEF Inv, Compared
  <2>. QED BY <2>1, <2>2 DEF Compared, AfterOpen
<1>9. Read'
  <2>1. pc' \in {"hash", "compare_disc", "open"} /\ files' = files
    BY <1>1
  <2>2. IsMap(files)' /\ DOMAIN files' = {}
    BY <1>1, <2>1 DEF Inv, Read, BeforeFiles, IsMap
  <2>. QED BY <2>1, <2>2 DEF Read, AfterOpen, AfterConfig
<1>. QED BY <1>3, <1>7, <1>8, <1>9 DEF Inv

LEMMA CompareDiscInv ==
  ASSUME Inv, CompareDisc
  PROVE  Inv'
<1>1. /\ pc = "compare_disc" /\ Quiet /\ UNCHANGED <<disc, directory, config, files>>
      /\ pc' = IF differences(manifest.disc, fingerprint(disc)) = {} THEN "open" ELSE "exit_1"
  BY DEF CompareDisc, Step, Quiet, input, report
<1>2. command = "verify" /\ validate_manifest(manifest) /\ Len(disc) = Len(ImageOrder)
  BY <1>1 DEF Inv, Shapes, Compared, Hashed, AfterHash
<1>3. Shapes' /\ Written'
  BY <1>1, <1>2, QuietShapes DEF Inv, BeforeFiles, AfterHash
<1>4. Hashed'
  BY <1>1, QuietHashed DEF Inv, AfterHash
<1>5. Compared'
  <2>1. manifest' = manifest /\ disc' = disc /\ pc' \in {"open", "exit_1"}
        /\ (pc' = "open" => differences(manifest.disc, fingerprint(disc)) = {})
        /\ (pc' = "exit_1" => differences(manifest.disc, fingerprint(disc)) # {})
    BY <1>1 DEF Quiet
  <2>. QED BY <1>2, <2>1 DEF Compared, AfterOpen
<1>6. Read'
  <2>1. pc' \in {"open", "exit_1"} /\ files' = files
    BY <1>1
  <2>2. IsMap(files)' /\ DOMAIN files' = {}
    BY <1>1, <2>1 DEF Inv, Read, BeforeFiles, IsMap
  <2>. QED BY <2>1, <2>2 DEF Read, AfterOpen, AfterConfig
<1>. QED BY <1>3, <1>4, <1>5, <1>6 DEF Inv

\* What stops an undisturbed run stops an inspection.
LEMMA NoInspection ==
  ASSUME NEW view,
         \/ read_config(view[SYSTEM_CNF]) = None
         \/ \E name \in Fingerprinted(read_config(view[SYSTEM_CNF]).boot_path) :
              name \notin view["directory"]
  PROVE  Inspection(view) = None
BY Zenon DEF Inspection

LEMMA ConfigIsFingerprinted ==
  ASSUME NEW boot
  PROVE  SYSTEM_CNF \in Fingerprinted(boot)
BY DEF Fingerprinted

\* The manifest found to have the hash of the disc stays so while files are read.
LEMMA StaysCompared ==
  ASSUME Compared, Quiet, disc' = disc, pc \in {"open", "config", "files"},
         pc' \in {"config", "files", "compare", "exit_2"} \/ (pc' = "exit_0" /\ command = "inspect")
  PROVE  Compared'
<1>1. command = "verify" =>
        validate_manifest(manifest) /\ differences(manifest.disc, fingerprint(disc)) = {}
  BY DEF Compared, AfterHash, AfterOpen
<1>2. manifest' = manifest /\ disc' = disc /\ command' = command
  BY DEF Quiet
<1>3. command' = "verify" => pc' \notin {"exit_0", "exit_1"}
  BY <1>2
<1>. QED BY <1>1, <1>2, <1>3 DEF Compared

\* An error while the files are read: the run owes one.
LEMMA ErrorOwed ==
  ASSUME Hashed, Compared, pc \in {"open", "config", "files"}, Inspection(disk) = None
  PROVE  /\ Inspection(disk) = None
         /\ command = "verify" => /\ validate_manifest(manifest)
                                  /\ differences(manifest.disc, fingerprint(disc)) = {}
                                  /\ Len(disc) = Len(ImageOrder)
BY DEF Hashed, Compared, AfterHash, AfterOpen

LEMMA OpenIsoInv ==
  ASSUME Inv, OpenIso
  PROVE  Inv'
<1>1. /\ pc = "open" /\ Quiet /\ UNCHANGED <<disc, config, files>>
      /\ pc' = IF disk["directory"] # {} THEN "config" ELSE "exit_2"
      /\ directory' = disk["directory"]
  BY DEF OpenIso, Step, Quiet, input
<1>2. Shapes' /\ Written'
  BY <1>1, QuietShapes DEF Inv, BeforeFiles, AfterHash
<1>3. Hashed'
  BY <1>1, QuietHashed DEF Inv, AfterHash
<1>4. Compared'
  BY <1>1, StaysCompared DEF Inv
<1>5. Read'
  <2>1. pc' \in {"config", "exit_2"} /\ files' = files
    BY <1>1
  <2>2. IsMap(files)' /\ DOMAIN files' = {}
    BY <1>1, <2>1 DEF Inv, Read, BeforeFiles, IsMap
  <2>3. ASSUME pc' = "exit_2"
        PROVE  /\ Inspection(disk) = None
               /\ command = "verify" => /\ validate_manifest(manifest)
                                        /\ differences(manifest.disc, fingerprint(disc)) = {}
                                        /\ Len(disc) = Len(ImageOrder)
    <3>1. SYSTEM_CNF \notin disk["directory"]
      BY <1>1, <2>3
    <3>2. Inspection(disk) = None
      BY <3>1, NoInspection, ConfigIsFingerprinted
    <3>. QED BY <1>1, <3>2, ErrorOwed DEF Inv
  <2>4. /\ disk' = disk /\ command' = command /\ manifest' = manifest /\ disc' = disc
        /\ directory' = disk["directory"]
    BY <1>1 DEF Quiet
  <2>. QED BY <2>1, <2>2, <2>3, <2>4 DEF Read, AfterOpen, AfterConfig, BeforeFiles
<1>. QED BY <1>2, <1>3, <1>4, <1>5 DEF Inv

LEMMA ReadConfigInv ==
  ASSUME Inv, ReadConfig
  PROVE  Inv'
<1>. DEFINE read == read_config(disk[SYSTEM_CNF])
<1>1. /\ pc = "config" /\ Quiet /\ UNCHANGED <<disc, directory, files>>
      /\ pc' = IF SYSTEM_CNF \in directory /\ read # None THEN "files" ELSE "exit_2"
      /\ config' = read
  BY Zenon DEF ReadConfig, Step, Quiet, input
<1>. HIDE DEF read
<1>2. Shapes' /\ Written'
  BY <1>1, QuietShapes DEF Inv, BeforeFiles, AfterHash
<1>3. Hashed'
  BY <1>1, QuietHashed DEF Inv, AfterHash
<1>4. Compared'
  BY <1>1, StaysCompared DEF Inv
<1>5. Read'
  <2>1. pc' \in {"files", "exit_2"} /\ files' = files /\ DOMAIN files = {}
    BY <1>1 DEF Inv, Read, BeforeFiles
  <2>2. IsMap(files)' /\ DOMAIN files' = {}
    BY <1>1, <2>1 DEF Inv, Read, IsMap
  <2>3. disturbances = 0 => directory = disk["directory"]
    BY <1>1 DEF Inv, Read, AfterOpen
  <2>4. ASSUME pc' = "exit_2", disturbances = 0
        PROVE  /\ Inspection(disk) = None
               /\ command = "verify" => /\ validate_manifest(manifest)
                                        /\ differences(manifest.disc, fingerprint(disc)) = {}
                                        /\ Len(disc) = Len(ImageOrder)
    <3>1. SYSTEM_CNF \notin disk["directory"] \/ read = None
      BY <1>1, <2>3, <2>4
    <3>2. Inspection(disk) = None
      BY <3>1, NoInspection, ConfigIsFingerprinted DEF read
    <3>. QED BY <1>1, <3>2, ErrorOwed DEF Inv
  <2>5. /\ disk' = disk /\ command' = command /\ manifest' = manifest /\ disc' = disc
        /\ directory' = directory /\ disturbances' = disturbances
    BY <1>1 DEF Quiet
  <2>6. pc' = "files" => /\ config' = read_config(disk[SYSTEM_CNF]) /\ config' # None
    BY <1>1 DEF read
  <2>7. DOMAIN files' # Fingerprinted(config'.boot_path)
    BY <2>2, ConfigIsFingerprinted
  <2>. QED BY <2>1, <2>2, <2>3, <2>4, <2>5, <2>6, <2>7
       DEF Read, AfterOpen, AfterConfig, BeforeFiles
<1>. QED BY <1>2, <1>3, <1>4, <1>5 DEF Inv

\* A fingerprint more.
LEMMA OneMore ==
  ASSUME NEW name, name \notin DOMAIN files, NEW value, NEW read,
         read = [file \in DOMAIN files \cup {name} |->
                   IF file = name THEN value ELSE files[file]]
  PROVE  /\ IsMap(read) /\ DOMAIN read = DOMAIN files \cup {name}
         /\ read[name] = value /\ \A other \in DOMAIN files : read[other] = files[other]
BY DEF IsMap

LEMMA FingerprintFileInv ==
  ASSUME Inv, FingerprintFile
  PROVE  Inv'
<1>. DEFINE wanted == Fingerprinted(config.boot_path)
<1>1. PICK name \in wanted \ DOMAIN files :
        /\ pc = "files" /\ Quiet /\ UNCHANGED <<disc, directory, config>>
        /\ files' = [file \in DOMAIN files \cup {name} |->
                       IF file = name THEN fingerprint(<<disk[name]>>) ELSE files[file]]
        /\ pc' = IF name \in directory
                   THEN IF DOMAIN files' # wanted THEN "files"
                        ELSE IF command = "verify" THEN "compare" ELSE "exit_0"
                   ELSE "exit_2"
  BY Zenon DEF FingerprintFile, Step, Quiet, input
<1>. HIDE DEF wanted
<1>2. /\ IsMap(files') /\ DOMAIN files' = DOMAIN files \cup {name}
      /\ files'[name] = fingerprint(<<disk[name]>>)
      /\ \A other \in DOMAIN files : files'[other] = files[other]
  BY <1>1, OneMore
<1>3. Shapes' /\ Written'
  <2>1. pc' \in {"files", "compare", "exit_0", "exit_2"} /\ (pc' = "compare" => command = "verify")
    BY <1>1
  <2>. QED BY <1>1, <2>1, QuietShapes DEF Inv, BeforeFiles, AfterHash
<1>4. Hashed'
  BY <1>1, QuietHashed DEF Inv, AfterHash
<1>5. Compared'
  <2>1. command \in {"inspect", "verify"}
    BY DEF Inv, Shapes
  <2>2. \/ pc' \in {"config", "files", "compare", "exit_2"}
        \/ pc' = "exit_0" /\ command = "inspect"
    BY <1>1, <2>1
  <2>. QED BY <1>1, <2>2, StaysCompared DEF Inv
<1>6. Read'
  <2>1. pc' \in {"files", "compare", "exit_0", "exit_2"} /\ IsMap(files)'
    BY <1>1, <1>2
  <2>2. disturbances = 0 =>
          /\ directory = disk["directory"]
          /\ config = read_config(disk[SYSTEM_CNF]) /\ config # None
          /\ DOMAIN files \subseteq wanted \cap directory
          /\ \A other \in DOMAIN files : files[other] = fingerprint(<<disk[other]>>)
    BY <1>1 DEF Inv, Read, AfterOpen, AfterConfig, wanted
  <2>3. ASSUME pc' = "exit_2", disturbances = 0
        PROVE  /\ Inspection(disk) = None
               /\ command = "verify" => /\ validate_manifest(manifest)
                                        /\ differences(manifest.disc, fingerprint(disc)) = {}
                                        /\ Len(disc) = Len(ImageOrder)
    <3>1. name \in Fingerprinted(read_config(disk[SYSTEM_CNF]).boot_path)
          /\ name \notin disk["directory"]
      <4>1. name \in Fingerprinted(config.boot_path)
        BY <1>1 DEF wanted
      <4>. QED BY <1>1, <2>2, <2>3, <4>1
    <3>2. Inspection(disk) = None
      BY <3>1, NoInspection
    <3>. QED BY <1>1, <3>2, ErrorOwed DEF Inv
  <2>4. /\ disk' = disk /\ command' = command /\ manifest' = manifest /\ disc' = disc
        /\ directory' = directory /\ config' = config /\ disturbances' = disturbances
    BY <1>1 DEF Quiet
  <2>5. Fingerprinted(config.boot_path)' = wanted
    BY <2>4 DEF wanted, Fingerprinted
  <2>6. ASSUME pc' \in AfterConfig, disturbances = 0
        PROVE  /\ DOMAIN files' \subseteq wanted \cap directory
               /\ \A other \in DOMAIN files' : files'[other] = fingerprint(<<disk[other]>>)
    <3>1. name \in wanted /\ name \in directory
      BY <1>1, <2>6 DEF AfterConfig
    <3>. QED BY <1>2, <2>2, <2>6, <3>1
  <2>7. /\ pc' = "files" => DOMAIN files' # wanted
        /\ pc' \in {"compare", "exit_0"} => DOMAIN files' = wanted
    BY <1>1
  <2>. QED BY <2>1, <2>2, <2>3, <2>4, <2>5, <2>6, <2>7
       DEF Read, AfterOpen, AfterConfig, BeforeFiles
<1>. QED BY <1>3, <1>4, <1>5, <1>6 DEF Inv

\* What an undisturbed run has put together at its end is the inspection of the
\* image.
LEMMA InspectedWhole ==
  ASSUME Inv, disturbances = 0, pc \in {"compare", "exit_0"}
  PROVE  Actual = Inspection(disk)
<1>1. disc = DiscOf(disk)
  <2>1. \A i \in 1 .. Len(disc) : disc[i] = disk[ImageOrder[i]]
    BY DEF Inv, Written, Hashed
  <2>2. disc \in Seq(Values) /\ Len(disc) = Len(ImageOrder)
    BY DEF Inv, Hashed, AfterHash
  <2>. QED BY <2>1, <2>2, WholeHash
<1>2. /\ directory = disk["directory"]
      /\ config = read_config(disk[SYSTEM_CNF]) /\ config # None
      /\ DOMAIN files = Fingerprinted(config.boot_path)
      /\ DOMAIN files \subseteq directory
      /\ \A name \in DOMAIN files : files[name] = fingerprint(<<disk[name]>>)
      /\ IsMap(files)
  BY DEF Inv, Read, AfterOpen, AfterConfig
<1>3. files = [name \in Fingerprinted(config.boot_path) |-> fingerprint(<<disk[name]>>)]
  BY <1>2 DEF IsMap
<1>4. Fingerprinted(config.boot_path) \subseteq disk["directory"]
  BY <1>2
<1>. QED BY <1>1, <1>2, <1>3, <1>4 DEF Inspection, Actual, Identity

LEMMA CompareInv ==
  ASSUME Inv, Compare
  PROVE  Inv'
<1>1. /\ pc = "compare" /\ Quiet /\ UNCHANGED <<disc, directory, config, files>>
      /\ pc' = IF differences(manifest, Actual) = {} THEN "exit_0" ELSE "exit_1"
  BY DEF Compare, Step, Quiet, input, report
<1>2. /\ command = "verify" /\ validate_manifest(manifest)
      /\ differences(manifest.disc, fingerprint(disc)) = {}
  BY <1>1 DEF Inv, Shapes, Compared, AfterHash, AfterOpen
<1>3. Shapes' /\ Written'
  BY <1>1, <1>2, QuietShapes DEF Inv, BeforeFiles, AfterHash
<1>4. Hashed'
  BY <1>1, QuietHashed DEF Inv, AfterHash
<1>5. Actual' = Actual /\ disk' = disk /\ manifest' = manifest /\ disc' = disc
      /\ disturbances' = disturbances /\ command' = command
  BY <1>1 DEF Actual, Quiet
<1>6. Compared'
  <2>1. disturbances = 0 => Actual = Inspection(disk)
    BY <1>1, InspectedWhole
  <2>2. /\ pc' \in {"exit_0", "exit_1"}
        /\ pc' = "exit_0" => differences(manifest, Actual) = {}
        /\ pc' = "exit_1" => differences(manifest, Actual) # {}
    BY <1>1
  <2>3. Inspection(disk)' = Inspection(disk)
    BY <1>5
  <2>. QED BY <1>2, <1>5, <2>1, <2>2, <2>3 DEF Compared
<1>7. Read'
  <2>1. pc' \in {"exit_0", "exit_1"} /\ pc = "compare"
    BY <1>1
  <2>2. Read
    BY DEF Inv
  <2>3. files' = files /\ config' = config /\ directory' = directory
    BY <1>1
  <2>. QED BY <1>5, <2>1, <2>2, <2>3 DEF Read, AfterOpen, AfterConfig, BeforeFiles, IsMap
<1>. QED BY <1>3, <1>4, <1>6, <1>7 DEF Inv

-----------------------------------------------------------------------------
(***************************************************************************)
(* The steps of others.                                                    *)
(***************************************************************************)

LEMMA ReadFailsInv ==
  ASSUME Inv, ReadFails
  PROVE  Inv'
<1>1. /\ pc' = "exit_2" /\ disturbances' = disturbances + 1
      /\ UNCHANGED <<disk, command, manifest, first, disc, directory, config, files>>
  BY DEF ReadFails, input, report
<1>2. disturbances \in Nat
  BY DEF Inv, Shapes
<1>3. Shapes'
  BY <1>1, <1>2 DEF Inv, Shapes, Image
<1>4. Written'
  BY <1>1, <1>2 DEF Inv, Written
<1>5. Hashed'
  BY <1>1, <1>2 DEF Inv, Hashed, AfterHash
<1>6. Compared'
  BY <1>1 DEF Compared, AfterHash, AfterOpen
<1>7. Read'
  <2>1. IsMap(files)' /\ disturbances' # 0 /\ pc' \notin BeforeFiles
    BY <1>1, <1>2 DEF Inv, Read, IsMap, BeforeFiles
  <2>. QED BY <2>1 DEF Read
<1>. QED BY <1>3, <1>4, <1>5, <1>6, <1>7 DEF Inv

\* A write changes one region; the regions hashed before it were those of the
\* image at the start if it is the first disturbance.
LEMMA OthersWriteInv ==
  ASSUME Inv, OthersWrite
  PROVE  Inv'
<1>1. /\ disturbances' = disturbances + 1 /\ pc' = pc /\ ~ Finished
      /\ UNCHANGED <<command, manifest, first, disc, directory, config, files>>
  BY DEF OthersWrite, input, report
<1>2. PICK region \in Regions :
        \E content \in Contents[region] : disk' = [disk EXCEPT ![region] = content]
  BY DEF OthersWrite, Regions
<1>3. disturbances \in Nat /\ Image(disk)
  BY DEF Inv, Shapes
<1>4. Image(disk') /\ \A r \in Regions \ {region} : disk'[r] = disk[r]
  BY <1>2, <1>3 DEF Image, IsMap
<1>5. Shapes'
  <2>1. Image(first)' /\ Image(disk)'
    BY <1>1, <1>4 DEF Inv, Shapes, Image
  <2>. QED BY <1>1, <1>3, <2>1 DEF Inv, Shapes
<1>6. disturbances' <= 1 => disk = first
  BY <1>1, <1>3 DEF Inv, Written
<1>7. Written'
  BY <1>1, <1>3, <1>4, <1>6 DEF Written
<1>8. Hashed'
  <2>1. Hashed
    BY DEF Inv
  <2>2. disturbances' <= 1 => \A i \in 1 .. Len(disc) : disc[i] = first[ImageOrder[i]]
    BY <1>1, <1>3, <1>6, <2>1 DEF Hashed
  <2>. QED BY <1>1, <2>1, <2>2 DEF Hashed
<1>9. Compared'
  <2>1. Compared /\ pc' \notin {"exit_0", "exit_1"} /\ pc' = pc
    BY <1>1 DEF Inv, Finished
  <2>. QED BY <1>1, <2>1 DEF Compared
<1>10. Read'
  <2>1. IsMap(files)' /\ disturbances' # 0 /\ (pc' \in BeforeFiles => DOMAIN files' = {})
    BY <1>1, <1>3 DEF Inv, Read, IsMap
  <2>. QED BY <2>1 DEF Read
<1>. QED BY <1>5, <1>7, <1>8, <1>9, <1>10 DEF Inv

LEMMA StutterInv ==
  ASSUME Inv, UNCHANGED vars
  PROVE  Inv'
<1>1. UNCHANGED <<disk, pc, command, manifest, first, disc, directory, config, files,
                  disturbances>>
  BY DEF vars, input, report
<1>2. Shapes' /\ Written'
  BY <1>1 DEF Inv, Shapes, Image, Written
<1>3. Hashed'
  BY <1>1 DEF Inv, Hashed
<1>4. Compared'
  <2>1. Actual' = Actual
    BY <1>1 DEF Actual
  <2>. QED BY <1>1, <2>1 DEF Inv, Compared
<1>5. Read'
  BY <1>1 DEF Inv, Read, IsMap
<1>. QED BY <1>2, <1>3, <1>4, <1>5 DEF Inv

\* The inductive invariant holds in every state.
THEOREM InvariantHolds == Spec => []Inv
<1>1. ASSUME Inv, [Next]_vars PROVE Inv'
  BY <1>1, ReadManifestInv, HashChunkInv, CompareDiscInv, OpenIsoInv, ReadConfigInv,
     FingerprintFileInv, CompareInv, ReadFailsInv, OthersWriteInv, StutterInv DEF Next
<1>. QED BY <1>1, InitInv, PTL DEF Spec

-----------------------------------------------------------------------------
(***************************************************************************)
(* What follows from the invariant.                                        *)
(***************************************************************************)

\* The manifest of a run that got past the hash names the hash that was read.
LEMMA SameDisc ==
  ASSUME Inv, command = "verify", differences(manifest.disc, fingerprint(disc)) = {},
         validate_manifest(manifest)
  PROVE  manifest.disc = fingerprint(disc)
<1>1. IsMap(manifest.disc)
  BY DiscAssumption DEF Inv, Shapes, validate_manifest
<1>. QED BY <1>1, IdentityIsMap, NoDifference

\* With at most one write to the image during a run of verify that passes, the
\* manifest names the image of the start or the image of the end.
THEOREM OneWrite == Spec => []OneWritePassSawPinned
<1>1. Inv => OneWritePassSawPinned
  <2>. SUFFICES ASSUME Inv, pc = "exit_0", command = "verify", disturbances <= 1
                PROVE  manifest.disc \in {Identity(first), Identity(disk)}
    BY DEF OneWritePassSawPinned
  <2>1. manifest.disc = fingerprint(disc)
    <3>1. validate_manifest(manifest) /\ differences(manifest.disc, fingerprint(disc)) = {}
      BY DEF Inv, Compared, AfterHash, AfterOpen
    <3>. QED BY <3>1, SameDisc
  <2>2. disc \in Seq(Values) /\ Len(disc) = Len(ImageOrder)
    BY DEF Inv, Hashed, AfterHash
  <2>3. disc = DiscOf(first) \/ disc = DiscOf(disk)
    BY <2>2, WholeHash DEF Inv, Hashed
  <2>. QED BY <2>1, <2>3 DEF Identity
<1>. QED BY <1>1, InvariantHolds, PTL

\* The hash an undisturbed run has taken is that of the image.
LEMMA HashOfDisk ==
  ASSUME Inv, disturbances = 0, Len(disc) = Len(ImageOrder)
  PROVE  disc = DiscOf(disk)
<1>1. \A i \in 1 .. Len(disc) : disc[i] = disk[ImageOrder[i]]
  BY DEF Inv, Written, Hashed
<1>. QED BY <1>1, WholeHash DEF Inv, Hashed

\* An undisturbed verify passes exactly the manifest of the image, calls a valid
\* other one different, and fails only where it has to.
THEOREM Verdict == Spec => []UndisturbedVerdict
<1>1. Inv => UndisturbedVerdict
  <2>. SUFFICES ASSUME Inv, disturbances = 0, Finished, command = "verify"
                PROVE  IF pc = "exit_0"
                         THEN validate_manifest(manifest) /\ manifest = Inspection(disk)
                       ELSE IF pc = "exit_1"
                         THEN validate_manifest(manifest) /\ manifest # Inspection(disk)
                       ELSE \/ ~ validate_manifest(manifest)
                            \/ manifest.disc = Identity(disk) /\ Inspection(disk) = None
    BY DEF UndisturbedVerdict
  <2>1. IsMap(manifest)
    BY DiscAssumption DEF Inv, Shapes
  <2>2. CASE pc = "exit_0"
    <3>1. validate_manifest(manifest) /\ differences(manifest, Actual) = {}
      BY <2>2 DEF Inv, Compared, AfterHash
    <3>2. Actual = Inspection(disk)
      BY <2>2, InspectedWhole
    <3>3. manifest = Actual
      BY <2>1, <3>1, ActualIsMap, NoDifference
    <3>. QED BY <2>2, <3>1, <3>2, <3>3
  <2>3. CASE pc = "exit_1"
    <3>1. /\ validate_manifest(manifest)
          /\ \/ differences(manifest.disc, fingerprint(disc)) # {}
             \/ differences(manifest, Actual) # {} /\ Actual = Inspection(disk)
      BY <2>3 DEF Inv, Compared, AfterHash
    <3>2. fingerprint(disc) = Identity(disk)
      BY <2>3, HashOfDisk DEF Inv, Hashed, AfterHash, Identity
    <3>3. ASSUME manifest = Inspection(disk) PROVE FALSE
      <4>1. manifest # None
        <5>1. "disc" \in DOMAIN manifest
          BY <3>1 DEF validate_manifest
        <5>. QED BY <5>1 DEF None
      <4>2. manifest.disc = Identity(disk)
        BY <3>3, <4>1 DEF Inspection
      <4>3. differences(fingerprint(disc), fingerprint(disc)) = {}
        BY IdentityIsMap, NoDifference
      <4>4. differences(manifest, manifest) = {}
        BY <2>1, NoDifference
      <4>. QED BY <3>1, <3>2, <3>3, <4>2, <4>3, <4>4
    <3>. QED BY <2>3, <3>1, <3>3
  <2>4. CASE pc = "exit_2"
    <3>1. \/ ~ validate_manifest(manifest)
          \/ /\ Inspection(disk) = None /\ validate_manifest(manifest)
             /\ differences(manifest.disc, fingerprint(disc)) = {} /\ Len(disc) = Len(ImageOrder)
      BY <2>4 DEF Inv, Read
    <3>. QED BY <2>4, <3>1, HashOfDisk, SameDisc DEF Identity
  <2>. QED BY <2>2, <2>3, <2>4 DEF Finished
<1>. QED BY <1>1, InvariantHolds, PTL

\* The fields of a configuration that read_config returns.
LEMMA ConfigFields ==
  ASSUME NEW lines, read_config(lines) # None
  PROVE  \E boot \in BootNames : \E version, mode :
           read_config(lines) = [boot_path |-> boot, serial |-> <<"serial", boot>>,
                                 version |-> version, video_mode |-> mode]
BY Zenon DEF read_config

\* None of four fields is a given value exactly when none of them is.
LEMMA NoFieldIs ==
  ASSUME NEW boot, NEW serial, NEW version, NEW mode, NEW value, NEW fields,
         fields = [boot_path |-> boot, serial |-> serial,
                   version |-> version, video_mode |-> mode]
  PROVE  /\ fields.version = version /\ fields.video_mode = mode /\ fields.boot_path = boot
         /\ (\A key \in DOMAIN fields : fields[key] # value) <=>
              boot # value /\ serial # value /\ version # value /\ mode # value
OBVIOUS

\* What an undisturbed inspect prints is the inspection of the image, a valid
\* manifest unless VER or VMODE is empty; it fails where there is none.
THEOREM Printed == Spec => []InspectionIsManifest
<1>1. Inv => InspectionIsManifest
  <2>. SUFFICES ASSUME Inv, disturbances = 0, command = "inspect", Finished
                PROVE  IF pc = "exit_0"
                         THEN /\ Actual = Inspection(disk)
                              /\ validate_manifest(Actual) <=>
                                   config.version # "" /\ config.video_mode # ""
                         ELSE Inspection(disk) = None
    BY DEF InspectionIsManifest
  <2>1. CASE pc = "exit_0"
    <3>1. Actual = Inspection(disk)
      BY <2>1, InspectedWhole
    <3>2. /\ config = read_config(disk[SYSTEM_CNF]) /\ config # None
          /\ DOMAIN files = Fingerprinted(config.boot_path)
      BY <2>1 DEF Inv, Read, AfterConfig
    <3>3. PICK boot, version, mode :
            /\ boot \in BootNames
            /\ config = [boot_path |-> boot, serial |-> <<"serial", boot>>,
                         version |-> version, video_mode |-> mode]
      BY <3>2, ConfigFields, Zenon
    <3>4. /\ config.version = version /\ config.video_mode = mode /\ config.boot_path = boot
          /\ \A value : (\A key \in DOMAIN config : config[key] # value) <=>
               boot # value /\ <<"serial", boot>> # value /\ version # value /\ mode # value
      BY <3>3, NoFieldIs
    <3>5. boot # "" /\ <<"serial", boot>> # ""
      BY <3>3, BootAssumption, Zenon
    <3>6. (\A key \in DOMAIN config : config[key] # "")
            <=> config.version # "" /\ config.video_mode # ""
      BY ONLY <3>4, <3>5, Zenon
    <3>7. validate_identity(fingerprint(disc))
      <4>1. disc \in Seq(Values) /\ Len(disc) = Len(ImageOrder) /\ 0 < Len(disc)
        BY <2>1, DiscAssumption DEF Inv, Hashed, AfterHash
      <4>. QED BY <4>1, IdentityIsValid
    <3>8. \A name \in DOMAIN files : validate_identity(files[name])
      <4>1. ASSUME NEW name \in DOMAIN files PROVE validate_identity(files[name])
        <5>1. files[name] = fingerprint(<<disk[name]>>)
          BY <2>1 DEF Inv, Read, AfterConfig
        <5>2. <<disk[name]>> \in Seq({disk[name]}) /\ 0 < Len(<<disk[name]>>)
          OBVIOUS
        <5>. QED BY <5>1, <5>2, IdentityIsValid
      <4>. QED BY <4>1
    <3>9. DOMAIN config = {"boot_path", "serial", "version", "video_mode"}
      BY <3>3
    <3>10. validate_manifest(Actual) <=> \A key \in DOMAIN config : config[key] # ""
      <4>1. /\ DOMAIN Actual = {"schema_version", "disc", "system", "files"}
            /\ Actual.schema_version = 1 /\ Actual.system = config /\ Actual.files = files
        BY ActualIsMap
      <4>2. config.boot_path \in BootNames
        BY <3>3, <3>4
      <4>3. Actual.disc = fingerprint(disc)
        BY ActualIsMap
      <4>. QED BY ONLY <3>2, <3>7, <3>8, <3>9, <4>1, <4>2, <4>3, Zenon DEF validate_manifest
    <3>. QED BY ONLY <2>1, <3>1, <3>6, <3>10, Zenon
  <2>2. CASE pc = "exit_1"
    BY <2>2 DEF Inv, Shapes
  <2>3. CASE pc = "exit_2"
    BY <2>3 DEF Inv, Read
  <2>. QED BY <2>1, <2>2, <2>3, Zenon DEF Finished
<1>. QED BY <1>1, InvariantHolds, PTL
=============================================================================
