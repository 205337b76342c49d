----------------------------- MODULE DiscCheck -----------------------------
(***************************************************************************)
(* One run of scripts/gt4disc.py, `inspect' or `verify', on an image that  *)
(* others may write to.  The image is read twice: once as bytes, for the   *)
(* hash of the disc, and again through pycdlib, for the files in it.       *)
(*                                                                         *)
(* An image is a function from its regions to their contents; the region   *)
(* "directory" holds the set of the names in it ({}: no ISO file system),  *)
(* the other regions are the files and the "rest".  Sizes are counted in   *)
(* regions; SHA-256 is injective, so a digest is the list of the regions   *)
(* hashed.                                                                 *)
(* A line of SYSTEM.CNF is <<>> (blank), <<text>> (no separator) or        *)
(* <<key, value>>, already stripped.                                       *)
(*                                                                         *)
(* In a manifest, anything that is no object is None, a size that is no    *)
(* integer or below 0 is -1, a text that is no digest is <<>>, and a       *)
(* system value that is no string is "".                                   *)
(***************************************************************************)
EXTENDS Integers, Sequences

CONSTANTS
  BootNames,        \* names of the accepted form /AAAA_000.00;1
  BootPath(_),      \* value of BOOT2 -> such a name, or "unsupported"
  ConfigLimit,      \* 4096 bytes, here lines
  ImageOrder,       \* the regions, in the order of the image
  Contents,         \* region -> what may be in it
  Discs, Manifests, \* images and manifests to begin with
  MaxDisturbances   \* bound on the writes of others and the failing reads

\* A dictionary, or a list.
IsMap(f) == f = [x \in DOMAIN f |-> f[x]]

\* An image has every region once.
ASSUME DiscAssumption ==
  /\ ImageOrder \in Seq(DOMAIN Contents) /\ 0 < Len(ImageOrder)
  /\ \A i, j \in DOMAIN ImageOrder : ImageOrder[i] = ImageOrder[j] => i = j
  /\ \A image \in Discs :
       /\ IsMap(image) /\ DOMAIN image = DOMAIN Contents
       /\ \A region \in DOMAIN Contents : image[region] \in Contents[region]
  /\ \A value \in Manifests :
       IsMap(value) /\ ("disc" \in DOMAIN value => IsMap(value.disc))

\* An accepted name and the serial in it are no empty strings.
ASSUME BootAssumption == \A boot \in BootNames : "" \notin {boot, <<"serial", boot>>}

VARIABLES
  disk,          \* the image at the path
  command, manifest,
  pc,            \* the next step of main, or the exit status
  disc,          \* regions of the image hashed so far
  directory,     \* as iso.open read it
  config,        \* result of read_config
  files,         \* file name -> fingerprint
  first,         \* the image at the start (history)
  disturbances   \* writes by others and failed reads (history)

report == <<disc, directory, config, files>>
input == <<command, manifest, first>>
vars == <<disk, pc, report, input, disturbances>>

None == <<>>
SYSTEM_CNF == "/SYSTEM.CNF;1"
CORE_GT4 == "/CORE.GT4;1"

-----------------------------------------------------------------------------
Needed == {"BOOT2", "VER", "VMODE"}

\* The fields of SYSTEM.CNF; None for every ValueError.
read_config(lines) ==
  LET fields == SelectSeq(lines, LAMBDA line : line # <<>>)
      value(key) == fields[CHOOSE i \in DOMAIN fields : fields[i][1] = key][2]
      boot == BootPath(value("BOOT2"))
      wellFormed == /\ \A i \in DOMAIN fields : Len(fields[i]) = 2
                    /\ \A i, j \in DOMAIN fields : fields[i][1] = fields[j][1] => i = j
                    /\ Needed \subseteq {fields[i][1] : i \in DOMAIN fields} IN
  IF Len(lines) <= ConfigLimit /\ wellFormed /\ boot \in BootNames
    THEN [boot_path |-> boot, serial |-> <<"serial", boot>>,
          version |-> value("VER"), video_mode |-> value("VMODE")]
    ELSE None

\* The files whose fingerprints are taken.
Fingerprinted(boot) == {SYSTEM_CNF, CORE_GT4, boot}

\* Size and hash of what a stream gives, chunk after chunk.
fingerprint(chunks) == [size_bytes |-> Len(chunks), sha256 |-> chunks]

\* Mutant: the size is compared with 1, not 0.
validate_identity_above_one(value) ==
  /\ DOMAIN value = {"size_bytes", "sha256"}
  /\ 1 < value.size_bytes
  /\ value.sha256 # <<>>

validate_identity(value) ==
  /\ DOMAIN value = {"size_bytes", "sha256"}
  /\ 0 <= value.size_bytes
  /\ value.sha256 # <<>>

validate_manifest(value) ==
  /\ DOMAIN value = {"schema_version", "disc", "system", "files"}
  /\ value.schema_version = 1
  /\ validate_identity(value.disc)
  /\ DOMAIN value.system = {"boot_path", "serial", "version", "video_mode"}
  /\ \A key \in DOMAIN value.system : value.system[key] # ""
  /\ value.system.boot_path \in BootNames
  /\ DOMAIN value.files = Fingerprinted(value.system.boot_path)
  /\ \A name \in DOMAIN value.files : validate_identity(value.files[name])

\* Mutant: values are not compared, only the keys.
differences_of_keys(expected, actual) ==
  {key \in DOMAIN expected \cup DOMAIN actual : key \notin DOMAIN expected \cap DOMAIN actual}

\* Keys whose values differ, or that one side lacks.
differences(expected, actual) ==
  {key \in DOMAIN expected \cup DOMAIN actual :
     ~ (key \in DOMAIN expected \cap DOMAIN actual /\ expected[key] = actual[key])}

-----------------------------------------------------------------------------
Init ==
  /\ disk \in Discs /\ first = disk
  /\ command \in {"inspect", "verify"}
  /\ manifest \in IF command = "verify" THEN Manifests ELSE {None}
  /\ pc = IF command = "verify" THEN "read_manifest" ELSE "hash"
  /\ disc = <<>> /\ directory = {} /\ config = None /\ files = <<>>
  /\ disturbances = 0

\* One step of main, to `next', or to the handler that returns 2.
Step(at, ok, next) ==
  /\ pc = at /\ pc' = IF ok THEN next ELSE "exit_2"
  /\ UNCHANGED <<disk, input, disturbances>>

ReadManifest ==
  /\ Step("read_manifest", validate_manifest(manifest), "hash")
  /\ UNCHANGED report

\* Mutant: only the first chunk is hashed.
HashChunkOnce ==
  /\ Step("hash", TRUE, IF command = "verify" THEN "compare_disc" ELSE "open")
  /\ disc' = <<disk[ImageOrder[1]]>>
  /\ UNCHANGED <<directory, config, files>>

\* fingerprint of the image: one chunk after the other.
HashChunk ==
  LET region == ImageOrder[Len(disc) + 1] IN
  /\ Step("hash", TRUE, IF Len(disc) + 1 < Len(ImageOrder) THEN "hash"
                        ELSE IF command = "verify" THEN "compare_disc" ELSE "open")
  /\ disc' = Append(disc, disk[region])
  /\ UNCHANGED <<directory, config, files>>

\* Only an image whose hash matches is opened.
CompareDisc ==
  /\ Step("compare_disc", TRUE,
          IF differences(manifest.disc, fingerprint(disc)) = {} THEN "open" ELSE "exit_1")
  /\ UNCHANGED report

OpenIso ==
  /\ Step("open", disk["directory"] # {}, "config")
  /\ directory' = disk["directory"]
  /\ UNCHANGED <<disc, config, files>>

ReadConfig ==
  LET read == read_config(disk[SYSTEM_CNF]) IN
  /\ Step("config", SYSTEM_CNF \in directory /\ read # None, "files")
  /\ config' = read
  /\ UNCHANGED <<disc, directory, files>>

\* fingerprint of one file; sorted() orders them by a name the disc chooses.
FingerprintFile ==
  pc = "files" /\ \E name \in Fingerprinted(config.boot_path) \ DOMAIN files :
    LET read == [file \in DOMAIN files \cup {name} |->
                   IF file = name THEN fingerprint(<<disk[name]>>) ELSE files[file]] IN
    /\ Step("files", name \in directory,
            IF DOMAIN read # Fingerprinted(config.boot_path) THEN "files"
            ELSE IF command = "verify" THEN "compare" ELSE "exit_0")
    /\ files' = read
    /\ UNCHANGED <<disc, directory, config>>

\* What inspect prints and verify compares.
Actual ==
  [schema_version |-> 1, disc |-> fingerprint(disc), system |-> config, files |-> files]

Compare ==
  /\ Step("compare", TRUE, IF differences(manifest, Actual) = {} THEN "exit_0" ELSE "exit_1")
  /\ UNCHANGED report

Finished == pc \in {"exit_0", "exit_1", "exit_2"}

\* OSError or PyCdlibException from a read.
ReadFails ==
  /\ ~ Finished /\ pc \notin {"compare_disc", "compare"}
  /\ disturbances < MaxDisturbances /\ disturbances' = disturbances + 1
  /\ pc' = "exit_2"
  /\ UNCHANGED <<disk, report, input>>

\* Another process writes to one region of the image.
OthersWrite ==
  /\ ~ Finished /\ disturbances < MaxDisturbances /\ disturbances' = disturbances + 1
  /\ \E region \in DOMAIN Contents : \E content \in Contents[region] \ {disk[region]} :
       disk' = [disk EXCEPT ![region] = content]
  /\ UNCHANGED <<pc, report, input>>

Next ==
  \/ ReadManifest \/ HashChunk \/ CompareDisc \/ OpenIso \/ ReadConfig
  \/ FingerprintFile \/ Compare
  \/ ReadFails \/ OthersWrite
  \/ Finished /\ UNCHANGED vars

Spec == Init /\ [][Next]_vars

-----------------------------------------------------------------------------
DiscOf(image) == [i \in DOMAIN ImageOrder |-> image[ImageOrder[i]]]
Identity(image) == fingerprint(DiscOf(image))

\* What is said of an image at one time; None where an inspection is an error.
Inspection(image) ==
  LET system == read_config(image[SYSTEM_CNF]) IN
  IF system # None /\ Fingerprinted(system.boot_path) \subseteq image["directory"]
    THEN [schema_version |-> 1, disc |-> Identity(image), system |-> system,
          files |-> [name \in Fingerprinted(system.boot_path) |-> fingerprint(<<image[name]>>)]]
    ELSE None

\* The status an undisturbed verify owes: 0 exactly for the manifest of this
\* image, 1 for a valid one that differs, and an error only when the manifest is
\* invalid or its disc is this image and cannot be inspected.
UndisturbedVerdict ==
  disturbances = 0 /\ Finished /\ command = "verify" =>
    IF pc = "exit_0" THEN validate_manifest(manifest) /\ manifest = Inspection(disk)
    ELSE IF pc = "exit_1" THEN validate_manifest(manifest) /\ manifest # Inspection(disk)
    ELSE ~ validate_manifest(manifest)
         \/ (manifest.disc = Identity(disk) /\ Inspection(disk) = None)

\* "Print observed metadata": what inspect prints of an undisturbed image is a
\* manifest that verify accepts for it, unless VER or VMODE is empty - which
\* read_config allows and validate_manifest does not.
InspectionIsManifest ==
  disturbances = 0 /\ command = "inspect" /\ Finished =>
    IF pc = "exit_0"
      THEN Actual = Inspection(disk)
           /\ (validate_manifest(Actual) <=> config.version # "" /\ config.video_mode # "")
      ELSE Inspection(disk) = None

\* A PASS although the image was written to between, or during, the two passes
\* over it: with one write, the image the manifest was made from was at the path
\* when the run began or is there when it ends.  (Two writes are enough to pass
\* with an image that never was at the path.)
OneWritePassSawPinned ==
  pc = "exit_0" /\ command = "verify" /\ disturbances <= 1 =>
    manifest.disc \in {Identity(first), Identity(disk)}
=============================================================================
