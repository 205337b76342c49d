---------------------------- MODULE MCDiscCheck ----------------------------
(***************************************************************************)
(* Images that differ from a good one in one region: the directory, the    *)
(* lines of SYSTEM.CNF, CORE, the boot file or the rest.  Manifests made   *)
(* from two of them, ones that mix two images, and invalid ones: for every *)
(* check of validate_manifest and validate_identity one that fails it.     *)
(***************************************************************************)
EXTENDS DiscCheck, TLC

A == "/SCUS_973.28;1"
B == "/SCES_517.19;1"
MCBootNames == {A, B}
MCBootPath(value) == IF value \in MCBootNames THEN value ELSE "unsupported"
MCImageOrder == <<"directory", SYSTEM_CNF, CORE_GT4, A, B, "rest">>

Boot(value) == <<"BOOT2", value>>
Version(value) == <<"VER", value>>
Mode == <<"VMODE", "NTSC">>
GoodConfig == <<Boot(A), Version("2.00"), Mode>>

MCConfigs ==
  {GoodConfig, <<<<>>>> \o GoodConfig, <<Version("2.00"), Mode, <<>>, Boot(B)>>,
   <<Boot(A), Version("2.00")>>, GoodConfig \o <<Version("1.00")>>,
   GoodConfig \o <<<<"junk">>>>, <<Boot("host"), Version("2.00"), Mode>>,
   <<Boot(A), Version(""), Mode>>, GoodConfig \o <<<<>>, <<>>>>}

MCContents ==
  "directory" :> {{}, {SYSTEM_CNF, A}, {SYSTEM_CNF, CORE_GT4, A}} @@ SYSTEM_CNF :> MCConfigs
  @@ CORE_GT4 :> {"core", "patched"} @@ A :> {"boot", "patched"} @@ B :> {"other"}
  @@ "rest" :> {"rest", "changed"}

GoodDisc ==
  "directory" :> {SYSTEM_CNF, CORE_GT4, A} @@ SYSTEM_CNF :> GoodConfig
  @@ CORE_GT4 :> "core" @@ A :> "boot" @@ B :> "other" @@ "rest" :> "rest"
With(region, content) ==
  [r \in DOMAIN MCContents |-> IF r = region THEN content ELSE GoodDisc[r]]
MCDiscs ==
  UNION {{With(region, content) : content \in MCContents[region]} : region \in DOMAIN MCContents}

Good == Inspection(GoodDisc)

\* Manifests that read like one, of another image or of none.
Different ==
  {Inspection(With(CORE_GT4, "patched")), Inspection(With("rest", "changed")),
   [Good EXCEPT !.files[CORE_GT4] = fingerprint(<<"patched">>)],
   [Good EXCEPT !.files[CORE_GT4].size_bytes = 0],
   [Good EXCEPT !.disc.size_bytes = 0],
   [Good EXCEPT !.system.serial = <<"serial", B>>],
   [Good EXCEPT !.disc = Identity(With("directory", {}))],
   [Good EXCEPT !.disc = Identity(With(SYSTEM_CNF, GoodConfig \o <<<<"junk">>>>))]}

WithoutKey(object, key) == [k \in DOMAIN object \ {key} |-> object[k]]

\* Identities that validate_identity refuses.
BadIdentities ==
  {None, WithoutKey(Good.disc, "sha256"), Good.disc @@ "note" :> "text",
   [Good.disc EXCEPT !.size_bytes = -1], [Good.disc EXCEPT !.sha256 = <<>>]}

BadSystems ==
  {None, WithoutKey(Good.system, "serial"), Good.system @@ "note" :> "text",
   [Good.system EXCEPT !.version = ""], [Good.system EXCEPT !.boot_path = "host"]}

Invalid ==
  {None, WithoutKey(Good, "files"), Good @@ "note" :> "text",
   [Good EXCEPT !.schema_version = 999],
   [Good EXCEPT !.files = WithoutKey(Good.files, CORE_GT4)],
   [Good EXCEPT !.files[A] = None], [Good EXCEPT !.files[A].size_bytes = -1]}
  \cup {[Good EXCEPT !.disc = identity] : identity \in BadIdentities}
  \cup {[Good EXCEPT !.system = system] : system \in BadSystems}

MCManifests == {Good} \cup Different \cup Invalid
=============================================================================
