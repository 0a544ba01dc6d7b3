---------------------------- MODULE VerifyBuild ----------------------------
(***************************************************************************)
(* The two verifiers of soroban-reproducible-build.  scripts/verify.sh     *)
(* replays the build a contract's own metadata records;                    *)
(* scripts/check-deployed-hash.mjs compares the network with the last      *)
(* local build.  A hash stands for what it is the hash of.  The contract   *)
(* may be upgraded between two questions about it.                         *)
(***************************************************************************)
EXTENDS Naturals

CONSTANTS
  Sources,  \* source archives, by their contents
  Images,   \* build images
  Allowed,  \* those on the allowlist: what they build comes from what they are given
  Absent,   \* no value
  NoWasm    \* no contract, or one without a Wasm

\* Metadata as sep58-fields.mjs reads it: none, malformed, or its fields.
Fields == [form : {"fields"}, bldimg : Images \cup {Absent}, source : Sources \cup {Absent}]
NoFields == [form |-> "none", bldimg |-> Absent, source |-> Absent]
Metas == {NoFields, [NoFields EXCEPT !.form = "malformed"]} \cup Fields
\* A Wasm is what it was built from and in; its metadata may say otherwise.
Wasms == [source : Sources, image : Images, meta : Metas]

VARIABLES
  contract,  \* what the network holds under the contract's id
  tool,      \* verify or check, once one is started
  anyImage,  \* --any-image
  step,      \* the tool's next question
  meta,      \* the metadata read
  deployed,  \* the Wasm fetched
  archive,   \* the archive at hand and how its name ends
  rebuilt,   \* the rebuild; for check, the last local one
  exit       \* the exit code

vars == <<contract, tool, anyImage, step, meta, deployed, archive, rebuilt, exit>>

Running == 99
Verified == 0
NoArchive == [content |-> Absent, name |-> "none"]

Init ==
  /\ contract = NoWasm /\ tool = "none" /\ anyImage = FALSE /\ step = "start"
  /\ meta = NoFields /\ deployed = NoWasm /\ archive = NoArchive /\ rebuilt = NoWasm
  /\ exit = Running

At(t, s) == tool = t /\ step = s /\ exit = Running
Keep == UNCHANGED <<contract, tool, anyImage>>
Goes(next) == step' = next /\ UNCHANGED exit
Fails(code) == exit' = code /\ UNCHANGED step

-----------------------------------------------------------------------------
Deploy ==
  /\ step = "start" /\ contract = NoWasm /\ contract' \in Wasms
  /\ UNCHANGED <<tool, anyImage, step, meta, deployed, archive, rebuilt, exit>>

\* An upgrade after the metadata was read, or the instance; testnet may also be reset.
Upgrade ==
  /\ step \in {"allow", "fetch", "code"} /\ contract' \in Wasms \cup {NoWasm}
  /\ UNCHANGED <<tool, anyImage, step, meta, deployed, archive, rebuilt, exit>>

Verify ==
  /\ step = "start" /\ tool' = "verify" /\ step' = "meta" /\ anyImage' \in BOOLEAN
  /\ UNCHANGED <<contract, meta, deployed, archive, rebuilt, exit>>

InfoMeta ==
  /\ At("verify", "meta") /\ Keep /\ UNCHANGED <<deployed, archive, rebuilt>>
  /\ meta' = IF contract = NoWasm THEN meta ELSE contract.meta
  /\ CASE contract = NoWasm                       -> Fails(1)
       [] meta'.form = "malformed"                -> Fails(4)
       [] Absent \in {meta'.bldimg, meta'.source} -> Fails(3)
       [] OTHER                                   -> Goes("allow")

\* Fault: nobody looks at the image.
AllowedAny == TRUE

ImageAllowed == anyImage \/ meta.bldimg \in Allowed

Allow ==
  /\ At("verify", "allow") /\ Keep /\ UNCHANGED <<meta, deployed, archive, rebuilt>>
  /\ IF ImageAllowed THEN Goes("fetch") ELSE Fails(5)

Fetch ==
  /\ At("verify", "fetch") /\ Keep /\ UNCHANGED <<meta, archive, rebuilt>>
  /\ deployed' = contract
  /\ IF contract = NoWasm THEN Fails(1) ELSE Goes("source")

\* Supplied by hand; downloaded, to a name without an ending; or found under
\* sources/ by its hash.
SourceArchive ==
  /\ At("verify", "source") /\ Keep /\ UNCHANGED <<meta, deployed, rebuilt>>
  /\ \/ archive' \in [content : Sources, name : {"tar", "other"}] /\ Goes("hash")
     \/ archive' \in [content : Sources, name : {"source-archive"}] /\ Goes("hash")
     \/ archive' \in [content : {meta.source}, name : {"tar", "zip"}] /\ Goes("hash")
     \/ UNCHANGED archive /\ Fails(6)

\* The hash, the ending, the unpacking and its one top-level directory.
Unpack ==
  /\ At("verify", "hash") /\ Keep /\ UNCHANGED <<meta, deployed, archive, rebuilt>>
  /\ CASE archive.content # meta.source -> Fails(7)
       [] archive.name # "tar"          -> Fails(6)
       [] OTHER -> Goes("rebuild") \/ Fails(7) \/ Fails(1)

\* What an image makes of a source; one off the allowlist may make anything.
Builds(source, image, m) ==
  IF image \in Allowed THEN {[source |-> source, image |-> image, meta |-> m]} ELSE Wasms

Recipe == meta

Rebuild ==
  /\ At("verify", "rebuild") /\ Keep /\ UNCHANGED <<meta, deployed, archive>>
  /\ \/ rebuilt' \in Builds(archive.content, meta.bldimg, Recipe) /\ Goes("compare")
     \/ UNCHANGED rebuilt /\ Fails(8)  \* no Wasm, or not exactly one

Compare ==
  /\ At("verify", "compare") /\ Keep /\ UNCHANGED <<meta, deployed, archive, rebuilt>>
  /\ IF rebuilt = deployed THEN Fails(Verified) ELSE Fails(9)

-----------------------------------------------------------------------------
\* check-deployed-hash.mjs, after scripts/build.sh: the instance names a hash,
\* the code is fetched by that hash, and deployment.json recorded one.
Check ==
  /\ step = "start" /\ tool' = "check" /\ step' = "instance"
  /\ rebuilt' \in [source : Sources, image : Allowed, meta : Fields]
  /\ UNCHANGED <<contract, anyImage, meta, deployed, archive, exit>>

Instance ==
  /\ At("check", "instance") /\ Keep /\ UNCHANGED <<meta, archive, rebuilt>>
  /\ deployed' = contract
  /\ IF contract = NoWasm THEN Fails(1) ELSE Goes("code")

Code ==
  /\ At("check", "code") /\ Keep /\ UNCHANGED <<meta, deployed, archive, rebuilt>>
  /\ \/ Fails(1)  \* no code entry, one that does not hash to its key, a stale record
     \/ IF rebuilt = deployed THEN Fails(Verified) ELSE Fails(1)

-----------------------------------------------------------------------------
VerifySteps ==
  InfoMeta \/ Allow \/ Fetch \/ SourceArchive \/ Unpack \/ Rebuild \/ Compare

Next == Deploy \/ Upgrade \/ Verify \/ VerifySteps \/ Check \/ Instance \/ Code

Spec == Init /\ [][Next]_vars

\* verify.sh:342 and check-deployed-hash.mjs:154: a contract passes only if the
\* Wasm last fetched was built from the source and in the image its own
\* metadata names, unless the caller accepted any image, though the contract
\* may have been upgraded since the metadata was read; check passes only what
\* was built from the local source.
VerdictIsEarned ==
  exit = Verified =>
    \/ tool = "verify" /\ anyImage
    \/ /\ tool = "verify" /\ deployed.image = deployed.meta.bldimg
       /\ deployed.source = deployed.meta.source
    \/ tool = "check" /\ deployed.source = rebuilt.source
=============================================================================
