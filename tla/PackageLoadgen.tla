---------------------------- MODULE PackageLoadgen ----------------------------
(***************************************************************************)
(* package_loadgen.py: the load generators' archive is packed from sources *)
(* that may be edited meanwhile, verified and moved into place; its        *)
(* manifest, by whose digest plans and generators are bound together, is   *)
(* written from the sources or extracted from an archive.  Several         *)
(* packagers run at once (deploy-loadgen.ps1, run-experiment.ps1 and       *)
(* invoke-loadgen.ps1 each start one), and any of them may be killed.      *)
(*                                                                          *)
(* The content of a file is its version, a digest of it likewise; an       *)
(* archive is the contents it was packed with and the manifest of them.    *)
(***************************************************************************)
EXTENDS Naturals

CONSTANTS
    Sources,        \* REQUIRED_SOURCES
    Packagers,      \* processes of the packager
    Missing,        \* a file that does not exist
    MaxEdits,       \* bound: edits of the sources
    MaxDamages      \* bound: bad writes, damaged archives, packagers killed

ASSUME PackageAssumption == MaxEdits \in Nat /\ MaxDamages \in Nat

Content == [Sources -> Nat]

VARIABLES
    source,     \* contents of the source files
    archive,    \* the file at the archive's path
    manifest,   \* package-manifest.json next to it
    packager,   \* what each process is doing
    verified,   \* history: manifests of archives that have been verified
    packaged    \* the edits and damages so far

packageVars == << source, archive, manifest, packager, verified, packaged >>

Resting == [pc |-> "idle", mode |-> "archive", got |-> << >>, temporary |-> Missing]

PackageInit ==
    /\ source = [f \in Sources |-> 0]
    /\ archive = Missing /\ manifest = Missing
    /\ packager = [p \in Packagers |-> Resting]
    /\ verified = {}
    /\ packaged = [edits |-> 0, damages |-> 0]

Damage ==
    /\ packaged.damages < MaxDamages
    /\ packaged' = [packaged EXCEPT !.damages = @ + 1]

-----------------------------------------------------------------------------
Edit(f) ==
    /\ packaged.edits < MaxEdits
    /\ packaged' = [packaged EXCEPT !.edits = @ + 1]
    /\ source' = [source EXCEPT ![f] = @ + 1]
    /\ UNCHANGED << archive, manifest, packager, verified >>

\* Some content of the archive is not what was written any more.
DamageArchive(f) ==
    /\ archive # Missing
    /\ Damage
    /\ archive' = [archive EXCEPT !.payload[f] = @ + 1]
    /\ UNCHANGED << source, manifest, packager, verified >>

\* A process is started in one of the three modes.
StartPackager(p, mode) ==
    /\ packager[p].pc = "idle"
    /\ packager' = [packager EXCEPT ![p] =
          [Resting EXCEPT !.pc = IF mode = "extract" THEN "embedded" ELSE "read", !.mode = mode]]
    /\ UNCHANGED << source, archive, manifest, verified, packaged >>

\* snapshots: the sources are read one after the other, each once.
ReadSource(p, f) ==
    /\ packager[p].pc = "read"
    /\ f \notin DOMAIN packager[p].got
    /\ LET got == [g \in DOMAIN packager[p].got \union {f} |->
                      IF g = f THEN source[f] ELSE packager[p].got[g]]
       IN  packager' = [packager EXCEPT ![p].got = got,
                                        ![p].pc = IF DOMAIN got = Sources THEN "write" ELSE "read"]
    /\ UNCHANGED << source, archive, manifest, verified, packaged >>

Fail(p) == packager' = [packager EXCEPT ![p] = Resting]

\* embedded_manifest: the archive is opened for its manifest ...
ReadEmbedded(p) ==
    /\ packager[p].pc = "embedded"
    /\ IF archive = Missing
         THEN Fail(p)
         ELSE packager' = [packager EXCEPT ![p].got = archive.manifest, ![p].pc = "again"]
    /\ UNCHANGED << source, archive, manifest, verified, packaged >>

\* Faulty: only the manifest of the archive is looked at.
Intact_ManifestOnly(file, expected) == file # Missing /\ file.manifest = expected

\* verify_archive: it holds the manifest expected of it and what that lists.
Intact(file, expected) ==
    file # Missing /\ file.manifest = expected /\ file.payload = expected

\* ... and opened again to be verified against it.
VerifyEmbedded(p) ==
    /\ packager[p].pc = "again"
    /\ IF Intact(archive, packager[p].got)
         THEN /\ packager' = [packager EXCEPT ![p].pc = "write"]
              /\ verified' = verified \union {archive.manifest}
         ELSE Fail(p) /\ UNCHANGED verified
    /\ UNCHANGED << source, archive, manifest, packaged >>

\* atomic_write: everything goes to a temporary file, which is synced; a bad
\* write changes some content of an archive.
WriteTemporary(p) ==
    LET got == packager[p].got
        written(payload) ==
            packager' = [packager EXCEPT
                ![p].pc = IF packager[p].mode = "archive" THEN "verify" ELSE "replace",
                ![p].temporary = IF packager[p].mode = "archive"
                                 THEN [manifest |-> got, payload |-> payload] ELSE got]
    IN  /\ packager[p].pc = "write"
        /\ \/ written(got) /\ UNCHANGED packaged
           \/ /\ packager[p].mode = "archive" /\ Damage
              /\ \E f \in Sources : written([got EXCEPT ![f] = @ + 1])
        /\ UNCHANGED << source, archive, manifest, verified >>

\* A temporary file that does not pass is removed, and the output is untouched.
VerifyTemporary(p) ==
    /\ packager[p].pc = "verify"
    /\ IF Intact(packager[p].temporary, packager[p].got)
         THEN /\ packager' = [packager EXCEPT ![p].pc = "replace"]
              /\ verified' = verified \union {packager[p].got}
         ELSE Fail(p) /\ UNCHANGED verified
    /\ UNCHANGED << source, archive, manifest, packaged >>

\* os.replace
Replace(p) ==
    /\ packager[p].pc = "replace"
    /\ IF packager[p].mode = "archive"
         THEN archive' = packager[p].temporary /\ UNCHANGED manifest
         ELSE manifest' = [mode |-> packager[p].mode, files |-> packager[p].temporary]
              /\ UNCHANGED archive
    /\ Fail(p)
    /\ UNCHANGED << source, verified, packaged >>

KillPackager(p) ==
    /\ packager[p].pc # "idle"
    /\ Damage
    /\ Fail(p)
    /\ UNCHANGED << source, archive, manifest, verified >>

PackageNext ==
    \/ \E f \in Sources : Edit(f) \/ DamageArchive(f)
    \/ \E p \in Packagers :
          \/ \E mode \in {"archive", "manifest", "extract"} : StartPackager(p, mode)
          \/ \E f \in Sources : ReadSource(p, f)
          \/ ReadEmbedded(p) \/ VerifyEmbedded(p)
          \/ WriteTemporary(p) \/ VerifyTemporary(p) \/ Replace(p) \/ KillPackager(p)

PackageSpec == PackageInit /\ [][PackageNext]_packageVars

-----------------------------------------------------------------------------
(* Properties.                                                              *)

PackageTypeOK ==
    /\ source \in Content
    /\ archive \in {Missing} \union [manifest : Content, payload : Content]
    /\ manifest \in {Missing} \union [mode : {"manifest", "extract"}, files : Content]
    /\ packaged \in [edits : Nat, damages : Nat]

\* What can be had at the two paths is whole, whatever was edited while it was
\* read, written badly, killed or packed at the same time: an archive that comes
\* to be published holds exactly what its manifest lists, and an extracted
\* manifest is that of an archive whose contents were checked.
PublishedIsWhole ==
    [][/\ archive' # archive /\ packaged' = packaged => archive'.payload = archive'.manifest
       /\ manifest' # manifest /\ manifest'.mode = "extract" => manifest'.files \in verified
      ]_packageVars

=============================================================================
