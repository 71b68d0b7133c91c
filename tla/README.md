# A TLA+ verification of odsign (on-device signing)

This directory models `src/ondevice-signing/odsign_main.cpp` in TLA+.
TLC model-checks the model on small instances, and TLAPS proves its type
correctness and its main safety properties for every value of the
constants.

## The system

odsign is a single-threaded daemon. init runs it once per boot, before
zygote. Its job is to make sure that the ART boot artifacts under
`/data/misc/apexdata/com.android.art/dalvik-cache` can be trusted. It
reports the outcome through the following system properties:
- `odsign.verification.done`
- `odsign.verification.success`
- `odsign.key.done`, which tells init that the keystore key is no longer
  needed.

`/data` survives a reboot, so an attacker with offline access can change
it between boots. The threat model says that attacker cannot sign with the
keystore key.

The parts of the code, and how they interact:

| Part | Code | What it does |
|---|---|---|
| Orchestration | `main` 521-656 | Runs the steps below in order. An armed `errorScopeGuard` (524-537) turns every early `return` into "remove the artifacts, report failure". |
| Root certificate | `verifyExistingRootCert`, `createX509RootCert`, main 558-579 | A self-signed certificate of the keystore key, added to the fs-verity keyring. |
| CompOs key | `startCompOsAndVerifyKey`, `verifyCompOsKey`, `addCompOsCertToFsVerityKeyring` (211-283, 440-455) | The CompOs VM (run through `compos_verify_key`) confirms a pending or current key. odsign then issues and caches a leaf certificate for that key, or reuses a cached one. |
| Pending adoption | `checkCompOsPendingArtifacts` 457-519 | Artifacts the CompOs VM compiled are adopted in place of the current ones. This requires `odrefresh --check` and the CompOs signature of every file. |
| Digests | `computeDigests`, `verifyDigests`, `getOdsignInfo`, `persistDigests`, `verifyArtifacts` (285-438) | A manifest `odsign.info` of file digests, and its signature `odsign.info.signature` by the keystore key. It is written after compilation or adoption, and checked on a later boot. |
| odrefresh | `compileArtifacts`, `checkArtifacts` 118-130 | An external program. Only its exit codes and its effect on the artifacts directory are modelled. |
| init and the device | `odsign.rc` (not in this repository) | Starts odsign once per boot, restarts it in the same boot if it dies without `ctl.stop`, and may lose power at any step. |
| RKP header | `src/provisioner/rkp_factory_extraction_lib.h` | Declarations only. Not modelled: it has no state, and its only behaviour is encoding. |

## The model: `Odsign.tla`

**Variables.** The state is grouped into tuples:

| Group | Contents | Lifetime |
|---|---|---|
| `disk` | the two artifact directories, the manifest, its signature, the root certificate, the CompOs certificate, the current and pending CompOs key files | Persistent |
| `locals` | `pc`, plus main()'s locals (`useCompOs`, `odrefresh_status` as `status`, `digests_verified`, the CompOs key, the digests being persisted, where `persistDigests` returns to) | Lost when the process exits or the device reboots |
| `props` | the three system properties and the exit code | Lost on reboot |
| `env` | the boot and tamper counters and `ro.apex.updatable` | — |
| `history` | ghost state: every map ever signed, every key ever certified, and whether the key was used after `key.done` | — |

**Data abstraction.** A file's content is a record `[src, name]`:
- `src` is `"odr"` (compiled by odrefresh), `"compos"` (compiled and
  signed in the VM) or `"forged"` (written by the attacker);
- `name` is the path it was made for.

A digest identifies its content, so a digest map is a function from file
slots to contents. A signature records the map it was made over. Keys are
`"good"` (generated by the CompOs VM) or `"evil"` (planted).

**Actions.** `main()` and `checkCompOsPendingArtifacts` are cut at the
points where they call out or write a file. Each action models one
segment, with every guard and early return in it:

| Action | Code |
|---|---|
| `NotUpdatable` | 539-542 |
| `Start` | 544-556 |
| `RootCert` | 558-579 |
| `AddCompOsCert` | `addCompOsCertToFsVerityKeyring` with `verifyCompOsKey` inlined |
| `PendCheck` | 460-478 |
| `Rename` | 479-482 |
| `Recheck` | 487-491 |
| `PendVerify` | 495-499 |
| `PersistData` | `persistDigests` 384-395 |
| `PersistSign` | `persistDigests` 397-406 |
| `PendPersisted` | 500-518 |
| `Compile` | 594-596 |
| `OutcomeOkay` | 597-613 |
| `OutcomeCompiled` | 614-630 |
| `MainPersisted` | 631-635 |
| `OutcomeError` | 636-642 |
| `VerifyArtifacts` | `verifyArtifacts`, reached from 607 |
| `Finish` | 644-655 |
| `ErrorScopeGuard` | the guard lambda, run on every armed return |

`Return(code)` marks a `return` with the guard armed. `ExitProcess` drops
the locals.

Some failures are nondeterministic choices:
- a file write (open, write or sign) fails;
- a `remove_all` stops part way (`removeDirectory`);
- a rename fails onto a non-empty target;
- `access()` fails with an errno other than ENOENT.

**Environment.** These actions are modelled from the spec, because their
code is not in this repository:
- `BootUp` and `Reboot`. A crash or reboot can happen at any `pc`.
- `ProcessRestart` (at most `MaxCrashes` per run). odsign itself dies (for
  example the unchecked dereference of `getPublicKey()` at 367 aborts it)
  and init restarts it in the same boot. `/data` and the properties stay as
  the dead process left them; only the locals are lost.
- `Hang` (when `SubprocessMayHang`). A child started with
  `logwrap_fork_execvp` (odrefresh, `compos_verify_key`) never exits, and
  odsign waits forever at `pc = "hung"`.
- `CompOsRun`. Between boots the VM writes a pending key and some pending
  artifacts.
- `TamperArtifacts`, `TamperManifest` and `TamperKeys`. While the device is
  down, the attacker can plant files, copy artifacts between slots, edit or
  delete the manifest, restore any manifest/signature pair that was signed
  earlier, and plant keys or replay a certificate our key issued.

**Bounds.**
- `MaxBoots` and `MaxTampers` cap the counters.
- `composRan` allows one VM run per boot.
- `MaxCrashes` caps in-boot restarts.

Small named helpers (`compileArtifacts`, `checkArtifacts`,
`verifyExistingRootCert`, `createX509RootCert`, `leafCertValid`,
`addCompOsCertToKeyring`, `verifyIntegrity`) keep the functions of the
code visible inside the actions that call them.

## The promise: `OdsignBootStatus.tla` and `OdsignRefinement.tla`

`OdsignBootStatus` says what odsign promises init, seen only through the
artifacts directory and the two verification properties. Before a verdict
the directory may change freely (`Work`). There is at most one verdict per
boot: `ReportValid` only for a trusted directory, which it leaves as it
is, or `ReportError`, while the directory is removed. `Restart` (a reboot)
clears the properties and keeps the directory. From a verdict to the next
reboot the directory cannot change.

`OdsignRefinement` instantiates it with `artifacts <- artDir`,
`verification <- verifStatus` and `done <- verifDone`. `Trusted` is the
set of directories with no attacker's file, all of whose files come
from one compiler (odrefresh or the CompOs VM). `BootStatusSpec` is checked as
a `PROPERTY` and proved.

## Runs

All runs share these settings:
- `MC_Odsign.tla` supplies the constants: files `{f1}` (or `{f1,f2}`);
  `odrefresh --check` results {Okay, CompilationRequired, CleanupFailed};
  all compile results.
- `CHECK_DEADLOCK FALSE` is set, because the model really does stop when
  the boot budget is spent.

| Run | cfg | Expect | What it shows |
|---|---|---|---|
| odsign_safety | `MC_Odsign.cfg` (3 boots, 1 tampering, fs-verity) | pass | `TrustedArtifactsGenuine`: success is never reported for a directory holding a forged file. `SignedManifestsGenuine`: no manifest listing a forged file is ever signed. `CompOsCertsForGenuineKeys`: only VM-generated keys are certified. `SignsWhatIsOnDisk` (action property): a step that signs a manifest signs exactly the directory's current contents. `IInv` and `TypeOK` also hold. About 1.8M distinct states. |
| odsign_no_verity | `MC_NoVerity.cfg` (2 tamperings, 1 crash, hangs) | pass | `TrustedArtifactsGenuine` on the path without fs-verity, where digests are recomputed, with odsign crashing and being restarted in the same boot and odrefresh hanging. `ManifestListsTrustedArtifacts`: when success is reported for an existing directory, a validly signed manifest is on disk and matches it. `ManifestOnPath` is its strengthening. About 2.5M states. |
| odsign_refinement | `MC_Refine.cfg` (2 boots, 1 tampering, 1 crash) | pass | `BootStatusSpec`: every behaviour is one of the promise. About 2.4M states. |
| odsign_two_files | `MC_TwoFiles.cfg` (two files, 2 boots, 1 tampering, symmetry) | pass | `TrustedArtifactsGenuine` with partial compilation, partial removal, and manifests listing more or fewer files than present. `TrustedArtifactsSingleSource`: a directory reported good never mixes odrefresh's and the VM's files. `OneSourceOnPath` is its strengthening. About 1.7M states. |
| odsign_liveness | `MC_Live.cfg` (3 boots, 1 crash, no tampering) | pass | `BootSignalsDone`: every started run of odsign ends with `verification.done`, or the device goes down, also when odsign aborts (the unchecked dereference at 367) and init restarts it in the same boot. About 0.8M states. |
| key_done_then_used | `MC_KeyDone.cfg` | violation | `KeyNotUsedAfterDone` fails (finding 1). |
| signature_write_unchecked | `MC_SigWrite.cfg` | violation | `TrustedArtifactsVerifiable` fails (finding 2). |
| compos_names_unbound | `MC_Names.cfg` (two files) | violation | `TrustedArtifactsMatchNames` fails (finding 3). |
| subprocess_hang | `MC_Hang.cfg` | violation | `BootSignalsDone` fails when a child may hang (finding 4). |

**Why these bounds are enough.** Three boots let a run:
1. compile and sign;
2. be tampered with and verify, or adopt CompOs artifacts;
3. verify again.

The safety run allows one tampering: each attack (a planted key, a
replayed manifest, a copied file) is a single step, and `IInv` is checked
there as a whole. The run without fs-verity allows two, so that the
attacker can combine a planted file with a replayed manifest while
digests are recomputed. One file is enough for the genuineness properties,
because the attacker acts on one slot at a time. Two files are needed only
to swap names.

Two boots suffice for the refinement: a verdict, the reboot that clears
it, and the second verdict over what the first boot and the attacker left
cover every kind of step of the promise. The crash adds the in-boot
restart with `odsign.key.done` kept. In the two-file run the two files
are interchangeable model values and every property is symmetric in them,
so `SYMMETRY` over `Files` is sound.

The liveness run needs no attacker: a failed verification, which leads to
the scope guard, is already reached through a crash in the middle of
`persistDigests` or a failed write. Its crash is what makes the run
interesting. After the abort, odsign starts again from `main()` with
`/data` half written and the properties kept, and must still reach a
verdict. Three boots let that happen after a compile, an adoption and a
verification.

**Fairness.** `LiveSpec` adds weak fairness of `Daemon` only. This is
justified because odsign is one thread that runs straight through, and
every call it makes is synchronous. It assumes the calls return: the code
has no timeouts. The liveness run therefore sets `SubprocessMayHang`
to FALSE, and subprocess_hang shows what happens otherwise. No fairness is assumed for reboots, the VM or the attacker.

## Findings

1. **`odsign.key.done` is set too early** (line 502). It is set even when
   `persistDigests` failed. `main()` then compiles and signs with the key
   (621, 631) after init was told the key is done.
2. **The signature write is unchecked** (line 405). Success can be
   reported over a signature file that does not verify the manifest. The
   next boot then recompiles.
3. **CompOs signatures do not bind file names** (the TODO at 484).
   Artifacts swapped between paths offline are adopted and reported as
   valid.
4. **No timeout around a child** (lines 121, 220). If odrefresh or
   `compos_verify_key` never exits, `verification.done` is never set and
   boot stalls. The spec asks for a timeout around subprocesses.

## Proofs (checked by `tlapm`)

The theorems live in four modules, each extending the one before it:
`OdsignProofs`, `OdsignSourceProofs`, `OdsignManifestProofs` and
`OdsignRefinementProofs`. The last extends `OdsignSourceProofs` only.

**Assumptions.** The proofs use the named assumptions of `Odsign.tla`:
- `Files` is non-empty.
- The configuration flags are Booleans and the bounds are naturals.
- The outcome sets are exit codes.
- `CheckAssumption`: `odrefresh --check` never returns a compilation
  result. Otherwise `main()` would sign whatever is in the directory.

**Theorems.**
- `TypeCorrect`: `Spec => []TypeOK`.
- `IInvHolds`: `Spec => []IInv`.
- From `IInvHolds`, the three safety properties of the safety run:
  `TrustedArtifactsGenuineHolds`, `SignedManifestsGenuineHolds` and
  `CompOsCertsForGenuineKeysHolds`.

**Why a strengthening is needed.** `TrustedArtifactsGenuine` is not
inductive. Success is set by `Finish`, so the invariant must already know
that the directory was genuine at every earlier step of the path. `IInv`
conjoins four parts:
- `ArtifactsGenuineOnPath`: along each path (compile, adopt, verify),
  everything from the check onward keeps the artifacts genuine, and the
  digests being persisted equal the directory.
- `ManifestsSigned`: a signature always covers a map in `signedHist`, and
  every signed map is genuine. This is why a manifest that passes
  `getOdsignInfo` admits only genuine files.
- `CompOsKeyGenuine`: the key used to check CompOs signatures, and every
  cached certificate, is good. A forged file therefore never passes
  `PendVerify`.
- `DirsWellFormed`: a directory that does not exist is empty.

TLC checks `IInv` as an invariant in odsign_safety.

**How the proof is laid out.** It uses lemmas about `removeDirectory`,
`compileEffect` and the attacker's sets. There is one step per group of
actions that can disturb each part. Goals about Boolean flags go to Zenon
and the rest to SMT.

**One compiler per directory (`OdsignSourceProofs.tla`).**
`TrustedArtifactsSingleSourceHolds`: `Spec => []TrustedArtifactsSingleSource`.
Its strengthening `OneSourceOnPath` has two parts:
- every signed manifest lists files of one source
  (`SignedManifestsOneSource`);
- along every path, from compilation, from the VM check or from digest
  verification up to `Finish`, the directory is single-source
  (`ArtifactsOneSourceOnPath`).

The second part is needed because success is set long after the files
were written. The first part is needed because on the path without
fs-verity a directory is trusted when `verifyDigests` accepts it against a
signed manifest. The lemma `VerifyDigestsSingleSource` then carries the
property from the manifest to the directory. Other lemmas show the same
for `removeDirectory`, `compileEffect` and the VM's output.
`InitOneSource` and `NextOneSource` prove the strengthening inductive,
with `IInv` as a hypothesis. TLC checks `OneSourceOnPath` in
odsign_two_files.

**The manifest on disk (`OdsignManifestProofs.tla`).**
- `ManifestListsTrustedArtifactsHolds`:
  `Spec => []ManifestListsTrustedArtifacts`. Its strengthening
  `ManifestOnPath` follows the manifest from `PersistData`, where it equals
  the computed digests, through the renames to `Finish`. It is proved
  inductive by `InitManifest` and `ManifestStep`. TLC checks it in
  odsign_no_verity.
- `SignsWhatIsOnDiskHolds`: `Spec => SignsWhatIsOnDisk`, an action property.
  The lemma `SignStep` shows that every step in which `signedHist` grows
  adds exactly `artDir.files`. It needs `IInv`: at `persist_sign` the
  persisted map equals the directory.

**Refinement (`OdsignRefinementProofs.tla`).** `RefinesBootStatus`:
`Spec => BootStatusSpec`. `InitRefines` maps the initial state. `NextRefines`
maps every step, given `IInv` and `OneSourceOnPath` before and after, and
`VerdictOnlyWhenDone`
(`verifStatus` is set exactly when `verifDone` is, and only at
`pc = "done"`), which is itself inductive (`InitVerdict`, `NextVerdict`).
`Finish` becomes `ReportValid`: its directory is trusted by
`ArtifactsGenuineOnPath` and `ArtifactsOneSourceOnPath`, and it is the first verdict by
`VerdictOnlyWhenDone`. `ErrorScopeGuard` becomes `ReportError`, `Reboot`
becomes `Restart`, and every other action (including `ProcessRestart`)
leaves the properties alone at `pc # "done"`, so it is `Work`.

`OneSourceOnPathHolds` and `ManifestOnPathHolds` state the two
strengthenings as theorems of their own, since TLC checks them as run
invariants.

**Model-checked only.**
- Liveness (`BootSignalsDone`). It rests on fairness and ENABLED, which
  TLAPS cannot reason about.
- The four violations. They are counterexamples, not theorems.
- The bounded runs' claims for the exact instances TLC explores. Every
  safety property those runs check is also proved for all constants;
  this includes the strengthenings `OneSourceOnPath` and `ManifestOnPath`.

## Not modelled

- The contents of certificates, keys and digests beyond whose they are.
  The cryptography is assumed sound.
- `odrefresh` and the CompOs VM internals, beyond their results.
- The logging. `ctl.stop` (init not restarting odsign after a normal
  exit) is modelled only as the absence of restarts at `pc = "done"`.
- init raising the keystore boot level after `odsign.key.done`.
- The RKP factory extraction header.

## Plan for later sittings

- A reference check of `verifyDigests` and `computeDigests` over bounded
  maps.
- A two-file run over three boots (about 31M states; beyond a short run
  today).
- A proof that `KeyNotUsedAfterDone` holds once line 502 is moved after
  the `persisted.ok()` check.
