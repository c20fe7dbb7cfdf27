--------------------------- MODULE BuildPipeline ---------------------------
(***************************************************************************)
(* The WASI build pipeline of src/sandbox/build: the guest driver (the     *)
(* "Step 2/Step 3" script concatenated into build_xxhash.sh), the CPython  *)
(* and wasi-sdk provisioning script build_cpython.sh, and the two          *)
(* extension scripts (msgspec, concatenated into build_host.sh, and        *)
(* xxhash).  Every script runs under `set -euo pipefail`, so a failing     *)
(* command ends the run.                                                   *)
(*                                                                         *)
(* The state is the shared tool-cache directory _tooling/: each file or    *)
(* directory the scripts test with -f, -d or -x is an artifact whose       *)
(* content is absent, partial (a write was cut short), good, or tainted    *)
(* (complete, but made of bytes that are not the pinned ones).  A run is   *)
(* one invocation of an entry script; runs follow one another, and a run   *)
(* can be interrupted (Ctrl-C, a killed CI job) in any step, which leaves  *)
(* the file that step was writing partial.  Downloads can fail or return   *)
(* the wrong bytes.  Interruptions and bad downloads are faults, and at    *)
(* most MaxFaults of them happen in a behaviour.                           *)
(***************************************************************************)
EXTENDS Naturals

CONSTANTS
    MaxFaults,      \* bound on interruptions and bad downloads
    WasiSumListed   \* does wasi-sdk.sha256sum list this platform's tarball?

ASSUME MaxFaultsAssumption == MaxFaults \in Nat
ASSUME WasiSumListedAssumption == WasiSumListed \in BOOLEAN

VARIABLES
    pc,      \* the step of the running script, or an idle label between runs
    entry,   \* the script that was invoked for the current run
    cur,     \* the extension the driver is at
    file,    \* file[a]: the content of artifact a in the tool-cache
    faults,  \* faults so far
    err      \* the error that ended the last run, "none" if it did not fail

vars == <<pc, entry, cur, file, faults, err>>

Exts == {"msgspec", "xxhash"}
Entries == {"guest", "cpython"} \cup Exts

(* Content of an artifact. *)
Contents == {"absent", "partial", "good", "tainted"}
Complete == {"good", "tainted"}

(* Archive, staging package dir and output tarball of each extension:      *)
(* msgspec-0.19.0-github.tar.gz, build-msgspec/pkg, msgspec-wasi.tar.gz.   *)
ArcOf == [msgspec |-> "msgspecArc", xxhash |-> "xxhashArc"]
PkgOf == [msgspec |-> "msgspecPkg", xxhash |-> "xxhashPkg"]
TarOf == [msgspec |-> "msgspecTar", xxhash |-> "xxhashTar"]

Artifacts ==
    {"wasiTar",    \* wasi-sdk-27.0-<platform>.tar.gz
     "wasiStage",  \* wasi-sdk-27.0-<platform>/, what the tarball unpacks to
     "wasiDir",    \* wasi-sdk-27.0/, the provisioned toolchain
     "pyTar",      \* Python-3.12.0.tgz
     "pySrc",      \* Python-3.12.0/
     "headers",    \* py-headers-3.12/
     "pydTar",     \* pydantic_core-wasi.tar.gz, prebuilt
     "envWasm"}    \* ../env.wasm, the final component
    \cup {ArcOf[e] : e \in Exts} \cup {PkgOf[e] : e \in Exts}
    \cup {TarOf[e] : e \in Exts}

Errors == {"none", "Interrupted", "DownloadError", "IntegrityError",
           "ExtractError", "ConfigureError", "ConfigurationError",
           "CompileError"}

(* Program counter labels: idle between runs, then the steps of each script. *)
Idle == {"init", "done", "failed"}
GuestSteps == {"g_start", "g_pyd_fetch", "g_pyd_verify", "g_ext",
               "g_extract", "g_componentize"}
CPythonSteps == {"c_wasi_fetch", "c_wasi_verify", "c_wasi_extract",
                 "c_wasi_mv", "c_headers_check", "c_py_fetch", "c_py_verify",
                 "c_py_extract", "c_configure", "c_headers_copy"}
ExtSteps == {"e_start", "e_fetch", "e_verify", "e_compile", "e_package"}
Running == GuestSteps \cup CPythonSteps \cup ExtSteps
Labels == Idle \cup Running

(* `clang` is executable: the toolchain directory exists and is complete.  *)
Clang == file["wasiDir"] \in Complete

(* What a build made from inputs of the given contents yields: the pinned  *)
(* result, a result made of unpinned bytes, or an incomplete one.          *)
Derive(S) == IF S \subseteq {"good"} THEN "good"
             ELSE IF S \subseteq Complete THEN "tainted" ELSE "partial"

Fail(e) == pc' = "failed" /\ err' = e

(* The run is interrupted while the step writes artifact a, which is left  *)
(* with the bytes written so far.                                          *)
Torn(a) ==
    /\ faults < MaxFaults
    /\ faults' = faults + 1
    /\ file' = [file EXCEPT ![a] = "partial"]
    /\ Fail("Interrupted")

-----------------------------------------------------------------------------
(* Helpers shared by every download and every `shasum -c`.                 *)

(* `if [ ! -f F ]; then curl -fL -o F URL; fi`: a cached file is used as   *)
(* it is; a download yields the pinned bytes, other bytes (a fault), or    *)
(* curl fails with no file or with the bytes received so far (a fault).    *)
Fetch(a, next) ==
    \/ /\ file[a] # "absent"
       /\ pc' = next
       /\ UNCHANGED <<file, faults, err>>
    \/ /\ file[a] = "absent"
       /\ file' = [file EXCEPT ![a] = "good"]
       /\ pc' = next
       /\ UNCHANGED <<faults, err>>
    \/ /\ file[a] = "absent"
       /\ faults < MaxFaults
       /\ faults' = faults + 1
       /\ \/ /\ file' = [file EXCEPT ![a] = "tainted"]
             /\ pc' = next
             /\ UNCHANGED err
          \/ /\ \E v \in {"absent", "partial"} : file' = [file EXCEPT ![a] = v]
             /\ Fail("DownloadError")

(* Mutant: the check's exit status is ignored (`shasum ... || true`). *)
VerifyUnchecked(a, listed, next) ==
    /\ pc' = next
    /\ UNCHANGED <<file, faults, err>>

(* `shasum -a 256 -c SUMS`: passes only on the pinned bytes, unless the    *)
(* sums file has no line for the file and --ignore-missing is given.       *)
Verify(a, listed, next) ==
    /\ \/ /\ file[a] = "good" \/ ~listed
          /\ pc' = next
          /\ UNCHANGED err
       \/ /\ file[a] # "good" /\ listed
          /\ Fail("IntegrityError")
    /\ UNCHANGED <<file, faults>>

-----------------------------------------------------------------------------
(* Entry: one invocation of a script after the previous run ended.         *)
Start(e) ==
    /\ pc \in Idle
    /\ entry' = e
    /\ pc' = CASE e = "guest"   -> "g_start"
               [] e = "cpython" -> "c_wasi_fetch"
               [] OTHER         -> "e_start"
    /\ cur' = IF e \in Exts THEN e ELSE "msgspec"
    /\ err' = "none"
    /\ UNCHANGED <<file, faults>>

(* Mutant: the driver tests only for clang, not for py-headers-3.12/. *)
GuestStartNoHeadersTest ==
    /\ pc = "g_start"
    /\ pc' = IF ~Clang THEN "c_wasi_fetch" ELSE "g_pyd_fetch"
    /\ UNCHANGED <<entry, cur, file, faults, err>>

(* Guest driver: build build_cpython.sh's outputs when clang or the        *)
(* headers are missing.                                                    *)
GuestStart ==
    /\ pc = "g_start"
    /\ pc' = IF ~Clang \/ file["headers"] = "absent"
                THEN "c_wasi_fetch" ELSE "g_pyd_fetch"
    /\ UNCHANGED <<entry, cur, file, faults, err>>

(* Where build_cpython.sh returns to. *)
CPythonReturn == IF entry = "guest" THEN "g_pyd_fetch" ELSE "done"

FetchWasiSdk ==
    /\ pc = "c_wasi_fetch"
    /\ Fetch("wasiTar", "c_wasi_verify")
    /\ UNCHANGED <<entry, cur>>

VerifyWasiSdk ==
    /\ pc = "c_wasi_verify"
    /\ Verify("wasiTar", WasiSumListed, "c_wasi_extract")
    /\ UNCHANGED <<entry, cur>>

(* Mutant: the tarball is unpacked straight into wasi-sdk-27.0/. *)
ExtractWasiSdkInPlace ==
    /\ pc = "c_wasi_extract"
    /\ \/ /\ file["wasiDir"] # "absent"
          /\ pc' = "c_headers_check"
          /\ UNCHANGED <<file, faults, err>>
       \/ /\ file["wasiDir"] = "absent"
          /\ file["wasiTar"] \in Complete
          /\ file' = [file EXCEPT !["wasiDir"] = file["wasiTar"]]
          /\ pc' = "c_headers_check"
          /\ UNCHANGED <<faults, err>>
       \/ /\ file["wasiDir"] = "absent"
          /\ file["wasiTar"] \notin Complete
          /\ file' = [file EXCEPT !["wasiDir"] = "partial"]
          /\ Fail("ExtractError")
          /\ UNCHANGED faults
       \/ /\ file["wasiDir"] = "absent"
          /\ Torn("wasiDir")
    /\ UNCHANGED <<entry, cur>>

(* If wasi-sdk-27.0/ is missing, untar into wasi-sdk-27.0-<platform>/;    *)
(* tar over a complete file set yields the tarball's content, and a      *)
(* truncated tarball makes tar fail half way.                             *)
ExtractWasiSdk ==
    /\ pc = "c_wasi_extract"
    /\ \/ /\ file["wasiDir"] # "absent"
          /\ pc' = "c_headers_check"
          /\ UNCHANGED <<file, faults, err>>
       \/ /\ file["wasiDir"] = "absent"
          /\ file["wasiTar"] \in Complete
          /\ file' = [file EXCEPT !["wasiStage"] = file["wasiTar"]]
          /\ pc' = "c_wasi_mv"
          /\ UNCHANGED <<faults, err>>
       \/ /\ file["wasiDir"] = "absent"
          /\ file["wasiTar"] \notin Complete
          /\ file' = [file EXCEPT !["wasiStage"] = "partial"]
          /\ Fail("ExtractError")
          /\ UNCHANGED faults
       \/ /\ file["wasiDir"] = "absent"
          /\ Torn("wasiStage")
    /\ UNCHANGED <<entry, cur>>

(* mv wasi-sdk-27.0-<platform> wasi-sdk-27.0: a rename. *)
MoveWasiSdk ==
    /\ pc = "c_wasi_mv"
    /\ file' = [file EXCEPT !["wasiDir"] = file["wasiStage"],
                            !["wasiStage"] = "absent"]
    /\ pc' = "c_headers_check"
    /\ UNCHANGED <<entry, cur, faults, err>>

(* Mutant: the -d py-headers-3.12 test is dropped. *)
CheckHeadersNoTest ==
    /\ pc = "c_headers_check"
    /\ pc' = "c_py_fetch"
    /\ UNCHANGED <<entry, cur, file, faults, err>>

(* The CPython part is skipped when py-headers-3.12/ exists. *)
CheckHeaders ==
    /\ pc = "c_headers_check"
    /\ pc' = IF file["headers"] # "absent" THEN CPythonReturn ELSE "c_py_fetch"
    /\ UNCHANGED <<entry, cur, file, faults, err>>

FetchCPython ==
    /\ pc = "c_py_fetch"
    /\ Fetch("pyTar", "c_py_verify")
    /\ UNCHANGED <<entry, cur>>

VerifyCPython ==
    /\ pc = "c_py_verify"
    /\ Verify("pyTar", TRUE, "c_py_extract")
    /\ UNCHANGED <<entry, cur>>

(* If Python-3.12.0/ is missing, untar straight into it. *)
ExtractCPython ==
    /\ pc = "c_py_extract"
    /\ \/ /\ file["pySrc"] # "absent"
          /\ pc' = "c_configure"
          /\ UNCHANGED <<file, faults, err>>
       \/ /\ file["pySrc"] = "absent"
          /\ file' = [file EXCEPT !["pySrc"] = file["pyTar"]]
          /\ pc' = "c_configure"
          /\ UNCHANGED <<faults, err>>
       \/ /\ file["pySrc"] = "absent"
          /\ Torn("pySrc")
    /\ UNCHANGED <<entry, cur>>

(* uv sync, the merged config.site and ./configure for wasm32-wasi: on an  *)
(* incomplete source tree configure may fail or may still succeed.         *)
ConfigureCPython ==
    /\ pc = "c_configure"
    /\ \/ /\ pc' = "c_headers_copy"
          /\ UNCHANGED err
       \/ /\ file["pySrc"] = "partial"
          /\ Fail("ConfigureError")
    /\ UNCHANGED <<entry, cur, file, faults>>

(* rm -rf py-headers-3.12; mkdir; cp -R Include/*; cp pyconfig.h. *)
CopyHeaders ==
    /\ pc = "c_headers_copy"
    /\ \/ /\ file' = [file EXCEPT !["headers"] = file["pySrc"]]
          /\ pc' = CPythonReturn
          /\ UNCHANGED <<faults, err>>
       \/ Torn("headers")
    /\ UNCHANGED <<entry, cur>>

FetchPydantic ==
    /\ pc = "g_pyd_fetch"
    /\ Fetch("pydTar", "g_pyd_verify")
    /\ UNCHANGED <<entry, cur>>

VerifyPydantic ==
    /\ pc = "g_pyd_verify"
    /\ Verify("pydTar", TRUE, "g_ext")
    /\ cur' = "msgspec"
    /\ UNCHANGED entry

(* Mutant: the driver steps past the last extension instead of on to the  *)
(* assembly.                                                               *)
ExtReturnPastLast ==
    IF entry # "guest" THEN pc' = "done" /\ UNCHANGED cur
    ELSE IF cur = "msgspec" THEN pc' = "g_ext" /\ cur' = "xxhash"
    ELSE pc' = "g_ext" /\ cur' = "pydantic_core"

(* Where an extension script returns to: the driver's next extension, the  *)
(* assembly, or the end of a direct invocation.                            *)
ExtReturn ==
    IF entry # "guest" THEN pc' = "done" /\ UNCHANGED cur
    ELSE IF cur = "msgspec" THEN pc' = "g_ext" /\ cur' = "xxhash"
    ELSE pc' = "g_extract" /\ UNCHANGED cur

(* The driver runs build_<ext>.sh only when <ext>-wasi.tar.gz is missing. *)
GuestExt ==
    /\ pc = "g_ext"
    /\ IF file[TarOf[cur]] # "absent" THEN ExtReturn
                                      ELSE pc' = "e_start" /\ UNCHANGED cur
    /\ UNCHANGED <<entry, file, faults, err>>

(* Mutant: the extension script has no cache-hit test. *)
ExtPrereqNoCacheHit ==
    /\ pc = "e_start"
    /\ \/ /\ ~Clang \/ file["headers"] = "absent"
          /\ Fail("ConfigurationError")
          /\ UNCHANGED <<cur, file>>
       \/ /\ Clang /\ file["headers"] # "absent"
          /\ file' = [file EXCEPT ![PkgOf[cur]] = "absent"]
          /\ pc' = "e_fetch"
          /\ UNCHANGED <<cur, err>>
    /\ UNCHANGED <<entry, faults>>

(* Cache hit on the output tarball; then clang and the headers must exist; *)
(* then rm -rf build-<ext>/.  The compiler runtime directory tested at     *)
(* line 61 is part of the complete toolchain that Clang stands for.        *)
ExtPrereq ==
    /\ pc = "e_start"
    /\ \/ /\ file[TarOf[cur]] # "absent"
          /\ ExtReturn
          /\ UNCHANGED <<file, err>>
       \/ /\ file[TarOf[cur]] = "absent"
          /\ ~Clang \/ file["headers"] = "absent"
          /\ Fail("ConfigurationError")
          /\ UNCHANGED <<cur, file>>
       \/ /\ file[TarOf[cur]] = "absent"
          /\ Clang /\ file["headers"] # "absent"
          /\ file' = [file EXCEPT ![PkgOf[cur]] = "absent"]
          /\ pc' = "e_fetch"
          /\ UNCHANGED <<cur, err>>
    /\ UNCHANGED <<entry, faults>>

ExtFetch ==
    /\ pc = "e_fetch"
    /\ Fetch(ArcOf[cur], "e_verify")
    /\ UNCHANGED <<entry, cur>>

ExtVerify ==
    /\ pc = "e_verify"
    /\ Verify(ArcOf[cur], TRUE, "e_compile")
    /\ UNCHANGED <<entry, cur>>

(* Unpack into build-<ext>/, copy the .py/.pyi/py.typed files into pkg/,   *)
(* compile with clang against py-headers-3.12 and link with wasm-ld into   *)
(* pkg/<ext>/_core.cpython-312-wasm32-wasi.so.  An incomplete header set   *)
(* makes the compile fail.                                                 *)
ExtCompile ==
    /\ pc = "e_compile"
    /\ \/ /\ file["headers"] \in Complete
          /\ file' = [file EXCEPT ![PkgOf[cur]] =
                        Derive({file[ArcOf[cur]], file["headers"],
                                file["wasiDir"]})]
          /\ pc' = "e_package"
          /\ UNCHANGED <<faults, err>>
       \/ /\ file["headers"] \notin Complete
          /\ Fail("CompileError")
          /\ UNCHANGED <<file, faults>>
       \/ Torn(PkgOf[cur])
    /\ UNCHANGED <<entry, cur>>

(* rm -f <ext>-wasi.tar.gz; tar -C pkg -czf <ext>-wasi.tar.gz <ext>. *)
ExtPackage ==
    /\ pc = "e_package"
    /\ \/ /\ file' = [file EXCEPT ![TarOf[cur]] = file[PkgOf[cur]]]
          /\ ExtReturn
          /\ UNCHANGED <<faults, err>>
       \/ /\ Torn(TarOf[cur])
          /\ UNCHANGED cur
    /\ UNCHANGED entry

(* Mutant: a failing `tar -xf` is ignored (`|| true`). *)
AssembleExtractLenient ==
    /\ pc = "g_extract"
    /\ pc' = "g_componentize"
    /\ UNCHANGED <<entry, cur, file, faults, err>>

(* rm -rf .venv; uv sync; tar -xf of the three tarballs into site-packages: *)
(* tar fails on a truncated archive.                                        *)
AssembleExtract ==
    /\ pc = "g_extract"
    /\ \/ /\ \A a \in {"pydTar"} \cup {TarOf[e] : e \in Exts} :
                 file[a] \in Complete
          /\ pc' = "g_componentize"
          /\ UNCHANGED err
       \/ /\ \E a \in {"pydTar"} \cup {TarOf[e] : e \in Exts} :
                 file[a] \notin Complete
          /\ Fail("ExtractError")
    /\ UNCHANGED <<entry, cur, file, faults>>

(* generate_prelude.py, then componentize-py -o env.wasm. *)
Componentize ==
    /\ pc = "g_componentize"
    /\ \/ /\ file' = [file EXCEPT !["envWasm"] =
                Derive({file["pydTar"]} \cup {file[TarOf[e]] : e \in Exts})]
          /\ pc' = "done"
          /\ UNCHANGED <<faults, err>>
       \/ Torn("envWasm")
    /\ UNCHANGED <<entry, cur>>

-----------------------------------------------------------------------------
(* An interruption between two commands of a running script: no file is  *)
(* half written.  Interruptions inside a write are part of each action.    *)
Interrupt ==
    /\ pc \in Running
    /\ faults < MaxFaults
    /\ faults' = faults + 1
    /\ Fail("Interrupted")
    /\ UNCHANGED <<entry, cur, file>>

-----------------------------------------------------------------------------
Init ==
    /\ pc = "init"
    /\ entry = "guest"
    /\ cur = "msgspec"
    /\ file = [a \in Artifacts |-> "absent"]
    /\ faults = 0
    /\ err = "none"

(* The steps of a running script. *)
Step ==
    \/ GuestStart \/ FetchWasiSdk \/ VerifyWasiSdk \/ ExtractWasiSdk
    \/ MoveWasiSdk \/ CheckHeaders \/ FetchCPython \/ VerifyCPython
    \/ ExtractCPython \/ ConfigureCPython \/ CopyHeaders
    \/ FetchPydantic \/ VerifyPydantic \/ GuestExt
    \/ ExtPrereq \/ ExtFetch \/ ExtVerify \/ ExtCompile \/ ExtPackage
    \/ AssembleExtract \/ Componentize

Next ==
    \/ \E e \in Entries : Start(e)
    \/ Step
    \/ Interrupt

Spec == Init /\ [][Next]_vars

-----------------------------------------------------------------------------
(* Type invariant. *)
TypeOK ==
    /\ pc \in Labels
    /\ entry \in Entries
    /\ cur \in Exts
    /\ file \in [Artifacts -> Contents]
    /\ faults \in 0..MaxFaults
    /\ err \in Errors


(* The operator reruns the pipeline after a failure, which is the recovery *)
(* policy of spec section 7; a running script, whose commands are blocking *)
(* subprocesses, keeps going unless it is interrupted.                     *)
FairSpec == Spec /\ WF_vars(Step) /\ SF_vars(Start("guest"))

(* The artifacts whose mere existence makes a later run skip the work that *)
(* produces them (the -d/-f tests at build_cpython.sh:46,71,               *)
(* build_host.sh:31, build_xxhash.sh:22,192,201).                           *)
CacheKeys == {"wasiDir", "headers"} \cup {TarOf[e] : e \in Exts}

(* Everything the pipeline builds, as opposed to what it downloads. *)
Built == {"wasiStage", "wasiDir", "pySrc", "headers", "envWasm"}
         \cup {PkgOf[e] : e \in Exts} \cup {TarOf[e] : e \in Exts}

(* The toolchain directory wasi-sdk-27.0/ is never half there, whatever    *)
(* run is interrupted where: build_cpython.sh unpacks into a               *)
(* platform-suffixed directory and renames it into place.                  *)
ToolchainNeverPartial == file["wasiDir"] # "partial"

(* Integrity gate (spec section 8): nothing the pipeline builds is made of *)
(* downloaded bytes other than the pinned ones; every archive goes through *)
(* shasum -c before tar, clang or the assembly read it.                    *)
NoTaintedBuild == \A a \in Built : file[a] # "tainted"

(* A driver run that ends without error leaves env.wasm built from three   *)
(* complete, pinned extension tarballs, whatever earlier runs were         *)
(* interrupted and wherever.                                               *)
SuccessImpliesSound ==
    (pc = "done" /\ entry = "guest") => file["envWasm"] = "good"

(* The driver provisions before it builds: its test at build_xxhash.sh:   *)
(* 167-170 (clang executable, py-headers-3.12/ present) agrees with the    *)
(* refusal of the extension scripts (build_host.sh:40,51,                 *)
(* build_xxhash.sh:31,42), so no driver run, however earlier runs were    *)
(* interrupted, ends in an extension script refusing for want of clang or *)
(* the headers.                                                            *)
DriverNeverRefused == err = "ConfigurationError" => entry # "guest"

(* The tool-cache seen through its cache keys is a write-once store:      *)
(* every step fills at most one missing key, with a content that is not    *)
(* missing, and a key once filled is never rewritten, complete or not.     *)
CacheStore == INSTANCE WriteOnceCache
    WITH Keys <- CacheKeys, Values <- Contents \ {"absent"}, Missing <- "absent",
         cache <- [k \in CacheKeys |-> file[k]]

(* The scripts implement the write-once store: no run, interrupted or     *)
(* rerun, writes a cache key that exists, and none empties one.            *)
CacheRefinement == CacheStore!Spec

(* Spec section 3, CachedArtifact: an interrupted run never leaves a cache *)
(* key that looks complete to the existence test but is not.               *)
CacheKeyNeverPartial == \A a \in CacheKeys : file[a] # "partial"

(* Spec sections 5 and 7: after the faults stop, rerunning the driver      *)
(* eventually completes it ("a clean rerun is safe").                      *)
GuestEventuallySucceeds == <>(pc = "done" /\ entry = "guest")

=============================================================================
