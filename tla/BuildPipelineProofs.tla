------------------------ MODULE BuildPipelineProofs ------------------------
(***************************************************************************)
(* Proofs about BuildPipeline for every value of MaxFaults and            *)
(* WasiSumListed.                                                          *)
(***************************************************************************)
EXTENDS BuildPipeline, TLAPS

(* The per-extension artifact names are artifacts. *)
LEMMA ExtArtifacts ==
    ASSUME NEW e \in Exts
    PROVE  /\ ArcOf[e] \in Artifacts
           /\ PkgOf[e] \in Artifacts
           /\ TarOf[e] \in Artifacts
BY DEF Exts, ArcOf, PkgOf, TarOf, Artifacts

(* The per-extension artifacts are none of the toolchain's. *)
LEMMA ExtNotToolchain ==
    ASSUME NEW e \in Exts
    PROVE  {ArcOf[e], PkgOf[e], TarOf[e]} \cap {"wasiDir", "wasiStage"} = {}
BY DEF Exts, ArcOf, PkgOf, TarOf

(* Writing one artifact with a content keeps file a map to contents. *)
LEMMA WriteTyped ==
    ASSUME NEW f \in [Artifacts -> Contents], NEW a \in Artifacts,
           NEW v \in Contents
    PROVE  [f EXCEPT ![a] = v] \in [Artifacts -> Contents]
OBVIOUS

(* Derive yields a content. *)
LEMMA DeriveTyped ==
    ASSUME NEW S
    PROVE  Derive(S) \in Contents
BY DEF Derive, Contents

-----------------------------------------------------------------------------
(* The helpers shared by several actions keep the types. *)

LEMMA FetchTyped ==
    ASSUME TypeOK, NEW a \in Artifacts, NEW next \in Labels, Fetch(a, next)
    PROVE  /\ pc' \in Labels
           /\ file' \in [Artifacts -> Contents]
           /\ faults' \in 0..MaxFaults
           /\ err' \in Errors
<1>. USE MaxFaultsAssumption
<1>1. CASE file[a] # "absent" /\ pc' = next /\ UNCHANGED <<file, faults, err>>
  BY <1>1 DEF TypeOK
<1>2. CASE file[a] = "absent" /\ file' = [file EXCEPT ![a] = "good"]
           /\ pc' = next /\ UNCHANGED <<faults, err>>
  BY <1>2, WriteTyped DEF TypeOK, Contents
<1>3. CASE /\ file[a] = "absent" /\ faults < MaxFaults
           /\ faults' = faults + 1
           /\ \/ /\ file' = [file EXCEPT ![a] = "tainted"]
                 /\ pc' = next
                 /\ UNCHANGED err
              \/ /\ \E v \in {"absent", "partial"} :
                        file' = [file EXCEPT ![a] = v]
                 /\ Fail("DownloadError")
  BY <1>3, WriteTyped DEF TypeOK, Contents, Fail, Labels, Idle, Errors
<1>. QED
  BY <1>1, <1>2, <1>3 DEF Fetch

LEMMA VerifyTyped ==
    ASSUME TypeOK, NEW a \in Artifacts, NEW listed, NEW next \in Labels,
           Verify(a, listed, next)
    PROVE  /\ pc' \in Labels
           /\ file' \in [Artifacts -> Contents]
           /\ faults' \in 0..MaxFaults
           /\ err' \in Errors
BY DEF Verify, TypeOK, Fail, Labels, Idle, Errors

LEMMA TornTyped ==
    ASSUME TypeOK, NEW a \in Artifacts, Torn(a)
    PROVE  /\ pc' \in Labels
           /\ file' \in [Artifacts -> Contents]
           /\ faults' \in 0..MaxFaults
           /\ err' \in Errors
BY MaxFaultsAssumption, WriteTyped
   DEF Torn, TypeOK, Fail, Labels, Idle, Errors, Contents

LEMMA ExtReturnTyped ==
    ASSUME TypeOK, ExtReturn
    PROVE  pc' \in Labels /\ cur' \in Exts
BY DEF ExtReturn, TypeOK, Labels, Idle, GuestSteps, Running, Exts

-----------------------------------------------------------------------------
(* Type correctness: TypeOK holds in every reachable state. *)
THEOREM TypeCorrect == Spec => []TypeOK
<1>1. Init => TypeOK
  <2> SUFFICES ASSUME Init PROVE TypeOK
    OBVIOUS
  <2>1. pc \in Labels /\ entry \in Entries /\ cur \in Exts
    BY DEF Init, Labels, Idle, Entries, Exts
  <2>2. file \in [Artifacts -> Contents]
    BY DEF Init, Contents
  <2>3. faults \in 0..MaxFaults /\ err \in Errors
    BY MaxFaultsAssumption DEF Init, Errors
  <2>. QED
    BY <2>1, <2>2, <2>3 DEF TypeOK
<1>2. TypeOK /\ [Next]_vars => TypeOK'
  <2> SUFFICES ASSUME TypeOK, [Next]_vars PROVE TypeOK'
    OBVIOUS
  <2>. DEFINE Lbl == {"g_start", "g_pyd_fetch", "g_pyd_verify", "g_ext",
                      "g_extract", "g_componentize", "c_wasi_fetch",
                      "c_wasi_verify", "c_wasi_extract", "c_wasi_mv",
                      "c_headers_check", "c_py_fetch", "c_py_verify",
                      "c_py_extract", "c_configure", "c_headers_copy",
                      "e_start", "e_fetch", "e_verify", "e_compile",
                      "e_package", "init", "done", "failed"}
  <2>0. Labels = Lbl
    BY DEF Labels, Idle, Running, GuestSteps, CPythonSteps, ExtSteps
  <2>a. "wasiTar" \in Artifacts /\ "wasiStage" \in Artifacts
        /\ "wasiDir" \in Artifacts /\ "pyTar" \in Artifacts
        /\ "pySrc" \in Artifacts /\ "headers" \in Artifacts
        /\ "pydTar" \in Artifacts /\ "envWasm" \in Artifacts
    BY DEF Artifacts
  <2>1. ASSUME NEW e \in Entries, Start(e) PROVE TypeOK'
    <3>1. pc' \in Labels
      <4>1. CASE e = "guest"
        BY <2>1, <4>1, <2>0 DEF Start
      <4>2. CASE e = "cpython"
        BY <2>1, <4>2, <2>0 DEF Start
      <4>3. CASE e \in Exts
        BY <2>1, <4>3, <2>0 DEF Start, Exts
      <4>. QED
        BY <4>1, <4>2, <4>3 DEF Entries
    <3>. QED
      BY <2>1, <3>1 DEF Start, TypeOK, Entries, Exts, Errors
  <2>2. CASE GuestStart
    BY <2>2, <2>0 DEF GuestStart, TypeOK
  <2>3. CASE FetchWasiSdk
    BY <2>3, <2>0, <2>a, FetchTyped DEF FetchWasiSdk, TypeOK
  <2>4. CASE VerifyWasiSdk
    BY <2>4, <2>0, <2>a, VerifyTyped DEF VerifyWasiSdk, TypeOK
  <2>5. CASE ExtractWasiSdk
    <3>1. file["wasiTar"] \in Contents
      BY <2>a DEF TypeOK
    <3>. QED
      BY <2>5, <2>0, <2>a, <3>1, WriteTyped, TornTyped
         DEF ExtractWasiSdk, TypeOK, Fail, Errors, Contents, Complete
  <2>6. CASE MoveWasiSdk
    <3>1. file["wasiStage"] \in Contents
      BY <2>a DEF TypeOK
    <3>2. [file EXCEPT !["wasiDir"] = file["wasiStage"],
                       !["wasiStage"] = "absent"] \in [Artifacts -> Contents]
      BY <2>a, <3>1 DEF TypeOK, Contents
    <3>. QED
      BY <2>6, <2>0, <3>2 DEF MoveWasiSdk, TypeOK
  <2>7. CASE CheckHeaders
    BY <2>7, <2>0 DEF CheckHeaders, CPythonReturn, TypeOK
  <2>8. CASE FetchCPython
    BY <2>8, <2>0, <2>a, FetchTyped DEF FetchCPython, TypeOK
  <2>9. CASE VerifyCPython
    BY <2>9, <2>0, <2>a, VerifyTyped DEF VerifyCPython, TypeOK
  <2>10. CASE ExtractCPython
    <3>1. file["pyTar"] \in Contents
      BY <2>a DEF TypeOK
    <3>. QED
      BY <2>10, <2>0, <2>a, <3>1, WriteTyped, TornTyped
         DEF ExtractCPython, TypeOK
  <2>11. CASE ConfigureCPython
    BY <2>11, <2>0 DEF ConfigureCPython, TypeOK, Fail, Errors
  <2>12. CASE CopyHeaders
    <3>1. file["pySrc"] \in Contents
      BY <2>a DEF TypeOK
    <3>. QED
      BY <2>12, <2>0, <2>a, <3>1, WriteTyped, TornTyped
         DEF CopyHeaders, CPythonReturn, TypeOK
  <2>13. CASE FetchPydantic
    BY <2>13, <2>0, <2>a, FetchTyped DEF FetchPydantic, TypeOK
  <2>14. CASE VerifyPydantic
    BY <2>14, <2>0, <2>a, VerifyTyped DEF VerifyPydantic, TypeOK, Exts
  <2>15. CASE GuestExt
    BY <2>15, <2>0, ExtReturnTyped DEF GuestExt, TypeOK
  <2>16. CASE ExtPrereq
    <3>1. PkgOf[cur] \in Artifacts
      BY ExtArtifacts DEF TypeOK
    <3>. QED
      BY <2>16, <2>0, <3>1, ExtReturnTyped, WriteTyped
         DEF ExtPrereq, TypeOK, Fail, Errors, Contents
  <2>17. CASE ExtFetch
    BY <2>17, <2>0, ExtArtifacts, FetchTyped DEF ExtFetch, TypeOK
  <2>18. CASE ExtVerify
    BY <2>18, <2>0, ExtArtifacts, VerifyTyped DEF ExtVerify, TypeOK
  <2>19. CASE ExtCompile
    <3>1. PkgOf[cur] \in Artifacts
      BY ExtArtifacts DEF TypeOK
    <3>. QED
      BY <2>19, <2>0, <3>1, WriteTyped, DeriveTyped, TornTyped
         DEF ExtCompile, TypeOK, Fail, Errors
  <2>20. CASE ExtPackage
    <3>1. PkgOf[cur] \in Artifacts /\ TarOf[cur] \in Artifacts
      BY ExtArtifacts DEF TypeOK
    <3>2. file[PkgOf[cur]] \in Contents
      BY <3>1 DEF TypeOK
    <3>. QED
      BY <2>20, <2>0, <3>1, <3>2, WriteTyped, TornTyped, ExtReturnTyped
         DEF ExtPackage, TypeOK
  <2>21. CASE AssembleExtract
    BY <2>21, <2>0 DEF AssembleExtract, TypeOK, Fail, Errors
  <2>22. CASE Componentize
    BY <2>22, <2>0, <2>a, WriteTyped, DeriveTyped, TornTyped
       DEF Componentize, TypeOK
  <2>23. CASE Interrupt
    BY <2>23, <2>0, MaxFaultsAssumption
       DEF Interrupt, TypeOK, Fail, Errors
  <2>24. CASE UNCHANGED vars
    BY <2>24 DEF vars, TypeOK
  <2>. QED
    BY <2>1, <2>2, <2>3, <2>4, <2>5, <2>6, <2>7, <2>8, <2>9, <2>10,
       <2>11, <2>12, <2>13, <2>14, <2>15, <2>16, <2>17, <2>18, <2>19,
       <2>20, <2>21, <2>22, <2>23, <2>24
       DEF Next, Step
<1>. QED
  BY <1>1, <1>2, PTL DEF Spec

-----------------------------------------------------------------------------
(* ToolchainNeverPartial is not inductive by itself: MoveWasiSdk renames   *)
(* whatever is in the staging directory, so the invariant must also say    *)
(* that the staging directory is complete whenever the rename is next.     *)
(* Only ExtractWasiSdk leads to the rename, and it does so only after tar  *)
(* has unpacked a complete tarball; an interrupted or failed tar leaves    *)
(* the run failed.                                                         *)
ToolchainInv ==
    /\ file["wasiDir"] # "partial"
    /\ pc = "c_wasi_mv" => file["wasiStage"] \in Complete

(* A step that neither renames nor unpacks the toolchain leaves the two    *)
(* toolchain directories alone and does not lead to the rename.            *)
ToolchainFrame ==
    /\ file'["wasiDir"] = file["wasiDir"]
    /\ file'["wasiStage"] = file["wasiStage"]
    /\ pc' # "c_wasi_mv"

LEMMA ToolchainArtifacts ==
    {"wasiDir", "wasiStage"} \subseteq Artifacts
BY DEF Artifacts

LEMMA TornFrame ==
    ASSUME TypeOK, NEW a \in Artifacts \ {"wasiDir", "wasiStage"}, Torn(a)
    PROVE  ToolchainFrame
BY ToolchainArtifacts DEF Torn, Fail, TypeOK, ToolchainFrame

LEMMA FetchFrame ==
    ASSUME TypeOK, NEW a \in Artifacts \ {"wasiDir", "wasiStage"},
           NEW next \in Labels \ {"c_wasi_mv"}, Fetch(a, next)
    PROVE  ToolchainFrame
BY ToolchainArtifacts DEF Fetch, Fail, TypeOK, ToolchainFrame

LEMMA VerifyFrame ==
    ASSUME NEW a, NEW listed, NEW next \in Labels \ {"c_wasi_mv"},
           Verify(a, listed, next)
    PROVE  ToolchainFrame
BY DEF Verify, Fail, ToolchainFrame

LEMMA ExtReturnFrame ==
    ASSUME ExtReturn PROVE pc' # "c_wasi_mv"
BY DEF ExtReturn

(* The provisioned toolchain is never half there. *)
THEOREM ToolchainAtomic == Spec => []ToolchainNeverPartial
<1>1. Init => ToolchainInv
  BY ToolchainArtifacts DEF Init, ToolchainInv
<1>2. TypeOK /\ ToolchainInv /\ [Next]_vars => ToolchainInv'
  <2> SUFFICES ASSUME TypeOK, ToolchainInv, [Next]_vars PROVE ToolchainInv'
    OBVIOUS
  <2>. USE ToolchainArtifacts
  <2>0. ToolchainFrame => ToolchainInv'
    BY DEF ToolchainFrame, ToolchainInv
  <2>a. /\ "wasiTar" \in Artifacts \ {"wasiDir", "wasiStage"}
        /\ "pyTar" \in Artifacts \ {"wasiDir", "wasiStage"}
        /\ "pySrc" \in Artifacts \ {"wasiDir", "wasiStage"}
        /\ "headers" \in Artifacts \ {"wasiDir", "wasiStage"}
        /\ "pydTar" \in Artifacts \ {"wasiDir", "wasiStage"}
        /\ "envWasm" \in Artifacts \ {"wasiDir", "wasiStage"}
    BY DEF Artifacts
  <2>b. /\ ArcOf[cur] \in Artifacts \ {"wasiDir", "wasiStage"}
        /\ PkgOf[cur] \in Artifacts \ {"wasiDir", "wasiStage"}
        /\ TarOf[cur] \in Artifacts \ {"wasiDir", "wasiStage"}
    BY ExtArtifacts, ExtNotToolchain DEF TypeOK
  <2>c. {"c_wasi_verify", "c_py_verify", "g_pyd_verify", "e_verify",
         "c_wasi_extract", "c_py_extract", "g_ext", "e_compile"}
        \subseteq Labels \ {"c_wasi_mv"}
    BY DEF Labels, Running, GuestSteps, CPythonSteps, ExtSteps
  <2>1. ASSUME NEW e \in Entries, Start(e) PROVE ToolchainInv'
    BY <2>1, <2>0 DEF Start, ToolchainFrame
  <2>2. CASE GuestStart
    BY <2>2, <2>0 DEF GuestStart, ToolchainFrame
  <2>3. CASE FetchWasiSdk
    BY <2>3, <2>0, <2>a, <2>c, FetchFrame DEF FetchWasiSdk
  <2>4. CASE VerifyWasiSdk
    BY <2>4, <2>0, <2>c, VerifyFrame DEF VerifyWasiSdk
  <2>5. CASE ExtractWasiSdk
    BY <2>5, <2>0 DEF ExtractWasiSdk, Torn, Fail, ToolchainFrame,
                      ToolchainInv, TypeOK, Complete
  <2>6. CASE MoveWasiSdk
    BY <2>6 DEF MoveWasiSdk, ToolchainInv, TypeOK, Complete
  <2>7. CASE CheckHeaders
    BY <2>7, <2>0 DEF CheckHeaders, CPythonReturn, ToolchainFrame
  <2>8. CASE FetchCPython
    BY <2>8, <2>0, <2>a, <2>c, FetchFrame DEF FetchCPython
  <2>9. CASE VerifyCPython
    BY <2>9, <2>0, <2>c, VerifyFrame DEF VerifyCPython
  <2>10. CASE ExtractCPython
    BY <2>10, <2>0, <2>a, TornFrame DEF ExtractCPython, ToolchainFrame, TypeOK
  <2>11. CASE ConfigureCPython
    BY <2>11, <2>0 DEF ConfigureCPython, Fail, ToolchainFrame
  <2>12. CASE CopyHeaders
    BY <2>12, <2>0, <2>a, TornFrame
       DEF CopyHeaders, CPythonReturn, ToolchainFrame, TypeOK
  <2>13. CASE FetchPydantic
    BY <2>13, <2>0, <2>a, <2>c, FetchFrame DEF FetchPydantic
  <2>14. CASE VerifyPydantic
    BY <2>14, <2>0, <2>c, VerifyFrame DEF VerifyPydantic
  <2>15. CASE GuestExt
    BY <2>15, <2>0, ExtReturnFrame DEF GuestExt, ToolchainFrame
  <2>16. CASE ExtPrereq
    BY <2>16, <2>0, <2>b, ExtReturnFrame
       DEF ExtPrereq, Fail, ToolchainFrame, TypeOK
  <2>17. CASE ExtFetch
    BY <2>17, <2>0, <2>b, <2>c, FetchFrame DEF ExtFetch
  <2>18. CASE ExtVerify
    BY <2>18, <2>0, <2>c, VerifyFrame DEF ExtVerify
  <2>19. CASE ExtCompile
    BY <2>19, <2>0, <2>b, TornFrame DEF ExtCompile, Fail, ToolchainFrame, TypeOK
  <2>20. CASE ExtPackage
    BY <2>20, <2>0, <2>b, TornFrame, ExtReturnFrame
       DEF ExtPackage, ToolchainFrame, TypeOK
  <2>21. CASE AssembleExtract
    BY <2>21, <2>0 DEF AssembleExtract, Fail, ToolchainFrame
  <2>22. CASE Componentize
    BY <2>22, <2>0, <2>a, TornFrame DEF Componentize, ToolchainFrame, TypeOK
  <2>23. CASE Interrupt
    BY <2>23, <2>0 DEF Interrupt, Fail, ToolchainFrame
  <2>24. CASE UNCHANGED vars
    BY <2>24 DEF vars, ToolchainInv
  <2>. QED
    BY <2>1, <2>2, <2>3, <2>4, <2>5, <2>6, <2>7, <2>8, <2>9, <2>10,
       <2>11, <2>12, <2>13, <2>14, <2>15, <2>16, <2>17, <2>18, <2>19,
       <2>20, <2>21, <2>22, <2>23, <2>24
       DEF Next, Step
<1>3. ToolchainInv => ToolchainNeverPartial
  BY DEF ToolchainInv, ToolchainNeverPartial
<1>. QED
  BY <1>1, <1>2, <1>3, TypeCorrect, PTL DEF Spec

-----------------------------------------------------------------------------
(* NoTaintedBuild and SuccessImpliesSound are not inductive by themselves: *)
(* each step that unpacks, compiles or assembles reads an archive that     *)
(* only the shasum check before it vouches for.  SoundInv records, for the *)
(* step after each check, that the checked archive holds the pinned bytes  *)
(* (nothing writes an archive between its check and its use), and that     *)
(* the assembly is reached only by the driver, after `tar -xf` found the   *)
(* three extension tarballs complete.                                      *)
ExtRunning == {"e_start", "e_fetch", "e_verify", "e_compile", "e_package"}

SoundRest ==
    /\ pc = "c_wasi_extract" => file["wasiTar"] = "good"
    /\ pc = "c_py_extract" => file["pyTar"] = "good"
    /\ pc = "e_compile" => file[ArcOf[cur]] = "good"
    /\ (entry = "guest" /\ pc \in {"g_ext", "g_extract", "g_componentize"}
                                  \cup ExtRunning) => file["pydTar"] = "good"
    /\ pc \in GuestSteps => entry = "guest"
    /\ pc = "g_componentize" => \A e \in Exts : file[TarOf[e]] \in Complete
    /\ SuccessImpliesSound

SoundInv == NoTaintedBuild /\ SoundRest

(* The names of an extension's archive, build directory and tarball. *)
LEMMA ExtNames ==
    ASSUME NEW e \in Exts
    PROVE  /\ ArcOf[e] \in {"msgspecArc", "xxhashArc"}
           /\ PkgOf[e] \in {"msgspecPkg", "xxhashPkg"}
           /\ TarOf[e] \in {"msgspecTar", "xxhashTar"}
BY DEF Exts, ArcOf, PkgOf, TarOf

(* A build whose inputs include no unpinned bytes yields no unpinned bytes, *)
(* and one made only from pinned bytes yields the pinned result.           *)
LEMMA DeriveUntainted ==
    ASSUME NEW S, "tainted" \notin S
    PROVE  Derive(S) # "tainted"
BY DEF Derive, Complete

LEMMA DeriveGood ==
    ASSUME NEW S, S \subseteq {"good"}
    PROVE  Derive(S) = "good"
BY DEF Derive

(* Built artifacts, spelled out. *)
LEMMA BuiltNames ==
    Built = {"wasiStage", "wasiDir", "pySrc", "headers", "envWasm",
             "msgspecPkg", "xxhashPkg", "msgspecTar", "xxhashTar"}
BY DEF Built, Exts, PkgOf, TarOf

LEMMA BuiltArtifacts == Built \subseteq Artifacts
BY DEF Built, Artifacts

(* Writing an artifact keeps the built ones free of unpinned bytes when    *)
(* what is written to a built artifact is not unpinned.                    *)
LEMMA WriteUntainted ==
    ASSUME NEW f \in [Artifacts -> Contents],
           \A b \in Built : f[b] # "tainted",
           NEW a \in Artifacts, NEW v, a \in Built => v # "tainted"
    PROVE  \A b \in Built : [f EXCEPT ![a] = v][b] # "tainted"
BY BuiltArtifacts

(* A download writes only the archive it fetches, and a cut-short write    *)
(* leaves partial bytes.                                                   *)
LEMMA FetchUntainted ==
    ASSUME TypeOK, NoTaintedBuild, NEW a \in Artifacts \ Built, NEW next,
           Fetch(a, next)
    PROVE  NoTaintedBuild'
<1>1. CASE file' = file
  BY <1>1 DEF NoTaintedBuild
<1>2. CASE \E v \in Contents : file' = [file EXCEPT ![a] = v]
  <2>1. PICK v \in Contents : file' = [file EXCEPT ![a] = v]
    BY <1>2
  <2>. QED
    BY <2>1, WriteUntainted DEF TypeOK, NoTaintedBuild
<1>. QED
  BY <1>1, <1>2 DEF Fetch, Contents

LEMMA TornUntainted ==
    ASSUME TypeOK, NoTaintedBuild, NEW a \in Artifacts, Torn(a)
    PROVE  NoTaintedBuild'
BY WriteUntainted DEF Torn, TypeOK, NoTaintedBuild

(* Where an extension script returns to. *)
LEMMA ExtReturnCases ==
    ASSUME ExtReturn
    PROVE  \/ entry # "guest" /\ pc' = "done"
           \/ entry = "guest" /\ pc' \in {"g_ext", "g_extract"}
BY DEF ExtReturn

(* At the assembly, env.wasm is built from pinned bytes only. *)
LEMMA AssemblyInputsGood ==
    ASSUME TypeOK, SoundInv, pc = "g_componentize"
    PROVE  {file["pydTar"]} \cup {file[TarOf[e]] : e \in Exts} \subseteq {"good"}
<1>1. entry = "guest" /\ file["pydTar"] = "good"
  BY DEF SoundInv, SoundRest, GuestSteps
<1>2. ASSUME NEW e \in Exts PROVE file[TarOf[e]] = "good"
  <2>1. file[TarOf[e]] \in Complete
    BY DEF SoundInv, SoundRest
  <2>2. TarOf[e] \in Built
    BY DEF Built
  <2>. QED
    BY <2>1, <2>2 DEF SoundInv, NoTaintedBuild, Complete
<1>. QED
  BY <1>1, <1>2

(* SoundInv holds initially: nothing is built and no script runs. *)
LEMMA InitSoundInv == Init => SoundInv
<1> SUFFICES ASSUME Init PROVE SoundInv
  OBVIOUS
<1>1. NoTaintedBuild
  BY BuiltArtifacts DEF Init, NoTaintedBuild
<1>2. SoundRest
  BY DEF Init, SoundRest, SuccessImpliesSound, GuestSteps, ExtRunning
<1>. QED
  BY <1>1, <1>2 DEF SoundInv

(* Every step keeps SoundInv when the sums file lists the platform's       *)
(* wasi-sdk tarball.                                                       *)
LEMMA SoundInvInductive ==
    ASSUME WasiSumListed, TypeOK, SoundInv, [Next]_vars
    PROVE  SoundInv'
<1>. USE BuiltNames DEF SoundInv, SoundRest, NoTaintedBuild, SuccessImpliesSound,
                       ExtRunning, GuestSteps
<1>a. cur \in Exts /\ file \in [Artifacts -> Contents]
  BY DEF TypeOK
<1>b. /\ ArcOf[cur] \in {"msgspecArc", "xxhashArc"}
      /\ PkgOf[cur] \in {"msgspecPkg", "xxhashPkg"}
      /\ TarOf[cur] \in {"msgspecTar", "xxhashTar"}
  BY <1>a, ExtNames
<1>c. /\ {"wasiTar", "wasiStage", "wasiDir", "pyTar", "pySrc", "headers",
          "pydTar", "envWasm"} \subseteq Artifacts
      /\ {ArcOf[cur], PkgOf[cur], TarOf[cur]} \subseteq Artifacts
  BY <1>a, ExtArtifacts DEF Artifacts
<1>1. ASSUME NEW e \in Entries, Start(e) PROVE SoundInv'
  BY <1>1 DEF Start
<1>2. CASE GuestStart
  BY <1>2 DEF GuestStart
<1>3. CASE FetchWasiSdk
  <2>1. NoTaintedBuild'
    BY <1>3, <1>c, FetchUntainted DEF FetchWasiSdk
  <2>2. SoundRest'
    BY <1>a, <1>c, <1>3 DEF FetchWasiSdk, Fetch, Fail
  <2>. QED
    BY <2>1, <2>2
<1>4. CASE VerifyWasiSdk
  BY <1>4 DEF VerifyWasiSdk, Verify, Fail
<1>5. CASE ExtractWasiSdk
  <2>1. NoTaintedBuild'
    <3>1. CASE file' = file
      BY <3>1
    <3>2. CASE file' = [file EXCEPT !["wasiStage"] = file["wasiTar"]]
      BY <3>2, <1>c, <1>5, WriteUntainted DEF ExtractWasiSdk, TypeOK
    <3>3. CASE file' = [file EXCEPT !["wasiStage"] = "partial"]
      BY <3>3, <1>c, WriteUntainted DEF TypeOK
    <3>4. CASE Torn("wasiStage")
      BY <3>4, <1>c, TornUntainted
    <3>. QED
      BY <3>1, <3>2, <3>3, <3>4, <1>5 DEF ExtractWasiSdk
  <2>2. SoundRest'
    BY <1>a, <1>c, <1>5 DEF ExtractWasiSdk, Torn, Fail
  <2>. QED
    BY <2>1, <2>2
<1>6. CASE MoveWasiSdk
  <2>1. NoTaintedBuild'
    <3>. DEFINE g == [file EXCEPT !["wasiDir"] = file["wasiStage"]]
    <3>1. g \in [Artifacts -> Contents] /\ \A b \in Built : g[b] # "tainted"
      BY <1>a, <1>c, WriteUntainted, WriteTyped DEF NoTaintedBuild
    <3>2. file' = [g EXCEPT !["wasiStage"] = "absent"]
      BY <1>6 DEF MoveWasiSdk
    <3>3. \A b \in Built : [g EXCEPT !["wasiStage"] = "absent"][b] # "tainted"
      BY <3>1, <1>c, WriteUntainted
    <3>. QED
      BY <3>2, <3>3 DEF NoTaintedBuild
  <2>2. SoundRest'
    BY <1>a, <1>c, <1>6 DEF MoveWasiSdk
  <2>. QED
    BY <2>1, <2>2
<1>7. CASE CheckHeaders
  BY <1>7 DEF CheckHeaders, CPythonReturn
<1>8. CASE FetchCPython
  <2>1. NoTaintedBuild'
    BY <1>8, <1>c, FetchUntainted DEF FetchCPython
  <2>2. SoundRest'
    BY <1>a, <1>c, <1>8 DEF FetchCPython, Fetch, Fail
  <2>. QED
    BY <2>1, <2>2
<1>9. CASE VerifyCPython
  BY <1>9 DEF VerifyCPython, Verify, Fail
<1>10. CASE ExtractCPython
  <2>1. NoTaintedBuild'
    <3>1. CASE file' = file
      BY <3>1
    <3>2. CASE file' = [file EXCEPT !["pySrc"] = file["pyTar"]]
      BY <3>2, <1>c, <1>10, WriteUntainted DEF ExtractCPython, TypeOK
    <3>3. CASE Torn("pySrc")
      BY <3>3, <1>c, TornUntainted
    <3>. QED
      BY <3>1, <3>2, <3>3, <1>10 DEF ExtractCPython
  <2>2. SoundRest'
    BY <1>a, <1>c, <1>10 DEF ExtractCPython, Torn, Fail
  <2>. QED
    BY <2>1, <2>2
<1>11. CASE ConfigureCPython
  BY <1>11 DEF ConfigureCPython, Fail
<1>12. CASE CopyHeaders
  <2>1. NoTaintedBuild'
    <3>1. CASE file' = [file EXCEPT !["headers"] = file["pySrc"]]
      BY <3>1, <1>c, WriteUntainted DEF TypeOK
    <3>2. CASE Torn("headers")
      BY <3>2, <1>c, TornUntainted
    <3>. QED
      BY <3>1, <3>2, <1>12 DEF CopyHeaders
  <2>2. SoundRest'
    BY <1>a, <1>c, <1>12 DEF CopyHeaders, CPythonReturn, Torn, Fail
  <2>. QED
    BY <2>1, <2>2
<1>13. CASE FetchPydantic
  <2>1. NoTaintedBuild'
    BY <1>13, <1>c, FetchUntainted DEF FetchPydantic
  <2>2. SoundRest'
    BY <1>a, <1>c, <1>13 DEF FetchPydantic, Fetch, Fail
  <2>. QED
    BY <2>1, <2>2
<1>14. CASE VerifyPydantic
  BY <1>14 DEF VerifyPydantic, Verify, Fail
<1>15. CASE GuestExt
  BY <1>15, <1>b DEF GuestExt, ExtReturn
<1>16. CASE ExtPrereq
  <2>1. NoTaintedBuild'
    <3>1. CASE file' = file
      BY <3>1
    <3>2. CASE file' = [file EXCEPT ![PkgOf[cur]] = "absent"]
      BY <3>2, <1>c, WriteUntainted DEF TypeOK
    <3>. QED
      BY <3>1, <3>2, <1>16 DEF ExtPrereq
  <2>2. SoundRest'
    <3>1. CASE ExtReturn /\ UNCHANGED <<entry, file>>
      <4>1. pc = "e_start"
        BY <1>16 DEF ExtPrereq
      <4>. QED
        BY <3>1, <4>1, ExtReturnCases
    <3>2. CASE pc' = "failed"
      BY <3>2, <1>16 DEF ExtPrereq
    <3>3. CASE /\ file' = [file EXCEPT ![PkgOf[cur]] = "absent"]
               /\ pc' = "e_fetch" /\ UNCHANGED <<entry, cur>>
      BY <3>3, <1>a, <1>b, <1>c, <1>16 DEF ExtPrereq
    <3>. QED
      BY <3>1, <3>2, <3>3, <1>16 DEF ExtPrereq, Fail
  <2>. QED
    BY <2>1, <2>2
<1>17. CASE ExtFetch
  <2>1. NoTaintedBuild'
    BY <1>17, <1>b, <1>c, FetchUntainted DEF ExtFetch
  <2>2. SoundRest'
    BY <1>a, <1>c, <1>17, <1>b DEF ExtFetch, Fetch, Fail
  <2>. QED
    BY <2>1, <2>2
<1>18. CASE ExtVerify
  BY <1>18, <1>b DEF ExtVerify, Verify, Fail
<1>19. CASE ExtCompile
  <2>1. NoTaintedBuild'
    <3>1. CASE /\ file["headers"] \in Complete
               /\ file' = [file EXCEPT ![PkgOf[cur]] =
                             Derive({file[ArcOf[cur]], file["headers"],
                                     file["wasiDir"]})]
               /\ pc = "e_compile"
      <4>1. "tainted" \notin {file[ArcOf[cur]], file["headers"], file["wasiDir"]}
        BY <3>1
      <4>2. Derive({file[ArcOf[cur]], file["headers"], file["wasiDir"]}) # "tainted"
        BY <4>1, DeriveUntainted
      <4>. QED
        BY <3>1, <4>2, <1>c, WriteUntainted DEF TypeOK
    <3>2. CASE file' = file
      BY <3>2
    <3>3. CASE Torn(PkgOf[cur])
      BY <3>3, <1>c, TornUntainted
    <3>. QED
      BY <3>1, <3>2, <3>3, <1>19 DEF ExtCompile, Fail
  <2>2. SoundRest'
    BY <1>a, <1>c, <1>19, <1>b, DeriveUntainted DEF ExtCompile, Torn, Fail
  <2>. QED
    BY <2>1, <2>2
<1>20. CASE ExtPackage
  <2>1. NoTaintedBuild'
    <3>1. CASE file' = [file EXCEPT ![TarOf[cur]] = file[PkgOf[cur]]]
      <4>1. file[PkgOf[cur]] # "tainted"
        BY <1>b
      <4>. QED
        BY <3>1, <4>1, <1>c, WriteUntainted DEF TypeOK
    <3>2. CASE Torn(TarOf[cur])
      BY <3>2, <1>c, TornUntainted
    <3>. QED
      BY <3>1, <3>2, <1>20 DEF ExtPackage
  <2>2. SoundRest'
    <3>1. CASE /\ file' = [file EXCEPT ![TarOf[cur]] = file[PkgOf[cur]]]
               /\ ExtReturn /\ UNCHANGED entry
      <4>1. file'["pydTar"] = file["pydTar"]
        BY <3>1, <1>a, <1>b, <1>c
      <4>. QED
        BY <3>1, <4>1, <1>20, ExtReturnCases DEF ExtPackage
    <3>2. CASE Torn(TarOf[cur])
      BY <3>2 DEF Torn, Fail
    <3>. QED
      BY <3>1, <3>2, <1>20 DEF ExtPackage
  <2>. QED
    BY <2>1, <2>2
<1>21. CASE AssembleExtract
  BY <1>21 DEF AssembleExtract, Fail
<1>22. CASE Componentize
  <2>1. NoTaintedBuild'
    <3>1. CASE file' = [file EXCEPT !["envWasm"] =
                   Derive({file["pydTar"]} \cup {file[TarOf[e]] : e \in Exts})]
      <4>1. Derive({file["pydTar"]} \cup {file[TarOf[e]] : e \in Exts}) = "good"
        BY <1>22, AssemblyInputsGood, DeriveGood DEF Componentize
      <4>. QED
        BY <3>1, <4>1, <1>c, WriteUntainted DEF TypeOK
    <3>2. CASE Torn("envWasm")
      BY <3>2, <1>c, TornUntainted
    <3>. QED
      BY <3>1, <3>2, <1>22 DEF Componentize
  <2>2. SoundRest'
    <3>1. CASE /\ file' = [file EXCEPT !["envWasm"] =
                   Derive({file["pydTar"]} \cup {file[TarOf[e]] : e \in Exts})]
               /\ pc' = "done"
      <4>1. Derive({file["pydTar"]} \cup {file[TarOf[e]] : e \in Exts}) = "good"
        BY <1>22, AssemblyInputsGood, DeriveGood DEF Componentize
      <4>2. entry' = "guest"
        BY <1>22 DEF Componentize
      <4>. QED
        BY <3>1, <4>1, <4>2, <1>a, <1>c
    <3>2. CASE Torn("envWasm")
      BY <3>2 DEF Torn, Fail
    <3>. QED
      BY <3>1, <3>2, <1>22 DEF Componentize
  <2>. QED
    BY <2>1, <2>2
<1>23. CASE Interrupt
  BY <1>23 DEF Interrupt, Fail
<1>24. CASE UNCHANGED vars
  BY <1>24 DEF vars
<1>. QED
  BY <1>1, <1>2, <1>3, <1>4, <1>5, <1>6, <1>7, <1>8, <1>9, <1>10,
     <1>11, <1>12, <1>13, <1>14, <1>15, <1>16, <1>17, <1>18, <1>19,
     <1>20, <1>21, <1>22, <1>23, <1>24
     DEF Next, Step

(* SoundInv holds in every reachable state when the sums file lists the    *)
(* platform's wasi-sdk tarball.                                            *)
LEMMA SoundInvariant == WasiSumListed => (Spec => []SoundInv)
<1> SUFFICES ASSUME WasiSumListed PROVE Spec => []SoundInv
  OBVIOUS
<1>1. TypeOK /\ SoundInv /\ [Next]_vars => SoundInv'
  BY SoundInvInductive
<1>. QED
  BY <1>1, InitSoundInv, TypeCorrect, PTL DEF Spec

(* The integrity gate (spec section 8): when wasi-sdk.sha256sum lists the  *)
(* platform's tarball, nothing the scripts build (the toolchain, the       *)
(* CPython tree and headers, the extension build directories and          *)
(* tarballs, env.wasm) is ever made of unpinned downloaded bytes, whatever *)
(* downloads return wrong bytes and whatever runs are interrupted: every   *)
(* `tar -xf`, `clang` and assembly reads an archive that `shasum -c`       *)
(* passed in the same run.  Without the line, unlisted_integrity shows it  *)
(* fails.                                                                  *)
THEOREM IntegrityGate == WasiSumListed => (Spec => []NoTaintedBuild)
BY SoundInvariant, PTL DEF SoundInv

(* A guest-driver run that ends without error has produced the pinned      *)
(* env.wasm (build_xxhash.sh's componentize-py step), whatever earlier     *)
(* runs were interrupted where, when the sums file lists the toolchain.    *)
THEOREM SoundSuccess == WasiSumListed => (Spec => []SuccessImpliesSound)
BY SoundInvariant, PTL DEF SoundInv, SoundRest

-----------------------------------------------------------------------------
(* The cache keys: every script writes a cache key only after a test     *)
(* found it missing, and nothing writes that key between the test and the *)
(* write (rm -rf py-headers-3.12 comes after the -d test failed, tar -czf  *)
(* after the -f test of <ext>-wasi.tar.gz failed, mv after the -d test of  *)
(* wasi-sdk-27.0 failed).  CacheInv records that the key is still missing  *)
(* at every step between the test and the write.                           *)
HeaderSteps == {"c_py_fetch", "c_py_verify", "c_py_extract", "c_configure",
                "c_headers_copy"}
ExtBuilding == {"e_fetch", "e_verify", "e_compile", "e_package"}

CacheInv ==
    /\ pc = "c_wasi_mv" => file["wasiDir"] = "absent"
    /\ pc \in HeaderSteps => file["headers"] = "absent"
    /\ pc \in ExtBuilding => file[TarOf[cur]] = "absent"

\* The step leaves every cache key as it was.
KeysKept == \A k \in CacheKeys : file'[k] = file[k]
\* The step writes a cache key only when it is missing.
OnlyMissingKeysWritten ==
    \A k \in CacheKeys : file'[k] # file[k] => file[k] = "absent"

(* Downloads, sources, staging directories and the component are no cache *)
(* keys; the output tarballs are.                                           *)
LEMMA CacheKeyNames ==
    /\ CacheKeys \subseteq Artifacts
    /\ {"wasiTar", "wasiStage", "pyTar", "pySrc", "pydTar", "envWasm"}
         \cap CacheKeys = {}
    /\ \A e \in Exts : ArcOf[e] \notin CacheKeys /\ PkgOf[e] \notin CacheKeys
                       /\ TarOf[e] \in CacheKeys
BY DEF CacheKeys, Artifacts, Exts, ArcOf, PkgOf, TarOf

(* Writing an artifact that is no cache key keeps every cache key. *)
LEMMA WriteOtherKeys ==
    ASSUME TypeOK, NEW a \in Artifacts \ CacheKeys, NEW v,
           file' = [file EXCEPT ![a] = v]
    PROVE  KeysKept
BY CacheKeyNames DEF TypeOK, KeysKept

LEMMA FetchKeys ==
    ASSUME TypeOK, NEW a \in Artifacts \ CacheKeys, NEW next, Fetch(a, next)
    PROVE  KeysKept /\ pc' \in {next, "failed"}
<1>1. CASE file' = file
  BY <1>1 DEF KeysKept, Fetch, Fail
<1>2. CASE \E v \in Contents : file' = [file EXCEPT ![a] = v]
  BY <1>2, WriteOtherKeys DEF Fetch, Fail
<1>. QED
  BY <1>1, <1>2 DEF Fetch, Contents

LEMMA TornKeys ==
    ASSUME TypeOK, NEW a \in Artifacts \ CacheKeys, Torn(a)
    PROVE  KeysKept /\ pc' = "failed"
BY WriteOtherKeys DEF Torn, Fail

LEMMA VerifyKeys ==
    ASSUME NEW a, NEW listed, NEW next, Verify(a, listed, next)
    PROVE  file' = file /\ pc' \in {next, "failed"}
BY DEF Verify, Fail

LEMMA ExtReturnKeys ==
    ASSUME ExtReturn PROVE pc' \in {"done", "g_ext", "g_extract"}
BY DEF ExtReturn

(* A step that keeps every cache key and moves to none of the steps        *)
(* CacheInv speaks of keeps CacheInv.                                      *)
LEMMA LeaveKeys ==
    ASSUME KeysKept, pc' \notin {"c_wasi_mv"} \cup HeaderSteps \cup ExtBuilding
    PROVE  CacheInv' /\ OnlyMissingKeysWritten
BY DEF KeysKept, CacheInv, OnlyMissingKeysWritten

(* Every step keeps CacheInv and writes cache keys only where missing. *)
LEMMA CacheStep ==
    ASSUME TypeOK, CacheInv, [Next]_vars
    PROVE  CacheInv' /\ OnlyMissingKeysWritten
<1>. USE CacheKeyNames
<1>a. /\ "wasiTar" \in Artifacts \ CacheKeys
      /\ "wasiStage" \in Artifacts \ CacheKeys
      /\ "pyTar" \in Artifacts \ CacheKeys
      /\ "pySrc" \in Artifacts \ CacheKeys
      /\ "pydTar" \in Artifacts \ CacheKeys
      /\ "envWasm" \in Artifacts \ CacheKeys
  BY DEF Artifacts
<1>b. /\ ArcOf[cur] \in Artifacts \ CacheKeys
      /\ PkgOf[cur] \in Artifacts \ CacheKeys
      /\ TarOf[cur] \in CacheKeys
      /\ PkgOf[cur] # TarOf[cur]
  BY ExtArtifacts DEF TypeOK, Exts, PkgOf, TarOf
<1>c. "failed" \notin {"c_wasi_mv"} \cup HeaderSteps \cup ExtBuilding
  BY DEF HeaderSteps, ExtBuilding
<1>d. file' = file => KeysKept
  BY DEF KeysKept
<1>1. ASSUME NEW e \in Entries, Start(e) PROVE CacheInv' /\ OnlyMissingKeysWritten
  BY <1>1, <1>d, LeaveKeys DEF Start, HeaderSteps, ExtBuilding
<1>2. CASE GuestStart
  BY <1>2, <1>d, LeaveKeys DEF GuestStart, HeaderSteps, ExtBuilding
<1>3. CASE FetchWasiSdk
  BY <1>3, <1>a, <1>c, FetchKeys, LeaveKeys DEF FetchWasiSdk, HeaderSteps, ExtBuilding
<1>4. CASE VerifyWasiSdk
  BY <1>4, <1>c, <1>d, VerifyKeys, LeaveKeys DEF VerifyWasiSdk, HeaderSteps, ExtBuilding
<1>5. CASE ExtractWasiSdk
  <2>1. CASE pc' = "c_wasi_mv"
    <3>1. file["wasiDir"] = "absent"
          /\ file' = [file EXCEPT !["wasiStage"] = file["wasiTar"]]
      BY <1>5, <2>1 DEF ExtractWasiSdk, Torn, Fail
    <3>2. KeysKept
      BY <3>1, <1>a, WriteOtherKeys
    <3>3. file'["wasiDir"] = "absent"
      BY <3>1, <3>2 DEF KeysKept, CacheKeys
    <3>. QED
      BY <2>1, <3>2, <3>3 DEF CacheInv, KeysKept, OnlyMissingKeysWritten,
         HeaderSteps, ExtBuilding
  <2>3. CASE pc' # "c_wasi_mv"
    <3>1. KeysKept /\ pc' \in {"c_headers_check", "failed"}
      BY <2>3, <1>5, <1>a, <1>d, WriteOtherKeys, TornKeys DEF ExtractWasiSdk, Fail
    <3>. QED
      BY <3>1, <1>c, LeaveKeys DEF HeaderSteps, ExtBuilding
  <2>. QED
    BY <2>1, <2>3
<1>6. CASE MoveWasiSdk
  <2>1. file["wasiDir"] = "absent"
    BY <1>6 DEF MoveWasiSdk, CacheInv
  <2>2. \A k \in CacheKeys \ {"wasiDir"} : file'[k] = file[k]
    BY <1>6, <1>a DEF MoveWasiSdk, TypeOK
  <2>. QED
    BY <1>6, <2>1, <2>2 DEF MoveWasiSdk, CacheInv, OnlyMissingKeysWritten,
       HeaderSteps, ExtBuilding
<1>7. CASE CheckHeaders
  BY <1>7, <1>d DEF CheckHeaders, CPythonReturn, CacheInv, KeysKept,
     OnlyMissingKeysWritten, HeaderSteps, ExtBuilding
<1>8. CASE FetchCPython
  <2>1. KeysKept /\ pc' \in {"c_py_verify", "failed"}
    BY <1>8, <1>a, FetchKeys DEF FetchCPython
  <2>2. file["headers"] = "absent"
    BY <1>8 DEF FetchCPython, CacheInv, HeaderSteps
  <2>3. file'["headers"] = file["headers"]
    BY <2>1 DEF KeysKept, CacheKeys
  <2>. QED
    BY <2>1, <2>2, <2>3 DEF CacheInv, KeysKept, OnlyMissingKeysWritten,
       HeaderSteps, ExtBuilding
<1>9. CASE VerifyCPython
  <2>1. file' = file /\ pc' \in {"c_py_extract", "failed"}
    BY <1>9, VerifyKeys DEF VerifyCPython
  <2>. QED
    BY <1>9, <2>1 DEF VerifyCPython, CacheInv, OnlyMissingKeysWritten,
       HeaderSteps, ExtBuilding
<1>10. CASE ExtractCPython
  <2>1. KeysKept /\ pc' \in {"c_configure", "failed"}
    BY <1>10, <1>a, <1>d, WriteOtherKeys, TornKeys DEF ExtractCPython
  <2>2. file["headers"] = "absent"
    BY <1>10 DEF ExtractCPython, CacheInv, HeaderSteps
  <2>3. file'["headers"] = file["headers"]
    BY <2>1 DEF KeysKept, CacheKeys
  <2>. QED
    BY <2>1, <2>2, <2>3 DEF CacheInv, KeysKept, OnlyMissingKeysWritten,
       HeaderSteps, ExtBuilding
<1>11. CASE ConfigureCPython
  BY <1>11 DEF ConfigureCPython, Fail, CacheInv, OnlyMissingKeysWritten,
     HeaderSteps, ExtBuilding
<1>12. CASE CopyHeaders
  <2>1. file["headers"] = "absent"
    BY <1>12 DEF CopyHeaders, CacheInv, HeaderSteps
  <2>2. \A k \in CacheKeys \ {"headers"} : file'[k] = file[k]
    BY <1>12 DEF CopyHeaders, Torn, TypeOK
  <2>3. pc' \in {"g_pyd_fetch", "done", "failed"}
    BY <1>12 DEF CopyHeaders, CPythonReturn, Torn, Fail
  <2>. QED
    BY <2>1, <2>2, <2>3 DEF CacheInv, OnlyMissingKeysWritten, HeaderSteps,
       ExtBuilding
<1>13. CASE FetchPydantic
  BY <1>13, <1>a, <1>c, FetchKeys, LeaveKeys DEF FetchPydantic, HeaderSteps, ExtBuilding
<1>14. CASE VerifyPydantic
  <2>1. file' = file /\ pc' \in {"g_ext", "failed"}
    BY <1>14, VerifyKeys DEF VerifyPydantic
  <2>2. pc' \notin {"c_wasi_mv"} \cup HeaderSteps \cup ExtBuilding
    BY <2>1 DEF HeaderSteps, ExtBuilding
  <2>. QED
    BY <2>1, <2>2, <1>d, LeaveKeys
<1>15. CASE GuestExt
  BY <1>15, <1>d, ExtReturnKeys, LeaveKeys DEF GuestExt, HeaderSteps, ExtBuilding
<1>16. CASE ExtPrereq
  <2>1. CASE pc' = "e_fetch"
    <3>0. file[TarOf[cur]] = "absent" /\ cur' = cur
          /\ file' = [file EXCEPT ![PkgOf[cur]] = "absent"]
      BY <1>16, <2>1, ExtReturnKeys DEF ExtPrereq, Fail
    <3>1. KeysKept
      BY <3>0, <1>b, WriteOtherKeys
    <3>. QED
      BY <2>1, <3>0, <3>1, <1>b DEF CacheInv, KeysKept, OnlyMissingKeysWritten,
         HeaderSteps, ExtBuilding
  <2>2. CASE pc' # "e_fetch"
    <3>1. file' = file /\ pc' \in {"done", "g_ext", "g_extract", "failed"}
      BY <2>2, <1>16, ExtReturnKeys DEF ExtPrereq, Fail
    <3>. QED
      BY <3>1, <1>d, LeaveKeys DEF HeaderSteps, ExtBuilding
  <2>. QED
    BY <2>1, <2>2
<1>17. CASE ExtFetch
  <2>1. KeysKept /\ pc' \in {"e_verify", "failed"} /\ cur' = cur
    BY <1>17, <1>b, FetchKeys DEF ExtFetch
  <2>. QED
    BY <1>17, <2>1, <1>b DEF ExtFetch, CacheInv, KeysKept, OnlyMissingKeysWritten,
       HeaderSteps, ExtBuilding
<1>18. CASE ExtVerify
  <2>1. file' = file /\ pc' \in {"e_compile", "failed"} /\ cur' = cur
    BY <1>18, VerifyKeys DEF ExtVerify
  <2>. QED
    BY <1>18, <2>1 DEF ExtVerify, CacheInv, OnlyMissingKeysWritten,
       HeaderSteps, ExtBuilding
<1>19. CASE ExtCompile
  <2>1. KeysKept /\ pc' \in {"e_package", "failed"} /\ cur' = cur
    BY <1>19, <1>b, <1>d, WriteOtherKeys, TornKeys DEF ExtCompile, Fail
  <2>. QED
    BY <1>19, <2>1, <1>b DEF ExtCompile, CacheInv, KeysKept, OnlyMissingKeysWritten,
       HeaderSteps, ExtBuilding
<1>20. CASE ExtPackage
  <2>1. file[TarOf[cur]] = "absent"
    BY <1>20 DEF ExtPackage, CacheInv, ExtBuilding
  <2>2. \A k \in CacheKeys \ {TarOf[cur]} : file'[k] = file[k]
    BY <1>20, <1>b DEF ExtPackage, Torn, TypeOK
  <2>3. pc' \in {"done", "g_ext", "g_extract", "failed"}
    BY <1>20, ExtReturnKeys DEF ExtPackage, Torn, Fail
  <2>. QED
    BY <2>1, <2>2, <2>3 DEF CacheInv, OnlyMissingKeysWritten, HeaderSteps,
       ExtBuilding
<1>21. CASE AssembleExtract
  BY <1>21, <1>d, LeaveKeys DEF AssembleExtract, Fail, HeaderSteps, ExtBuilding
<1>22. CASE Componentize
  <2>1. KeysKept /\ pc' \in {"done", "failed"}
    BY <1>22, <1>a, WriteOtherKeys, TornKeys DEF Componentize
  <2>. QED
    BY <2>1, LeaveKeys DEF HeaderSteps, ExtBuilding
<1>23. CASE Interrupt
  BY <1>23, <1>c, <1>d, LeaveKeys DEF Interrupt, Fail
<1>24. CASE UNCHANGED vars
  BY <1>24 DEF vars, CacheInv, OnlyMissingKeysWritten
<1>. QED
  BY <1>1, <1>2, <1>3, <1>4, <1>5, <1>6, <1>7, <1>8, <1>9, <1>10,
     <1>11, <1>12, <1>13, <1>14, <1>15, <1>16, <1>17, <1>18, <1>19,
     <1>20, <1>21, <1>22, <1>23, <1>24
     DEF Next, Step

-----------------------------------------------------------------------------
(* CacheRefinement: the scripts implement the write-once store under the  *)
(* mapping cache <- [k \in CacheKeys |-> file[k]].  CacheInv says a key is *)
(* missing when it is written; FillInv says what is written there is not  *)
(* missing: the staging directory mv renames holds a complete tarball's    *)
(* content, the source tree cp copies from was unpacked from the verified *)
(* CPython tarball, and pkg/ was filled by the compile step before tar     *)
(* packs it.                                                               *)
FillLabels == {"c_wasi_mv", "c_py_extract", "c_configure", "c_headers_copy",
               "e_package"}

FillInv ==
    /\ pc = "c_wasi_mv" => file["wasiStage"] \in Complete
    /\ pc = "c_py_extract" => file["pyTar"] = "good"
    /\ pc \in {"c_configure", "c_headers_copy"} => file["pySrc"] # "absent"
    /\ pc = "e_package" => file[PkgOf[cur]] # "absent"

\* The step fills the missing key k with something, and keeps the others.
FillStep(k) ==
    /\ file[k] = "absent"
    /\ file'[k] \in Contents \ {"absent"}
    /\ \A j \in CacheKeys \ {k} : file'[j] = file[j]

\* What the step does to the cache keys: nothing, or one fill.
KeyStep == KeysKept \/ \E k \in CacheKeys : FillStep(k)

(* Seen through the mapping, a step that keeps the keys stutters and a    *)
(* fill is a Fill of the store.                                            *)
LEMMA KeyStepMaps ==
    ASSUME KeyStep
    PROVE  [CacheStore!Next]_([k \in CacheKeys |-> file[k]])
<1>1. CASE KeysKept
  BY <1>1 DEF KeysKept
<1>2. CASE \E k \in CacheKeys : FillStep(k)
  <2>1. PICK k \in CacheKeys : FillStep(k)
    BY <1>2
  <2>2. [j \in CacheKeys |-> file'[j]]
          = [[j \in CacheKeys |-> file[j]] EXCEPT ![k] = file'[k]]
    BY <2>1 DEF FillStep
  <2>4. file'[k] \in Contents \ {"absent"}
    BY <2>1 DEF FillStep
  <2>5. \E kk \in CacheKeys, v \in Contents \ {"absent"} : CacheStore!Fill(kk, v)
    BY <2>1, <2>2, <2>4 DEF FillStep, CacheStore!Fill
  <2>. QED
    BY <2>5 DEF CacheStore!Next
<1>. QED
  BY <1>1, <1>2 DEF KeyStep

(* A step that keeps the keys and moves to no step FillInv speaks of.     *)
LEMMA LeaveFill ==
    ASSUME KeysKept, pc' \notin FillLabels
    PROVE  FillInv' /\ KeyStep
BY DEF FillInv, FillLabels, KeyStep

(* Derive never yields a missing artifact. *)
LEMMA DerivePresent ==
    ASSUME NEW S PROVE Derive(S) # "absent"
BY DEF Derive, Complete

(* Every step keeps FillInv and, on the cache keys, does nothing or one   *)
(* fill.                                                                   *)
LEMMA FillStepLemma ==
    ASSUME TypeOK, CacheInv, FillInv, [Next]_vars
    PROVE  FillInv' /\ KeyStep
<1>. USE CacheKeyNames
<1>a. /\ "wasiTar" \in Artifacts \ CacheKeys
      /\ "wasiStage" \in Artifacts \ CacheKeys
      /\ "pyTar" \in Artifacts \ CacheKeys
      /\ "pySrc" \in Artifacts \ CacheKeys
      /\ "pydTar" \in Artifacts \ CacheKeys
      /\ "envWasm" \in Artifacts \ CacheKeys
  BY DEF Artifacts
<1>b. /\ ArcOf[cur] \in Artifacts \ CacheKeys
      /\ PkgOf[cur] \in Artifacts \ CacheKeys
      /\ TarOf[cur] \in CacheKeys
      /\ PkgOf[cur] # TarOf[cur]
  BY ExtArtifacts DEF TypeOK, Exts, PkgOf, TarOf
<1>c. "failed" \notin FillLabels
  BY DEF FillLabels
<1>d. file' = file => KeysKept
  BY DEF KeysKept
<1>e. "wasiDir" \in Artifacts /\ "headers" \in Artifacts
  BY DEF Artifacts
<1>1. ASSUME NEW e \in Entries, Start(e) PROVE FillInv' /\ KeyStep
  BY <1>1, <1>d, LeaveFill DEF Start, FillLabels
<1>2. CASE GuestStart
  BY <1>2, <1>d, LeaveFill DEF GuestStart, FillLabels
<1>3. CASE FetchWasiSdk
  BY <1>3, <1>a, <1>c, FetchKeys, LeaveFill DEF FetchWasiSdk, FillLabels
<1>4. CASE VerifyWasiSdk
  BY <1>4, <1>c, <1>d, VerifyKeys, LeaveFill DEF VerifyWasiSdk, FillLabels
<1>5. CASE ExtractWasiSdk
  <2>1. CASE pc' = "c_wasi_mv"
    <3>1. file["wasiTar"] \in Complete
          /\ file' = [file EXCEPT !["wasiStage"] = file["wasiTar"]]
      BY <1>5, <2>1 DEF ExtractWasiSdk, Torn, Fail
    <3>2. KeysKept
      BY <3>1, <1>a, WriteOtherKeys
    <3>3. file'["wasiStage"] \in Complete
      BY <3>1, <1>a DEF TypeOK
    <3>. QED
      BY <2>1, <3>2, <3>3 DEF FillInv, KeyStep
  <2>2. CASE pc' # "c_wasi_mv"
    <3>1. KeysKept /\ pc' \in {"c_headers_check", "failed"}
      BY <2>2, <1>5, <1>a, <1>d, WriteOtherKeys, TornKeys DEF ExtractWasiSdk, Fail
    <3>. QED
      BY <3>1, <1>c, LeaveFill DEF FillLabels
  <2>. QED
    BY <2>1, <2>2
<1>6. CASE MoveWasiSdk
  <2>1. FillStep("wasiDir")
    <3>1. file["wasiDir"] = "absent" /\ file["wasiStage"] \in Complete
      BY <1>6 DEF MoveWasiSdk, CacheInv, FillInv
    <3>2. file'["wasiDir"] = file["wasiStage"]
      BY <1>6, <1>e DEF MoveWasiSdk, TypeOK
    <3>3. \A k \in CacheKeys \ {"wasiDir"} : file'[k] = file[k]
      BY <1>6, <1>a DEF MoveWasiSdk, TypeOK
    <3>. QED
      BY <3>1, <3>2, <3>3 DEF FillStep, Complete, Contents
  <2>2. "wasiDir" \in CacheKeys
    BY DEF CacheKeys
  <2>. QED
    BY <1>6, <2>1, <2>2 DEF MoveWasiSdk, FillInv, KeyStep
<1>7. CASE CheckHeaders
  BY <1>7, <1>d, LeaveFill DEF CheckHeaders, CPythonReturn, FillLabels
<1>8. CASE FetchCPython
  BY <1>8, <1>a, <1>c, FetchKeys, LeaveFill DEF FetchCPython, FillLabels
<1>9. CASE VerifyCPython
  <2>1. file' = file /\ pc' \in {"c_py_extract", "failed"}
    BY <1>9, VerifyKeys DEF VerifyCPython
  <2>2. pc' = "c_py_extract" => file["pyTar"] = "good"
    BY <1>9 DEF VerifyCPython, Verify, Fail
  <2>. QED
    BY <2>1, <2>2, <1>d DEF FillInv, FillLabels, KeyStep
<1>10. CASE ExtractCPython
  <2>1. file["pyTar"] = "good"
    BY <1>10 DEF ExtractCPython, FillInv
  <2>2. KeysKept /\ pc' \in {"c_configure", "failed"}
    BY <1>10, <1>a, <1>d, WriteOtherKeys, TornKeys DEF ExtractCPython
  <2>3. pc' = "c_configure" => file'["pySrc"] # "absent"
    BY <1>10, <1>a, <2>1 DEF ExtractCPython, Torn, Fail, TypeOK
  <2>. QED
    BY <2>2, <2>3 DEF FillInv, KeyStep
<1>11. CASE ConfigureCPython
  BY <1>11, <1>d DEF ConfigureCPython, Fail, FillInv, KeyStep
<1>12. CASE CopyHeaders
  <2>1. FillStep("headers")
    <3>1. file["headers"] = "absent" /\ file["pySrc"] # "absent"
      BY <1>12 DEF CopyHeaders, CacheInv, FillInv, HeaderSteps
    <3>2. file'["headers"] \in {file["pySrc"], "partial"}
      BY <1>12, <1>e DEF CopyHeaders, Torn, TypeOK
    <3>3. file["pySrc"] \in Contents
      BY <1>a DEF TypeOK
    <3>4. \A k \in CacheKeys \ {"headers"} : file'[k] = file[k]
      BY <1>12 DEF CopyHeaders, Torn, TypeOK
    <3>. QED
      BY <3>1, <3>2, <3>3, <3>4 DEF FillStep, Contents
  <2>2. pc' \in {"g_pyd_fetch", "done", "failed"}
    BY <1>12 DEF CopyHeaders, CPythonReturn, Torn, Fail
  <2>3. "headers" \in CacheKeys
    BY DEF CacheKeys
  <2>. QED
    BY <2>1, <2>2, <2>3 DEF FillInv, KeyStep
<1>13. CASE FetchPydantic
  BY <1>13, <1>a, <1>c, FetchKeys, LeaveFill DEF FetchPydantic, FillLabels
<1>14. CASE VerifyPydantic
  <2>1. file' = file /\ pc' \in {"g_ext", "failed"}
    BY <1>14, VerifyKeys DEF VerifyPydantic
  <2>. QED
    BY <2>1, <1>d, LeaveFill DEF FillLabels
<1>15. CASE GuestExt
  BY <1>15, <1>d, ExtReturnKeys, LeaveFill DEF GuestExt, FillLabels
<1>16. CASE ExtPrereq
  <2>1. KeysKept /\ pc' \in {"done", "g_ext", "g_extract", "failed", "e_fetch"}
    BY <1>16, <1>b, <1>d, WriteOtherKeys, ExtReturnKeys DEF ExtPrereq, Fail
  <2>. QED
    BY <2>1, LeaveFill DEF FillLabels
<1>17. CASE ExtFetch
  BY <1>17, <1>b, <1>c, FetchKeys, LeaveFill DEF ExtFetch, FillLabels
<1>18. CASE ExtVerify
  <2>1. file' = file /\ pc' \in {"e_compile", "failed"}
    BY <1>18, VerifyKeys DEF ExtVerify
  <2>. QED
    BY <2>1, <1>d, LeaveFill DEF FillLabels
<1>19. CASE ExtCompile
  <2>1. KeysKept /\ pc' \in {"e_package", "failed"} /\ cur' = cur
    BY <1>19, <1>b, <1>d, WriteOtherKeys, TornKeys DEF ExtCompile, Fail
  <2>2. pc' = "e_package" => file'[PkgOf[cur]] # "absent"
    BY <1>19, <1>b, DerivePresent DEF ExtCompile, Torn, Fail, TypeOK
  <2>. QED
    BY <2>1, <2>2 DEF FillInv, KeyStep
<1>20. CASE ExtPackage
  <2>1. FillStep(TarOf[cur])
    <3>1. file[TarOf[cur]] = "absent" /\ file[PkgOf[cur]] # "absent"
      BY <1>20 DEF ExtPackage, CacheInv, FillInv, ExtBuilding
    <3>2. file'[TarOf[cur]] \in {file[PkgOf[cur]], "partial"}
      BY <1>20, <1>b DEF ExtPackage, Torn, TypeOK
    <3>3. file[PkgOf[cur]] \in Contents
      BY <1>b DEF TypeOK
    <3>4. \A k \in CacheKeys \ {TarOf[cur]} : file'[k] = file[k]
      BY <1>20, <1>b DEF ExtPackage, Torn, TypeOK
    <3>. QED
      BY <3>1, <3>2, <3>3, <3>4 DEF FillStep, Contents
  <2>2. pc' \in {"done", "g_ext", "g_extract", "failed"}
    BY <1>20, ExtReturnKeys DEF ExtPackage, Torn, Fail
  <2>. QED
    BY <2>1, <2>2, <1>b DEF FillInv, KeyStep
<1>21. CASE AssembleExtract
  BY <1>21, <1>d, LeaveFill DEF AssembleExtract, Fail, FillLabels
<1>22. CASE Componentize
  <2>1. KeysKept /\ pc' \in {"done", "failed"}
    BY <1>22, <1>a, WriteOtherKeys, TornKeys DEF Componentize
  <2>. QED
    BY <2>1, LeaveFill DEF FillLabels
<1>23. CASE Interrupt
  BY <1>23, <1>c, <1>d, LeaveFill DEF Interrupt, Fail
<1>24. CASE UNCHANGED vars
  BY <1>24, <1>d DEF vars, FillInv, KeyStep
<1>. QED
  BY <1>1, <1>2, <1>3, <1>4, <1>5, <1>6, <1>7, <1>8, <1>9, <1>10,
     <1>11, <1>12, <1>13, <1>14, <1>15, <1>16, <1>17, <1>18, <1>19,
     <1>20, <1>21, <1>22, <1>23, <1>24
     DEF Next, Step

(***************************************************************************)
(* The scripts implement the write-once store, for every fault bound and  *)
(* either sums-file setting: seen through its cache keys, every step of   *)
(* every run, interrupted or not, leaves the tool-cache alone or fills     *)
(* one missing key, and no key is ever rewritten or removed.  A half-      *)
(* written key is therefore never repaired by a rerun.                     *)
(***************************************************************************)
THEOREM CacheImplemented == Spec => CacheRefinement
<1>1. Init => CacheInv /\ FillInv
  BY DEF Init, CacheInv, FillInv, HeaderSteps, ExtBuilding
<1>2. TypeOK /\ CacheInv /\ FillInv /\ [Next]_vars => CacheInv' /\ FillInv'
  BY CacheStep, FillStepLemma
<1>3. Init => CacheStore!Init
  BY CacheKeyNames DEF Init, CacheStore!Init
<1>4. TypeOK /\ CacheInv /\ FillInv /\ [Next]_vars
        => [CacheStore!Next]_([k \in CacheKeys |-> file[k]])
  BY FillStepLemma, KeyStepMaps
<1>. QED
  BY <1>1, <1>2, <1>3, <1>4, TypeCorrect, PTL
     DEF Spec, CacheRefinement, CacheStore!Spec

-----------------------------------------------------------------------------
(* DriverNeverRefused is not inductive by itself: it rests on clang and   *)
(* the headers being there whenever the driver reaches its extensions.    *)
(* The driver gets there either by its own test (both present) or by      *)
(* build_cpython.sh returning, and that script reaches its return only    *)
(* past the clang-producing step and with the headers copied or found.    *)
(* DInv records this along build_cpython.sh (clang from the headers test  *)
(* on, the source tree that cp copies from, the verified CPython tarball), *)
(* that headers, once there, imply clang, and that neither clang nor the  *)
(* headers are ever removed: only mv writes wasi-sdk-27.0/, with a        *)
(* complete staging directory, and py-headers-3.12/ is written by cp from *)
(* a non-empty tree or left partial, never emptied.                       *)
ProvSteps == {"c_headers_check", "c_py_fetch", "c_py_verify", "c_py_extract",
              "c_configure", "c_headers_copy"}
\* The driver's steps after it has made sure of clang and the headers.
Provisioned == {"g_pyd_fetch", "g_pyd_verify", "g_ext", "g_extract",
                "g_componentize"} \cup ExtSteps

DInv ==
    /\ ToolchainInv
    /\ pc \in ProvSteps => Clang
    /\ pc = "c_py_extract" => file["pyTar"] = "good"
    /\ pc \in {"c_configure", "c_headers_copy"} => file["pySrc"] # "absent"
    /\ file["headers"] # "absent" => Clang
    /\ entry = "guest" /\ pc \in Provisioned => Clang /\ file["headers"] # "absent"
    /\ DriverNeverRefused

(* The artifacts a download, a torn write or a compile touches are neither *)
(* the toolchain nor the headers.                                          *)
LEMMA NotProvisioning ==
    ASSUME NEW e \in Exts
    PROVE  {ArcOf[e], PkgOf[e], TarOf[e], "wasiTar", "wasiStage", "pyTar",
            "pySrc", "pydTar", "envWasm"} \cap {"wasiDir", "headers"} = {}
BY DEF Exts, ArcOf, PkgOf, TarOf

\* The step leaves the toolchain and the headers as they were.
ProvKept == file'["wasiDir"] = file["wasiDir"] /\ file'["headers"] = file["headers"]

(* Writing, downloading or tearing an artifact other than the toolchain   *)
(* and the headers keeps both.                                            *)
LEMMA WriteProv ==
    ASSUME TypeOK, NEW a \in Artifacts \ {"wasiDir", "headers"}, NEW v,
           file' = [file EXCEPT ![a] = v]
    PROVE  ProvKept
BY DEF TypeOK, ProvKept

LEMMA FetchProv ==
    ASSUME TypeOK, NEW a \in Artifacts \ {"wasiDir", "headers"}, NEW next,
           Fetch(a, next)
    PROVE  ProvKept /\ pc' \in {next, "failed"} /\ err' \in {err, "DownloadError"}
<1>1. CASE file' = file
  BY <1>1 DEF Fetch, Fail, ProvKept
<1>2. CASE \E v \in Contents : file' = [file EXCEPT ![a] = v]
  BY <1>2, WriteProv DEF Fetch, Fail
<1>. QED
  BY <1>1, <1>2 DEF Fetch, Contents

LEMMA TornProv ==
    ASSUME TypeOK, NEW a \in Artifacts \ {"wasiDir", "headers"}, Torn(a)
    PROVE  ProvKept /\ pc' = "failed" /\ err' = "Interrupted"
BY WriteProv DEF Torn, Fail

(* Every step keeps DInv. *)
LEMMA DInvStep ==
    ASSUME TypeOK, DInv, [Next]_vars
    PROVE  DInv'
<1>. USE NotProvisioning, ExtArtifacts
<1>a. {"wasiTar", "wasiStage", "wasiDir", "pyTar", "pySrc", "headers", "pydTar",
       "envWasm"} \subseteq Artifacts
  BY DEF Artifacts
<1>b. /\ {ArcOf[cur], PkgOf[cur], TarOf[cur]} \cap {"wasiDir", "headers"} = {}
      /\ {ArcOf[cur], PkgOf[cur], TarOf[cur]} \subseteq Artifacts
  BY NotProvisioning, ExtArtifacts DEF TypeOK
<1>. USE <1>a, <1>b
<1>. USE DEF DInv, ToolchainInv, Clang, DriverNeverRefused, ProvSteps,
             Provisioned, ExtSteps, TypeOK, Complete, Fail
<1>1. ASSUME NEW e \in Entries, Start(e) PROVE DInv'
  BY <1>1 DEF Start, Entries, Exts
<1>2. CASE GuestStart
  BY <1>2 DEF GuestStart
<1>3. CASE FetchWasiSdk
  BY <1>3 DEF FetchWasiSdk, Fetch
<1>4. CASE VerifyWasiSdk
  BY <1>4 DEF VerifyWasiSdk, Verify
<1>5. CASE ExtractWasiSdk
  <2>1. file["wasiDir"] # "absent" => Clang
    BY DEF Contents
  <2>. QED
    BY <1>5, <2>1 DEF ExtractWasiSdk, Torn
<1>6. CASE MoveWasiSdk
  BY <1>6 DEF MoveWasiSdk
<1>7. CASE CheckHeaders
  BY <1>7 DEF CheckHeaders, CPythonReturn
<1>8. CASE FetchCPython
  BY <1>8 DEF FetchCPython, Fetch
<1>9. CASE VerifyCPython
  BY <1>9 DEF VerifyCPython, Verify
<1>10. CASE ExtractCPython
  BY <1>10 DEF ExtractCPython, Torn
<1>11. CASE ConfigureCPython
  BY <1>11 DEF ConfigureCPython
<1>12. CASE CopyHeaders
  BY <1>12 DEF CopyHeaders, CPythonReturn, Torn
<1>13. CASE FetchPydantic
  BY <1>13 DEF FetchPydantic, Fetch
<1>14. CASE VerifyPydantic
  BY <1>14 DEF VerifyPydantic, Verify
<1>15. CASE GuestExt
  BY <1>15 DEF GuestExt, ExtReturn
<1>16. CASE ExtPrereq
  <2>1. pc = "e_start" /\ entry' = entry
    BY <1>16 DEF ExtPrereq
  <2>2. CASE file[TarOf[cur]] # "absent" /\ ExtReturn /\ UNCHANGED <<file, err>>
    BY <2>1, <2>2 DEF ExtReturn
  <2>3. CASE /\ ~Clang \/ file["headers"] = "absent"
             /\ Fail("ConfigurationError") /\ UNCHANGED <<cur, file>>
    BY <2>1, <2>3
  <2>4. CASE /\ Clang /\ file["headers"] # "absent"
             /\ file' = [file EXCEPT ![PkgOf[cur]] = "absent"]
             /\ pc' = "e_fetch" /\ UNCHANGED <<cur, err>>
    <3>1. ProvKept
      BY <2>4, WriteProv
    <3>. QED
      BY <2>1, <2>4, <3>1 DEF ProvKept
  <2>. QED
    BY <1>16, <2>2, <2>3, <2>4 DEF ExtPrereq
<1>17. CASE ExtFetch
  <2>1. ProvKept /\ pc' \in {"e_verify", "failed"} /\ err' \in {err, "DownloadError"}
    BY <1>17, FetchProv DEF ExtFetch
  <2>. QED
    BY <1>17, <2>1 DEF ExtFetch, ProvKept
<1>18. CASE ExtVerify
  BY <1>18 DEF ExtVerify, Verify
<1>19. CASE ExtCompile
  <2>1. pc = "e_compile" /\ entry' = entry
    BY <1>19 DEF ExtCompile
  <2>2. CASE /\ file' = [file EXCEPT ![PkgOf[cur]] =
                 Derive({file[ArcOf[cur]], file["headers"], file["wasiDir"]})]
             /\ pc' = "e_package" /\ UNCHANGED err
    <3>1. ProvKept
      BY <2>2, WriteProv
    <3>. QED
      BY <2>1, <2>2, <3>1 DEF ProvKept
  <2>3. CASE Fail("CompileError") /\ UNCHANGED file
    BY <2>1, <2>3
  <2>4. CASE Torn(PkgOf[cur])
    <3>1. ProvKept /\ pc' = "failed" /\ err' = "Interrupted"
      BY <2>4, TornProv
    <3>. QED
      BY <2>1, <3>1 DEF ProvKept
  <2>. QED
    BY <1>19, <2>2, <2>3, <2>4 DEF ExtCompile
<1>20. CASE ExtPackage
  <2>1. pc = "e_package" /\ entry' = entry
    BY <1>20 DEF ExtPackage
  <2>2. CASE file' = [file EXCEPT ![TarOf[cur]] = file[PkgOf[cur]]] /\ ExtReturn
             /\ UNCHANGED err
    <3>1. ProvKept
      BY <2>2, WriteProv
    <3>. QED
      BY <2>1, <2>2, <3>1 DEF ProvKept, ExtReturn
  <2>3. CASE Torn(TarOf[cur])
    <3>1. ProvKept /\ pc' = "failed" /\ err' = "Interrupted"
      BY <2>3, TornProv
    <3>. QED
      BY <2>1, <3>1 DEF ProvKept
  <2>. QED
    BY <1>20, <2>2, <2>3 DEF ExtPackage
<1>21. CASE AssembleExtract
  BY <1>21 DEF AssembleExtract
<1>22. CASE Componentize
  BY <1>22 DEF Componentize, Torn
<1>23. CASE Interrupt
  BY <1>23 DEF Interrupt, Running, GuestSteps, CPythonSteps
<1>24. CASE UNCHANGED vars
  BY <1>24 DEF vars
<1>. QED
  BY <1>1, <1>2, <1>3, <1>4, <1>5, <1>6, <1>7, <1>8, <1>9, <1>10,
     <1>11, <1>12, <1>13, <1>14, <1>15, <1>16, <1>17, <1>18, <1>19,
     <1>20, <1>21, <1>22, <1>23, <1>24
     DEF Next, Step

(***************************************************************************)
(* For every fault bound and either sums-file setting, no run of the      *)
(* driver ends in an extension script refusing for want of clang or of    *)
(* py-headers-3.12/ (build_host.sh:40,51): however earlier runs of any    *)
(* script were interrupted, the driver's test at build_xxhash.sh:167-170  *)
(* sends it through build_cpython.sh whenever either is missing, and that *)
(* script returns only with both in place.                                *)
(***************************************************************************)
THEOREM DriverProvisions == Spec => []DriverNeverRefused
<1>1. Init => DInv
  BY DEF Init, Artifacts, DInv, ToolchainInv, Clang, Complete,
                            DriverNeverRefused, ProvSteps, Provisioned, ExtSteps
<1>2. TypeOK /\ DInv /\ [Next]_vars => DInv'
  BY DInvStep
<1>3. DInv => DriverNeverRefused
  BY DEF DInv
<1>. QED
  BY <1>1, <1>2, <1>3, TypeCorrect, PTL DEF Spec

=============================================================================
