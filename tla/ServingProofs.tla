---------------------------- MODULE ServingProofs ----------------------------
(***************************************************************************)
(* Proofs about Serving for any number of versions and any set of scripts: *)
(* the types, and that a section a script has written can be served,       *)
(* however many scripts were killed before it, in a LocalStorage.          *)
(***************************************************************************)
EXTENDS Serving, TLAPS

\* A model that is named is there, unless it is the pretrained model and
\* prepare_artifacts was stopped while it replaced it.
RefOK(ref) == ref \in Models => Loadable(ref) \/ (ref = Prepared /\ spoiled)

Built == {"merge", "awq"}
Uploads == {"upload", "remove", "rename"}

\* Where a directory that cannot be loaded may lie; prepare_gguf puts its file
\* only where prepare_artifacts once put a model.
PartInv ==
  /\ \A d \in Dirs : holds[d] = Part => d = Adapter \/ (d = Prepared /\ spoiled)
  /\ section.named => RefOK(Prepared)

\* What a script knows of the storage at each of its steps.
ScriptInv ==
  /\ script.kind = "merge" /\ script.pc \in Uploads \cup {"read", "write"} => production > 0
  /\ script.pc = "check" => script.kind \in {"merge", "awq", "prepare"}
  /\ script.pc = "check" /\ script.kind = "prepare" => script.out # Gone
  /\ script.pc \in Uploads =>
       script.kind \in {"promote", "merge", "awq", "prepare"} /\ script.out # Gone
  /\ script.pc \in Uploads /\ script.kind \in Built => holds[Target] = Gone
  /\ script.pc \in {"remove", "rename"} /\ script.kind = "prepare" => spoiled
  /\ script.pc \in {"read", "write"} /\ script.kind \in Built => holds[Target] # Gone
  /\ script.pc = "write" /\ script.kind = "promote" => Loadable(Adapter)
  /\ script.pc = "write" /\ script.kind = "prepare" => RefOK(Prepared)
  /\ script.pc \in {"file", "write"} /\ script.kind = "gguf" => Loads(section)
  /\ script.pc = "file" => script.kind = "gguf" /\ script.out # Gone
  /\ script.pc \in {"write", "read"} => script.kind \in Kinds
  /\ script.pc \in {"file", "write"} \/
     (script.kind \in {"promote", "prepare"} /\ script.pc \in Uploads \cup {"check"})
       => script.man = section

ServeInv ==
  /\ TypeOK
  /\ RefOK(section.model) /\ RefOK(section.base)
  /\ PartInv
  /\ ScriptInv
  /\ EndedWellIsServable

-----------------------------------------------------------------------------
(* The places of the storage.                                              *)

LEMMA Locations ==
  /\ Awq \in Dirs /\ Prepared \in Dirs /\ Adapter \in Dirs
  /\ \A v \in 1..MaxVersion : Merged(v) \in Dirs /\ Merged(v) \in Models /\ Merged(v) # Prepared
                              /\ Merged(v) # Adapter /\ Merged(v) # Awq
  /\ Awq # Prepared /\ Awq # Adapter /\ Prepared # Adapter
  /\ Awq \in Models /\ Prepared \in Models /\ Hub \in Models /\ Adapter \notin Models
  /\ Hub \notin Dirs /\ NoRef \notin Models /\ NoRef \notin Dirs
  /\ \A ref \in Models : ref = Hub \/ ref \in Dirs
  BY DEF Awq, Prepared, Adapter, Merged, Hub, NoRef, Dirs, Models

LEMMA Numbered ==
  /\ Gone \in Int /\ Gone = -1 /\ Part = -2 /\ Part # Gone /\ 0 \in Weights
  /\ \A w \in Weights : w \in Nat /\ w # Gone /\ w # Part
  BY ServingAssumption DEF Gone, Part, Weights

LEMMA TargetPlace ==
  ASSUME TypeOK, script.kind = "merge" => production > 0
  PROVE  /\ Target \in Dirs
         /\ Target \in Models <=> script.kind # "promote"
         /\ Target = Prepared <=> script.kind \notin {"promote", "merge", "awq"}
         /\ Target = Adapter <=> script.kind = "promote"
  <1>1. script.kind = "merge" => production \in 1..MaxVersion
    BY ServingAssumption DEF TypeOK, Weights
  <1> QED
    BY <1>1, Locations DEF Target

-----------------------------------------------------------------------------
(* Steps that leave the storage alone.                                     *)

Script ==
  [kind : Kinds \cup {"none"},
   pc : {"idle", "registry", "check", "read", "upload", "remove", "rename", "file", "write"},
   man : Section, out : Weights \cup {Gone}, well : BOOLEAN]

LEMMA Nothing ==
  /\ NoSection \in Section /\ IdleScript \in Script
  /\ [IdleScript EXCEPT !.well = TRUE] \in Script
  <1>1. NoSection \in Section
    BY DEF NoSection, Section
  <1> QED
    BY <1>1 DEF IdleScript, Script

LEMMA Steady ==
  ASSUME ServeInv, UNCHANGED <<vllm, storage>>, script' \in Script, ScriptInv',
         script'.pc # "idle" \/ ~script'.well
  PROVE  ServeInv'
  <1>1. TypeOK'
    BY DEF ServeInv, TypeOK, Script, storage
  <1>2. RefOK(section.model)' /\ RefOK(section.base)' /\ PartInv'
    BY DEF ServeInv, RefOK, PartInv, Loadable, storage
  <1>3. EndedWellIsServable'
    BY DEF EndedWellIsServable, Idle
  <1> QED
    BY <1>1, <1>2, <1>3 DEF ServeInv

\* What a script loads has a version.
LEMMA LoadedWeights ==
  ASSUME TypeOK, Loads(section)
  PROVE  WeightsOf(section) \in Weights
  <1>1. CASE section.load = "lora"
    BY <1>1, Locations DEF Loads, Loadable, WeightsOf
  <1>2. CASE section.load # "lora"
    BY <1>2, Locations, Numbered DEF Loads, Loadable, WeightsOf, ModelOf, Content
  <1> QED
    BY <1>1, <1>2

LEMMA StartServe ==
  ASSUME ServeInv, NEW kind \in Scripts, Start(kind), UNCHANGED vllm
  PROVE  ServeInv'
  <1>1. kind \in Kinds
    BY ServingAssumption
  <1>2. IdleScript \in Script
    BY Nothing
  <1> DEFINE pc == CASE kind = "promote"         -> "registry"
                     [] kind \in {"merge", "awq"} -> "check"
                     [] OTHER                    -> "read"
  <1>3. pc \in {"registry", "check", "read"} /\ (pc = "check" => kind \in {"merge", "awq"})
        /\ (pc = "read" => kind \in {"gguf", "prepare"})
    BY <1>1 DEF Kinds
  <1>4. script' = [IdleScript EXCEPT !.kind = kind, !.pc = pc] /\ UNCHANGED storage
    BY DEF Start
  <1> HIDE DEF pc
  <1>5. script' \in Script /\ script'.kind = kind /\ script'.pc = pc
    BY <1>1, <1>2, <1>3, <1>4 DEF Script
  <1>6. ScriptInv'
    BY <1>1, <1>3, <1>5 DEF ScriptInv, Uploads, Built
  <1> QED
    BY <1>3, <1>4, <1>5, <1>6, Steady

LEMMA StopServe ==
  ASSUME ServeInv, Stop, UNCHANGED vllm
  PROVE  ServeInv'
  <1>1. script' \in Script /\ script'.pc = "idle" /\ ~script'.well /\ UNCHANGED storage
    <2>1. script' = IdleScript /\ UNCHANGED storage
      BY DEF Stop
    <2>2. IdleScript.pc = "idle" /\ ~IdleScript.well
      BY DEF IdleScript
    <2> QED
      BY <2>1, <2>2, Nothing
  <1>2. ScriptInv'
    BY <1>1 DEF ScriptInv, Uploads
  <1> QED
    BY <1>1, <1>2, Steady

LEMMA SkipServe ==
  ASSUME ServeInv, Skip, MergeNeedsProduction, UNCHANGED vllm
  PROVE  ServeInv'
  <1>1. script \in Script /\ script.kind \in Built /\ UNCHANGED storage
        /\ script' = [script EXCEPT !.pc = "read"]
    BY DEF Skip, Goto, ServeInv, TypeOK, Script, Built
  <1>2. script' \in Script /\ script'.kind = script.kind /\ script'.pc = "read"
    BY <1>1 DEF Script
  <1>3. holds[Target] # Gone /\ Target' = Target
    <2>1. Target # Prepared
      BY <1>1, Locations, TargetPlace DEF MergeNeedsProduction, Built, ServeInv
    <2> QED
      BY <1>1, <1>2, <2>1 DEF Skip, Exists, Target, storage
  <1>4. ScriptInv'
    BY <1>1, <1>2, <1>3 DEF ScriptInv, Uploads, Built, Kinds, storage, MergeNeedsProduction
  <1> QED
    BY <1>1, <1>2, <1>4, Steady

LEMMA BuildServe ==
  ASSUME ServeInv, Build, MergeNeedsProduction, UNCHANGED vllm
  PROVE  ServeInv'
  <1>1. script \in Script /\ script.kind \in Built /\ UNCHANGED storage
        /\ script' = [script EXCEPT !.pc = "upload", !.out = WeightsOf(section)]
    BY DEF Build, ServeInv, TypeOK, Script, Built
  <1>2. WeightsOf(section) \in Weights
    BY LoadedWeights DEF Build, ServeInv
  <1>3. script' \in Script /\ script'.kind = script.kind /\ script'.pc = "upload"
        /\ script'.out # Gone
    BY <1>1, <1>2, Numbered DEF Script
  <1>4. holds[Target] = Gone /\ Target' = Target
    BY <1>1, <1>3 DEF Build, Exists, Target, storage
  <1>5. ScriptInv'
    BY <1>1, <1>3, <1>4 DEF ScriptInv, Uploads, Built, storage, MergeNeedsProduction
  <1> QED
    BY <1>1, <1>3, <1>5, Steady

LEMMA ReadServe ==
  ASSUME ServeInv, Read, UNCHANGED vllm
  PROVE  ServeInv'
  <1>1. script \in Script /\ UNCHANGED storage /\ script.pc = "read" /\ script.kind # "gguf"
        /\ script.kind \in Kinds /\ section \in Section /\ production \in Weights
    BY DEF Read, ServeInv, TypeOK, Script, ScriptInv
  <1> DEFINE pc == CASE script.kind = "promote" -> "upload"
                     [] script.kind = "prepare" -> "check"
                     [] OTHER                   -> "write"
             out == CASE script.kind = "promote" -> production
                      [] script.kind = "prepare" -> 0
                      [] OTHER                   -> script.out
  <1>2. script' = [script EXCEPT !.man = section, !.pc = pc, !.out = out]
    BY DEF Read, ServeInv, TypeOK
  <1>3. /\ pc \in {"upload", "check", "write"} /\ out \in Weights \cup {Gone}
        /\ pc = "upload" => script.kind = "promote" /\ out # Gone
        /\ pc = "check" => script.kind = "prepare" /\ out # Gone
        /\ pc = "write" => script.kind \in Built
    BY <1>1, Numbered DEF Kinds, Built, Script
  <1> HIDE DEF pc, out
  <1>4. script' \in Script /\ script'.kind = script.kind /\ script'.pc = pc
        /\ script'.out = out /\ script'.man = section
    BY <1>1, <1>2, <1>3 DEF Script
  <1>5. pc = "write" => holds'[Target'] # Gone /\ (script.kind = "merge" => production > 0)
    BY <1>1, <1>3, <1>4 DEF ServeInv, ScriptInv, Target, storage, Built
  <1>6. ScriptInv'
    BY <1>1, <1>3, <1>4, <1>5 DEF ScriptInv, Uploads, Built, Kinds, storage
  <1> QED
    BY <1>1, <1>3, <1>4, <1>6, Steady

LEMMA PrepareServe ==
  ASSUME ServeInv, NEW force \in BOOLEAN, PrepareCheck(force), UNCHANGED vllm
  PROVE  ServeInv'
  <1>1. script \in Script /\ UNCHANGED storage /\ script.pc = "check" /\ script.kind = "prepare"
        /\ script.man = section /\ script.out # Gone
    BY DEF PrepareCheck, At, ServeInv, TypeOK, Script, ScriptInv
  <1>2. PICK pc \in {"write", "upload"} :
          /\ script' = [script EXCEPT !.pc = pc]
          /\ pc = "write" => Exists(Prepared)
    BY DEF PrepareCheck, Goto
  <1>3. script' \in Script /\ script'.kind = "prepare" /\ script'.pc = pc
        /\ script'.man = section
    BY <1>1, <1>2 DEF Script
  <1>4. pc = "write" => RefOK(Prepared)
    BY <1>2, Locations DEF ServeInv, TypeOK, PartInv, Exists, RefOK, Loadable
  <1>5. pc = "write" => RefOK(Prepared)'
    BY <1>1, <1>4 DEF RefOK, Loadable, storage
  <1>6. script'.out # Gone
    BY <1>1, <1>2 DEF Script
  <1>7. ScriptInv'
    BY <1>1, <1>3, <1>4, <1>5, <1>6 DEF ScriptInv, Uploads, Built, Kinds, storage
  <1> QED
    BY <1>1, <1>3, <1>7, Steady

LEMMA ConvertServe ==
  ASSUME ServeInv, Convert, UNCHANGED vllm
  PROVE  ServeInv'
  <1>1. script \in Script /\ UNCHANGED storage /\ script.kind = "gguf"
        /\ section \in Section /\ Loads(section)
        /\ script' = [script EXCEPT !.pc = "file", !.man = section, !.out = WeightsOf(section)]
    BY DEF Convert, At, ServeInv, TypeOK, Script
  <1>2. WeightsOf(section) \in Weights
    BY <1>1, LoadedWeights DEF ServeInv
  <1>3. script' \in Script /\ script'.kind = "gguf" /\ script'.pc = "file"
        /\ script'.man = section /\ script'.out # Gone
    BY <1>1, <1>2, Numbered DEF Script
  <1>4. Loads(section)'
    BY <1>1 DEF Loads, Loadable, ModelOf, storage
  <1>5. ScriptInv'
    BY <1>1, <1>3, <1>4 DEF ScriptInv, Uploads, Built, Kinds, storage
  <1> QED
    BY <1>1, <1>3, <1>5, Steady

-----------------------------------------------------------------------------
(* Steps that change the storage.                                          *)

LEMMA MoveServe ==
  ASSUME ServeInv, MoveAlias, UNCHANGED vllm
  PROVE  ServeInv'
  <1>1. script \in Script /\ script' = [script EXCEPT !.pc = "read"]
        /\ script.kind = "promote" /\ UNCHANGED <<section, holds, files, spoiled>>
    BY DEF MoveAlias, At, Goto, ServeInv, TypeOK, Script
  <1>2. script' \in Script /\ script'.kind = "promote" /\ script'.pc = "read"
    BY <1>1 DEF Script
  <1>3. production' \in Weights
    BY ServingAssumption DEF MoveAlias, Weights
  <1>4. TypeOK'
    BY <1>1, <1>2, <1>3 DEF ServeInv, TypeOK, Script
  <1>5. RefOK(section.model)' /\ RefOK(section.base)' /\ PartInv'
    BY <1>1 DEF ServeInv, RefOK, PartInv, Loadable
  <1>6. ScriptInv'
    BY <1>1, <1>2 DEF ScriptInv, Uploads, Built, Kinds
  <1>7. EndedWellIsServable'
    BY <1>2 DEF EndedWellIsServable, Idle
  <1> QED
    BY <1>4, <1>5, <1>6, <1>7 DEF ServeInv

\* The file of prepare_gguf makes no directory that a section names, unless the
\* pretrained model is being replaced.
LEMMA FileServe ==
  ASSUME ServeInv, UploadFile, UNCHANGED vllm
  PROVE  ServeInv'
  <1>1. script \in Script /\ script' = [script EXCEPT !.pc = "write"]
        /\ script.pc = "file" /\ script.kind = "gguf" /\ script.man = section
        /\ UNCHANGED <<production, section, spoiled>>
    BY DEF UploadFile, At, Goto, ServeInv, TypeOK, Script, ScriptInv
  <1>2. script' \in Script /\ script'.kind = "gguf" /\ script'.pc = "write"
        /\ script'.man = script.man
    BY <1>1 DEF Script
  <1>3. files' \subseteq Places
    BY DEF UploadFile, PlaceOf, Places, ServeInv, TypeOK
  <1>4. PICK made \in BOOLEAN :
          /\ made => section.named /\ holds[Prepared] = Gone
          /\ holds' = IF made THEN [holds EXCEPT ![Prepared] = Part] ELSE holds
    <2>1. CASE section.named /\ ~Exists(Prepared)
      BY <1>1, <2>1 DEF UploadFile, Exists
    <2>2. CASE ~(section.named /\ ~Exists(Prepared))
      BY <1>1, <2>2 DEF UploadFile
    <2> QED
      BY <2>1, <2>2
  <1>5. made => spoiled
    BY <1>4, Locations, Numbered DEF ServeInv, PartInv, RefOK, Loadable
  <1>6. holds' \in [Dirs -> Weights \cup {Gone, Part}]
        /\ \A d \in Dirs : holds'[d] = holds[d] \/ (made /\ d = Prepared /\ holds'[d] = Part)
    BY <1>4, Locations DEF ServeInv, TypeOK
  <1>7. \A ref \in Models \cup {Adapter} : Loadable(ref) => Loadable(ref)'
    BY <1>4, <1>6, Numbered, Locations DEF Loadable
  <1>8. TypeOK'
    BY <1>1, <1>2, <1>3, <1>6 DEF ServeInv, TypeOK, Script
  <1>9. RefOK(section.model)' /\ RefOK(section.base)'
    BY <1>1, <1>7 DEF ServeInv, RefOK
  <1>10. PartInv'
    BY <1>1, <1>5, <1>6, <1>7, Locations DEF ServeInv, PartInv, RefOK
  <1>11. Loads(section) /\ (section.load = "none" \/ ModelOf(section) \in Models)
    BY <1>1, Locations DEF ServeInv, ScriptInv, Loads, Loadable, TypeOK, Section, ModelOf
  <1>12. Loads(section)'
    BY <1>1, <1>7, <1>11, Locations DEF Loads, ModelOf
  <1>13. ScriptInv'
    BY <1>1, <1>2, <1>12 DEF ScriptInv, Uploads, Built, Kinds
  <1>14. EndedWellIsServable'
    BY <1>2 DEF EndedWellIsServable, Idle
  <1> QED
    BY <1>8, <1>9, <1>10, <1>13, <1>14 DEF ServeInv

\* What an upload removes is nothing a section names, except the adapter, and
\* the pretrained model by force.
LEMMA RemovalServe ==
  ASSUME ServeInv, script.pc \in {"upload", "remove"}, UNCHANGED <<production, section, vllm>>,
         NEW left \in {Gone, Part}, holds' = [holds EXCEPT ![Target] = left],
         files' \subseteq files, NEW pc \in {"remove", "rename"},
         script' = [script EXCEPT !.pc = pc],
         script.kind \in Built => left = Gone,
         spoiled' = (spoiled \/ Target = Prepared)
  PROVE  ServeInv'
  <1>1. script \in Script /\ script.kind \in {"promote", "merge", "awq", "prepare"}
        /\ script.out # Gone /\ (script.kind = "merge" => production > 0)
    BY DEF ServeInv, TypeOK, Script, ScriptInv, Uploads
  <1>2. script' \in Script /\ script'.kind = script.kind /\ script'.pc = pc
        /\ script'.man = script.man /\ script'.out = script.out
    BY <1>1 DEF Script
  <1>3. Target \in Dirs /\ Target' = Target
        /\ (Target \in Models <=> script.kind # "promote")
        /\ (Target = Prepared <=> script.kind = "prepare")
        /\ (Target = Adapter <=> script.kind = "promote")
    BY <1>1, <1>2, TargetPlace DEF Target, ServeInv
  <1>4. /\ holds \in [Dirs -> Weights \cup {Gone, Part}]
        /\ holds' \in [Dirs -> Weights \cup {Gone, Part}]
        /\ holds'[Target] = left /\ \A d \in Dirs : d # Target => holds'[d] = holds[d]
    BY <1>3 DEF ServeInv, TypeOK
  <1>5. TypeOK'
    BY <1>1, <1>2, <1>4 DEF ServeInv, TypeOK, Script
  <1>6. script.kind \in Built => holds[Target] = Gone
    BY DEF ServeInv, ScriptInv, Uploads
  <1>7. ASSUME NEW ref \in Models, RefOK(ref)
        PROVE  RefOK(ref)'
    <2>1. CASE ref = Prepared /\ Target = Prepared
      BY <2>1 DEF RefOK
    <2>2. CASE ref = Target /\ Target # Prepared
      <3>1. script.kind \in Built
        BY <1>1, <1>3, <2>2 DEF Built
      <3>2. ~Loadable(ref)
        BY <1>3, <1>6, <2>2, <3>1, Locations, Numbered DEF Loadable
      <3> QED
        BY <1>7, <2>2, <3>2 DEF RefOK
    <2>3. CASE ref # Target
      <3>1. Loadable(ref) => Loadable(ref)'
        BY <1>4, <2>3 DEF Loadable
      <3> QED
        BY <1>7, <3>1 DEF RefOK
    <2> QED
      BY <2>1, <2>2, <2>3
  <1>8. RefOK(section.model)' /\ RefOK(section.base)'
    BY <1>7 DEF ServeInv, RefOK
  <1>9. PartInv'
    <2>1. ASSUME NEW d \in Dirs, holds'[d] = Part
          PROVE  d = Adapter \/ (d = Prepared /\ spoiled')
      <3>1. CASE d = Target
        BY <1>1, <1>3, <1>4, <2>1, <3>1, Numbered DEF Built
      <3>2. CASE d # Target
        BY <1>4, <2>1, <3>2 DEF ServeInv, PartInv
      <3> QED
        BY <3>1, <3>2
    <2>2. section'.named => RefOK(Prepared)'
      BY <1>7, Locations DEF ServeInv, PartInv
    <2> QED
      BY <2>1, <2>2 DEF PartInv
  <1>10. script.kind \in Built => holds'[Target'] = Gone
    BY <1>3, <1>4
  <1>11. script.kind \in {"promote", "prepare"} => script.man = section
    BY DEF ServeInv, ScriptInv, Uploads
  <1>12. script.kind = "prepare" => spoiled'
    BY <1>3
  <1>13. ScriptInv'
    BY <1>1, <1>2, <1>10, <1>11, <1>12 DEF ScriptInv, Uploads, Built, Kinds
  <1>14. EndedWellIsServable'
    BY <1>2 DEF EndedWellIsServable, Idle
  <1> QED
    BY <1>5, <1>8, <1>9, <1>13, <1>14 DEF ServeInv

LEMMA RemoveServe ==
  ASSUME ServeInv, Remove \/ Removed, UNCHANGED vllm
  PROVE  ServeInv'
  <1>1. script.kind = "merge" /\ script.pc \in Uploads => production > 0
    BY DEF ServeInv, ScriptInv
  <1>2. ASSUME script.pc \in Uploads
        PROVE  Target \in Dirs /\ (Target = Prepared <=> script.kind = "prepare")
    BY <1>1, <1>2, TargetPlace DEF ServeInv, ScriptInv
  <1>3. CASE Remove
    <2>1. script.pc = "upload" /\ script.kind \notin Built
      BY <1>3 DEF Remove, Exists, ServeInv, ScriptInv, Uploads
    <2>2. files' \subseteq files
      BY <1>3 DEF Remove
    <2> QED
      BY <1>3, <2>1, <2>2, RemovalServe DEF Remove, Goto
  <1>4. CASE Removed
    <2>1. script.pc = "remove"
      BY <1>4 DEF Removed
    <2>2. Target = Prepared => spoiled
      BY <1>2, <2>1 DEF ServeInv, ScriptInv, Uploads
    <2>3. spoiled' = (spoiled \/ Target = Prepared)
      BY <1>4, <2>2 DEF Removed, ServeInv, TypeOK
    <2>4. files' \subseteq files
      BY <1>4 DEF Removed
    <2> QED
      BY <1>4, <2>1, <2>3, <2>4, RemovalServe DEF Removed, Goto
  <1> QED
    BY <1>3, <1>4

LEMMA RenameServe ==
  ASSUME ServeInv, Rename, UNCHANGED vllm
  PROVE  ServeInv'
  <1>1. script \in Script /\ script.pc \in Uploads
        /\ script.kind \in {"promote", "merge", "awq", "prepare"}
        /\ UNCHANGED <<production, section, files>> /\ script.out # Gone
        /\ (script.kind = "merge" => production > 0)
    BY DEF Rename, ServeInv, TypeOK, Script, ScriptInv, Uploads
  <1>2. PICK pc \in {"read", "write"} :
          /\ script' = [script EXCEPT !.pc = pc]
          /\ pc = "write" <=> script.kind \in {"promote", "prepare"}
    BY DEF Rename, Goto
  <1>3. script' \in Script /\ script'.kind = script.kind /\ script'.pc = pc
        /\ script'.man = script.man
    BY <1>1, <1>2 DEF Script
  <1>4. Target \in Dirs /\ Target' = Target
        /\ (Target = Prepared <=> script.kind = "prepare")
        /\ (Target = Adapter <=> script.kind = "promote")
    BY <1>1, <1>3, TargetPlace DEF Target, ServeInv
  <1>5. /\ holds \in [Dirs -> Weights \cup {Gone, Part}]
        /\ holds' = [holds EXCEPT ![Target] = script.out]
        /\ script.out \in Weights
        /\ spoiled' = (spoiled /\ Target # Prepared) /\ spoiled' \in BOOLEAN
    BY <1>1 DEF Rename, ServeInv, TypeOK, Script
  <1>6. TypeOK'
    BY <1>1, <1>3, <1>4, <1>5 DEF ServeInv, TypeOK, Script
  <1>7. holds'[Target] \in Weights /\ \A d \in Dirs : d # Target => holds'[d] = holds[d]
    BY <1>4, <1>5
  <1>8. ASSUME NEW ref \in Models, RefOK(ref)
        PROVE  RefOK(ref)'
    <2>1. CASE ref = Target
      BY <1>4, <1>7, <2>1 DEF RefOK, Loadable
    <2>2. CASE ref # Target
      <3>1. Loadable(ref) => Loadable(ref)'
        BY <1>7, <2>2 DEF Loadable
      <3>2. ref = Prepared => spoiled' = spoiled
        BY <1>5, <2>2 DEF ServeInv, TypeOK
      <3> QED
        BY <1>8, <3>1, <3>2 DEF RefOK
    <2> QED
      BY <2>1, <2>2
  <1>9. RefOK(section.model)' /\ RefOK(section.base)'
    BY <1>1, <1>8 DEF ServeInv, RefOK
  <1>10. PartInv'
    <2>1. ASSUME NEW d \in Dirs, holds'[d] = Part
          PROVE  d = Adapter \/ (d = Prepared /\ spoiled')
      <3>1. d # Target /\ holds[d] = Part
        BY <1>7, <2>1, Numbered
      <3> QED
        BY <1>5, <3>1 DEF ServeInv, PartInv
    <2>2. section'.named => RefOK(Prepared)'
      BY <1>1, <1>8, Locations DEF ServeInv, PartInv
    <2> QED
      BY <2>1, <2>2 DEF PartInv
  <1>11. script.kind = "prepare" => RefOK(Prepared)'
    BY <1>4, <1>7 DEF RefOK, Loadable
  <1>12. script.kind = "promote" => Loadable(Adapter)'
    BY <1>4, <1>7 DEF Loadable
  <1>13. script.kind \in {"promote", "prepare"} => script.man = section
    BY <1>1 DEF ServeInv, ScriptInv
  <1>14. holds'[Target'] # Gone
    BY <1>4, <1>7, Numbered
  <1>15. ScriptInv'
    BY <1>1, <1>2, <1>3, <1>11, <1>12, <1>13, <1>14 DEF ScriptInv, Uploads, Built, Kinds
  <1>16. EndedWellIsServable'
    BY <1>3 DEF EndedWellIsServable, Idle
  <1> QED
    BY <1>6, <1>9, <1>10, <1>15, <1>16 DEF ServeInv

\* A section that names a model which is there, and with an adapter its
\* adapter, can be served, or is one of the two exceptions.
LEMMA Served ==
  ASSUME NEW s \in Section, s.load # "none", ModelOf(s) \in Models, RefOK(ModelOf(s)),
         s.load = "lora" => s.lora /\ Loadable(Adapter)
  PROVE  Servable(s) \/ StaleQuantization(s) \/ EmptyPrepared(s)
  <1>1. CASE Loadable(ModelOf(s))
    BY <1>1 DEF Loads, Servable, Accepted, Taken, Quantization, StaleQuantization
  <1>2. CASE ~Loadable(ModelOf(s))
    BY <1>2 DEF RefOK, EmptyPrepared
  <1> QED
    BY <1>1, <1>2

LEMMA WriteServe ==
  ASSUME ServeInv, WriteManifest, UNCHANGED vllm
  PROVE  ServeInv'
  <1>1. script \in Script /\ script.pc = "write" /\ script.kind \in Kinds
        /\ script.man = section /\ section \in Section
        /\ (script.kind = "merge" => production > 0)
        /\ RefOK(section.model) /\ RefOK(section.base) /\ PartInv
    BY DEF WriteManifest, ServeInv, TypeOK, Script, ScriptInv
  <1>2. section' = Edited(section) /\ script' = [IdleScript EXCEPT !.well = TRUE]
        /\ UNCHANGED <<production, holds, files, spoiled>>
    BY <1>1 DEF WriteManifest
  <1>3. script' \in Script /\ script'.pc = "idle"
    BY <1>2, Nothing DEF IdleScript
  <1> DEFINE s == Edited(section)
             Good == /\ s \in Section /\ RefOK(s.model) /\ RefOK(s.base)
                     /\ s.named => RefOK(Prepared)
                     /\ s.load # "none"
                     /\ script.kind # "gguf" => ModelOf(s) \in Models
                     /\ s.load = "lora" /\ script.kind # "gguf" => s.lora /\ Loadable(Adapter)
  <1>4. ASSUME script.kind = "promote" PROVE Good
    <2> DEFINE b == BaseOf(section)
    <2>1. b \in Models /\ RefOK(b)
      BY <1>1, Locations DEF BaseOf, Section, RefOK, Loadable
    <2> HIDE DEF b
    <2>2. s = [section EXCEPT !.load = "lora", !.base = b, !.lora = TRUE, !.model = NoRef]
      BY <1>4 DEF Edited, b
    <2>3. RefOK(NoRef)
      BY Locations DEF RefOK
    <2>4. s \in Section /\ s.load = "lora" /\ s.base = b /\ s.lora /\ s.model = NoRef
          /\ s.named = section.named
      BY <1>1, <2>1, <2>2 DEF Section
    <2>5. Loadable(Adapter)
      BY <1>1, <1>4 DEF ServeInv, ScriptInv
    <2> QED
      BY <1>1, <2>1, <2>3, <2>4, <2>5 DEF ModelOf, PartInv
  <1>5. ASSUME script.kind \in Built PROVE Good
    <2>1. Target \in Models /\ RefOK(Target) /\ RefOK(NoRef)
      <3>1. holds[Target] # Gone
        BY <1>1, <1>5 DEF ServeInv, ScriptInv
      <3>2. Target \in Models
        BY <1>1, <1>5, TargetPlace DEF Built, ServeInv
      <3>3. holds[Target] \in Weights
        BY <1>1, <1>5, <3>1, <3>2, TargetPlace, Locations DEF ServeInv, TypeOK, PartInv, Built
      <3> QED
        BY <3>2, <3>3, Locations DEF RefOK, Loadable
    <2>2. s \in Section /\ s.load = "full" /\ s.base = NoRef /\ s.model = Target
          /\ s.named = section.named
      <3>1. CASE script.kind = "merge"
        BY <1>1, <2>1, <3>1 DEF Edited, Section
      <3>2. CASE script.kind = "awq"
        BY <1>1, <2>1, <3>2 DEF Edited, Section
      <3> QED
        BY <1>5, <3>1, <3>2 DEF Built
    <2> QED
      BY <1>1, <2>1, <2>2 DEF ModelOf, PartInv
  <1>6. ASSUME script.kind = "gguf" PROVE Good
    <2>1. s = [section EXCEPT !.gguf = PlaceOf(section)] /\ PlaceOf(section) \in Places
      BY <1>6 DEF Edited, PlaceOf, Places
    <2>2. s \in Section /\ s.load = section.load /\ s.model = section.model
          /\ s.base = section.base /\ s.named = section.named
      BY <1>1, <2>1 DEF Section
    <2>3. section.load # "none"
      BY <1>1, <1>6 DEF ServeInv, ScriptInv, Loads
    <2> QED
      BY <1>1, <1>6, <2>2, <2>3 DEF PartInv
  <1>7. ASSUME script.kind = "prepare" PROVE Good
    <2>1. s = [section EXCEPT !.load = "full", !.model = Prepared, !.named = TRUE]
      BY <1>7 DEF Edited
    <2>2. RefOK(Prepared)
      BY <1>1, <1>7 DEF ServeInv, ScriptInv
    <2>3. s \in Section /\ s.load = "full" /\ s.model = Prepared /\ s.base = section.base
      BY <1>1, <2>1, Locations DEF Section
    <2> QED
      BY <1>1, <2>2, <2>3, Locations DEF ModelOf
  <1>8. Good
    BY <1>1, <1>4, <1>5, <1>6, <1>7 DEF Kinds, Built
  <1>9. Servable(s) \/ StaleQuantization(s) \/ EmptyPrepared(s)
    <2>1. CASE script.kind # "gguf"
      <3>1. RefOK(ModelOf(s))
        BY <1>8 DEF ModelOf
      <3> HIDE DEF s
      <3> QED
        BY <1>8, <2>1, <3>1, Served
    <2>2. CASE script.kind = "gguf"
      <3>1. s = [section EXCEPT !.gguf = PlaceOf(section)]
        BY <2>2 DEF Edited
      <3>2. s.load = section.load /\ s.model = section.model /\ s.base = section.base
            /\ s.lora = section.lora
        BY <1>1, <3>1 DEF Section
      <3>3. Loads(section)
        BY <1>1, <2>2 DEF ServeInv, ScriptInv
      <3> HIDE DEF s
      <3>4. Loads(s)
        BY <3>2, <3>3 DEF Loads, ModelOf
      <3> QED
        BY <3>4 DEF Servable, Accepted, Taken, Quantization, StaleQuantization
    <2> QED
      BY <2>1, <2>2
  <1> HIDE DEF s
  <1>10. section' = s
    BY <1>2 DEF s
  <1>11. TypeOK'
    BY <1>2, <1>3, <1>8, <1>10 DEF ServeInv, TypeOK, Script
  <1>12. RefOK(section.model)' /\ RefOK(section.base)' /\ PartInv'
    BY <1>1, <1>2, <1>8, <1>10 DEF RefOK, PartInv, Loadable
  <1>13. ScriptInv'
    BY <1>3 DEF ScriptInv, Uploads
  <1>14. EndedWellIsServable'
    BY <1>2, <1>9, <1>10 DEF EndedWellIsServable, Servable, StaleQuantization, EmptyPrepared,
       Loads, Loadable, Accepted, Taken, Quantization, ModelOf
  <1> QED
    BY <1>11, <1>12, <1>13, <1>14 DEF ServeInv

-----------------------------------------------------------------------------
(* The servers.                                                            *)

LEMMA ServerSteps ==
  ASSUME ServeInv, VllmStep \/ Rollout \/ UNCHANGED vars
  PROVE  ServeInv'
  <1>1. UNCHANGED <<storage, script>>
    BY DEF VllmStep, Rollout, vars
  <1> DEFINE Pod == [pc : {"down", "model", "adapter", "launch", "up"}, has : Takes,
                     loads : BOOLEAN]
  <1>2. vllm' \in Pod
    <2>1. NoSection \in Section /\ section \in Section /\ vllm \in Pod
      BY DEF NoSection, Section, ServeInv, TypeOK
    <2>2. \A sec \in Section : Taken(sec) \in Takes
      BY DEF Section, Taken, Takes, ModelOf
    <2>3. Down \in Pod
      BY <2>1, <2>2 DEF Down
    <2>4. \A ref : Loadable(ref) \in BOOLEAN
      BY DEF Loadable
    <2>5. CASE VllmStep
      <3>1. CASE ReadSection
        BY <2>1, <2>2, <3>1 DEF ReadSection
      <3>2. CASE DownloadModel
        <4>1. CASE VllmExit
          BY <2>3, <4>1 DEF VllmExit
        <4>2. CASE ~VllmExit
          <5>1. PICK pc \in {"adapter", "launch"} :
                  vllm' = [vllm EXCEPT !.loads = Loadable(vllm.has.model), !.pc = pc]
            BY <3>2, <4>2 DEF DownloadModel
          <5> QED
            BY <2>1, <2>4, <5>1
        <4> QED
          BY <4>1, <4>2
      <3>3. CASE DownloadAdapter \/ Launch
        <4>1. (vllm.loads /\ Loadable(Adapter)) \in BOOLEAN
          BY <2>1, <2>4
        <4> QED
          BY <2>1, <2>3, <4>1, <3>3 DEF DownloadAdapter, Launch, VllmExit
      <3> QED
        BY <2>5, <3>1, <3>2, <3>3 DEF VllmStep
    <2>6. CASE ~VllmStep
      BY <2>1, <2>3, <2>6 DEF Rollout, VllmExit, vars
    <2> QED
      BY <2>5, <2>6
  <1>3. TypeOK'
    BY <1>1, <1>2 DEF ServeInv, TypeOK, storage
  <1>4. RefOK(section.model)' /\ RefOK(section.base)' /\ PartInv'
    BY <1>1 DEF ServeInv, RefOK, PartInv, Loadable, storage
  <1>5. ScriptInv'
    BY <1>1 DEF ServeInv, ScriptInv, RefOK, Loads, Loadable, ModelOf, Target, storage
  <1>6. EndedWellIsServable'
    BY <1>1 DEF ServeInv, EndedWellIsServable, Idle, Servable, StaleQuantization, EmptyPrepared,
       Loads, Loadable, Accepted, Taken, Quantization, ModelOf, storage
  <1> QED
    BY <1>3, <1>4, <1>5, <1>6 DEF ServeInv

LEMMA ServeInit == Init => ServeInv
  <1> SUFFICES ASSUME Init PROVE ServeInv
    OBVIOUS
  <1>1. NoSection \in Section
    BY DEF NoSection, Section
  <1>2. TypeOK
    <2>1. Taken(NoSection) \in Takes
      BY DEF NoSection, Taken, Takes, ModelOf
    <2>2. vllm \in [pc : {"down", "model", "adapter", "launch", "up"}, has : Takes,
                   loads : BOOLEAN]
      BY <2>1 DEF Init, Down
    <2>3. script \in Script
      BY Nothing DEF Init
    <2> QED
      BY <1>1, <2>2, <2>3, Numbered DEF Init, TypeOK, Script
  <1>3. RefOK(section.model) /\ RefOK(section.base) /\ PartInv
    BY Locations, Numbered DEF Init, NoSection, RefOK, PartInv
  <1>4. ScriptInv /\ EndedWellIsServable
    BY DEF Init, IdleScript, ScriptInv, Uploads, EndedWellIsServable
  <1> QED
    BY <1>2, <1>3, <1>4 DEF ServeInv

LEMMA ServeNext == ServeInv /\ [Next]_vars => ServeInv'
  <1> SUFFICES ASSUME ServeInv, [Next]_vars PROVE ServeInv'
    OBVIOUS
  <1>1. CASE ScriptStep
    BY <1>1, StartServe, StopServe, MoveServe, ReadServe, PrepareServe, ConvertServe, FileServe,
       SkipServe, BuildServe, RemoveServe, RenameServe, WriteServe DEF ScriptStep
  <1>2. CASE ~ScriptStep
    BY <1>2, ServerSteps DEF Next
  <1> QED
    BY <1>1, <1>2

\* The invariant holds in every state.
THEOREM ServeInvariant == Spec => []ServeInv
  BY ServeInit, ServeNext, PTL DEF Spec

\* Every variable keeps its type, whatever is killed: a section names only
\* models that scripts publish, and the alias a version that exists.
THEOREM ServingTypeCorrect == Spec => []TypeOK
  <1>1. ServeInv => TypeOK
    BY DEF ServeInv
  <1> QED
    BY ServeInvariant, <1>1, PTL

\* After a script that ended well, serve_vllm can be started from what the
\* section names in a LocalStorage, but for the two exceptions
\* EndedWellIsServable names.
THEOREM WellEndedServable == Spec => []EndedWellIsServable
  <1>1. ServeInv => EndedWellIsServable
    BY DEF ServeInv
  <1> QED
    BY ServeInvariant, <1>1, PTL
=============================================================================
