------------------------- MODULE ProductionRegistry -------------------------
(***************************************************************************)
(* What the model registry promises: the abstract specification that       *)
(* module Release implements.  Only the val_loss tags of the registered    *)
(* versions and the Production alias are visible; the jobs, the Staging    *)
(* alias, the manifest and the artifact storage are hidden.                *)
(***************************************************************************)
EXTENDS Naturals, Sequences

CONSTANTS
  Pipelines,   \* the sections of the manifest (decoder_pipeline, ...)
  Scores,      \* the values val_loss can take, lower is better
  NoTag        \* the val_loss of a version that carries no tag

VARIABLES
  tags,        \* tags[p][v]: the val_loss of version v of pipeline p
  production   \* production[p]: the version the alias names, 0 for no alias

regVars == <<tags, production>>

Init ==
  /\ tags = [p \in Pipelines |-> <<>>]
  /\ production = [p \in Pipelines |-> 0]

\* A trained adapter becomes the next version; it has no val_loss yet.
Register(p) ==
  /\ tags' = [tags EXCEPT ![p] = Append(@, NoTag)]
  /\ UNCHANGED production

\* A version gets its val_loss once.
Tag(p, v, s) ==
  /\ v \in DOMAIN tags[p]
  /\ tags[p][v] = NoTag
  /\ tags' = [tags EXCEPT ![p][v] = s]
  /\ UNCHANGED production

\* The alias moves only to a tagged version with a strictly lower val_loss.
Promote(p, v) ==
  /\ v \in DOMAIN tags[p]
  /\ tags[p][v] # NoTag
  /\ production[p] # 0 => tags[p][v] < tags[p][production[p]]
  /\ production' = [production EXCEPT ![p] = v]
  /\ UNCHANGED tags

Next ==
  \E p \in Pipelines :
    \/ Register(p)
    \/ \E v \in DOMAIN tags[p], s \in Scores : Tag(p, v, s)
    \/ \E v \in DOMAIN tags[p] : Promote(p, v)

Spec == Init /\ [][Next]_regVars

=============================================================================
