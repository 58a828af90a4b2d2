------------------------ MODULE TransformationPlugin ------------------------
(***************************************************************************)
(* A transformation plugin and the transformations Routing Service creates *)
(* from it: the functions every plugin gets from the framework's template  *)
(* (TransformationTemplateDefine.h) and the list they keep                 *)
(* (TransformationPlugin.c, Transformation.c).  The mutex around them is   *)
(* compiled out by default; Routing Service makes these calls one at a     *)
(* time, and each is one action here.                                      *)
(***************************************************************************)
EXTENDS Naturals, Sequences, Functions

CONSTANT Transforms     \* the transformations there may be at a time

VARIABLES
    tp_plugin,      \* "none", "alive" or "deleted"
    tp_transforms,  \* transforms, the plugin's list
    tp_live,        \* transformations whose memory is allocated
    tp_handles      \* transformations Routing Service was given

tpvars == <<tp_plugin, tp_transforms, tp_live, tp_handles>>

TransformationPluginInit ==
    /\ tp_plugin = "none" /\ tp_transforms = <<>>
    /\ tp_live = {} /\ tp_handles = {}

\* TPlugin_create and TPlugin_new; whatever fails in them, what was
\* allocated so far is freed.
TPlugin_new(ok) ==
    /\ tp_plugin = "none"
    /\ tp_plugin' = IF ok THEN "alive" ELSE "none"
    /\ UNCHANGED <<tp_transforms, tp_live, tp_handles>>

\* T_new: the transformation is allocated, configured and initialized, or
\* nothing of it is left.
T_new(t, ok) == tp_live' = IF ok THEN tp_live \cup {t} ELSE tp_live

\* initialize_transformation: the list is made one longer and its last place
\* is the transformation's.
AddToList(list, t) == Append(list, t)

CreateTransformation(t, ok) ==
    /\ tp_plugin = "alive" /\ t \notin tp_live
    /\ T_new(t, ok)
    /\ tp_transforms' = IF ok THEN AddToList(tp_transforms, t) ELSE tp_transforms
    /\ tp_handles' = IF ok THEN tp_handles \cup {t} ELSE tp_handles
    /\ UNCHANGED tp_plugin

\* Mutant of RemoveFromList: the move begins one place too late.
RemoveFromListLate(list, i) ==
    [j \in 1 .. Len(list) - 1 |-> IF j > i THEN list[j + 1] ELSE list[j]]

\* finalize_transformation: the first place that has t, 0 if none; what comes
\* after it moves one place down.
PlaceOf(list, t) ==
    IF \E i \in DOMAIN list : list[i] = t
    THEN CHOOSE i \in DOMAIN list :
             list[i] = t /\ \A j \in 1 .. i - 1 : list[j] # t
    ELSE 0
RemoveFromList(list, i) ==
    [j \in 1 .. Len(list) - 1 |-> IF j >= i THEN list[j + 1] ELSE list[j]]

\* T_delete.
T_delete(t) == tp_live' = tp_live \ {t}

\* A transformation that is not in the list is not deleted.
DeleteTransformation(t) ==
    /\ tp_plugin = "alive" /\ t \in tp_handles
    /\ LET i == PlaceOf(tp_transforms, t)
       IN  IF i = 0 THEN UNCHANGED <<tp_transforms, tp_live>>
           ELSE /\ tp_transforms' = RemoveFromList(tp_transforms, i)
                /\ T_delete(t)
    /\ tp_handles' = tp_handles \ {t}
    /\ UNCHANGED tp_plugin

\* TPlugin_delete: the plugin is freed, with or without transformations in
\* its list; its list and its user plugin only without.
TPlugin_delete ==
    /\ tp_plugin = "alive" /\ tp_handles = {}
    /\ tp_plugin' = "deleted"
    /\ UNCHANGED <<tp_transforms, tp_live, tp_handles>>

TransformationPluginNext ==
    \/ \E ok \in BOOLEAN : TPlugin_new(ok)
    \/ \E t \in Transforms, ok \in BOOLEAN : CreateTransformation(t, ok)
    \/ \E t \in Transforms : DeleteTransformation(t)
    \/ TPlugin_delete

TransformationPluginSpec ==
    TransformationPluginInit /\ [][TransformationPluginNext]_tpvars

\* The list has every transformation Routing Service holds once and no other,
\* in any order of creations, failed creations and deletions, so that each
\* can be found and freed; a plugin that is deleted leaves none behind.
TransformationsAreListed ==
    /\ IsInjective(tp_transforms) /\ Range(tp_transforms) = tp_handles
    /\ tp_live = tp_handles
    /\ tp_plugin = "deleted" => tp_live = {}
=============================================================================
