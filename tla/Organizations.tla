---------------------------- MODULE Organizations ----------------------------
(***************************************************************************)
(* Organizations, which of them is the default one, and the Settings forms *)
(* that edit them from browser tabs.                                       *)
(*                                                                         *)
(* A record is a name (slug, name and status are one field here) and the   *)
(* default flag.  The ETag is a hash of exactly these, so a tag is modelled *)
(* by the record that it stands for, and an earlier content has its tag    *)
(* again.  The role and group Settings forms are this form without a flag. *)
(***************************************************************************)
EXTENDS Naturals, FiniteSets

CONSTANTS Organizations, Names,
          Forms,      \* Settings tabs open at once
          NoRecord,   \* what is read of a deleted organization
          MaxSaves    \* bound: edits and saves of forms, and requests of API callers

ASSUME OrganizationsAssumption ==
  /\ Organizations # {} /\ IsFiniteSet(Organizations)
  /\ Names # {} /\ MaxSaves \in Nat

Records == [name : Names, isDefault : BOOLEAN]

ASSUME NoRecordAssumption == NoRecord \notin Records

VARIABLES
  orgs,      \* app_organizations: each organization's record or NoRecord
  form,      \* Settings forms
  deleting,  \* organizations that a DELETE has checked and is about to delete
  saves      \* what is left of MaxSaves

orgVars == <<orgs, form, deleting, saves>>

(* A tab that shows nothing.  Otherwise: server is the record in the page's  *)
(* props, tag the one sent as If-Match, baseline what the values are         *)
(* compared with, sent the save under way (its If-Match, the fields of its   *)
(* body and the values shown), reply the tag in its answer, refresh whether  *)
(* router.refresh() was called, page the page on its way.                    *)
Closed == [phase |-> "closed"]
NoSave == [ifMatch |-> NoRecord, changes |-> {}, shown |-> NoRecord]
Saves == [ifMatch : Records, changes : SUBSET {"name", "isDefault"}, shown : Records]

Opened(o) ==
  [phase |-> "idle", org |-> o, server |-> orgs[o], tag |-> orgs[o], baseline |-> orgs[o],
   values |-> orgs[o], sent |-> NoSave, reply |-> NoRecord, refresh |-> FALSE, page |-> NoRecord]

FormStates ==
  [phase : {"idle", "sent", "saved", "stale", "failed"}, org : Organizations,
   server : Records, tag : Records, baseline : Records, values : Records,
   sent : Saves \cup {NoSave}, reply : Records \cup {NoRecord},
   refresh : BOOLEAN, page : Records \cup {NoRecord}]

OrganizationsTypeOK ==
  /\ orgs \in [Organizations -> Records \cup {NoRecord}]
  /\ form \in [Forms -> FormStates \cup {Closed}]
  /\ deleting \subseteq Organizations
  /\ saves \in 0..MaxSaves

Existing == {o \in Organizations : orgs[o] # NoRecord}

OrganizationsInit ==
  /\ orgs \in [Organizations -> Records \cup {NoRecord}]
  /\ Cardinality({o \in Existing : orgs[o].isDefault}) = 1
  /\ form = [f \in Forms |-> Closed]
  /\ deleting = {} /\ saves = MaxSaves
-----------------------------------------------------------------------------
(* The default organization *)

(* getDefaultOrganization, where one is flagged. *)
IsResolvedDefault(o) == orgs[o] # NoRecord /\ orgs[o].isDefault

(* moveDefaultOrganizationFlag, in records that may have been written already: *)
(* every other organization loses the flag.                                    *)
MoveDefaultFlag(table, o) ==
  [p \in Organizations |->
     IF table[p] = NoRecord THEN NoRecord ELSE [table[p] EXCEPT !.isDefault = (p = o)]]

(* POST *)
CreateOrganization(o, name, setDefault) ==
  /\ orgs[o] = NoRecord /\ saves > 0
  /\ LET inserted == [orgs EXCEPT ![o] = [name |-> name, isDefault |-> FALSE]]
     IN orgs' = IF setDefault THEN MoveDefaultFlag(inserted, o) ELSE inserted
  /\ saves' = saves - 1
  /\ UNCHANGED <<form, deleting>>

(* What a PATCH writes when it changes these fields to these values: a given *)
(* default flag moves here, and is never dropped.                            *)
Refused(o, changes, values) == "isDefault" \in changes /\ ~values.isDefault /\ IsResolvedDefault(o)

Updated(o, changes, values) ==
  LET named == IF "name" \in changes THEN [orgs EXCEPT ![o].name = values.name] ELSE orgs
  IN IF "isDefault" \in changes /\ values.isDefault THEN MoveDefaultFlag(named, o) ELSE named

(* A PATCH without If-Match (an API client). *)
BlindPatch(o, changes, values) ==
  /\ saves > 0 /\ changes # {}
  /\ orgs[o] # NoRecord /\ ~Refused(o, changes, values)
  /\ orgs' = Updated(o, changes, values)
  /\ saves' = saves - 1
  /\ UNCHANGED <<form, deleting>>

(* DELETE reads the flag and the memberships on the pool ... *)
DeleteChecked(o) ==
  /\ orgs[o] # NoRecord /\ ~IsResolvedDefault(o) /\ o \notin deleting /\ saves > 0
  /\ deleting' = deleting \cup {o} /\ saves' = saves - 1
  /\ UNCHANGED <<orgs, form>>

(* Mutant: the flag is not read again under its lock. *)
DeleteCommitted_Unchecked(o) ==
  /\ o \in deleting
  /\ orgs' = [orgs EXCEPT ![o] = NoRecord]
  /\ deleting' = deleting \ {o}
  /\ UNCHANGED <<form, saves>>

(* ... and the flag once more in the deleting transaction. *)
DeleteCommitted(o) ==
  /\ o \in deleting /\ ~IsResolvedDefault(o)
  /\ orgs' = [orgs EXCEPT ![o] = NoRecord]
  /\ deleting' = deleting \ {o}
  /\ UNCHANGED <<form, saves>>

(* It became the default, or rows still refer to it, or the request failed. *)
DeleteAbandoned(o) ==
  /\ o \in deleting
  /\ deleting' = deleting \ {o}
  /\ UNCHANGED <<orgs, form, saves>>
-----------------------------------------------------------------------------
(* Settings forms *)

Fields == {"name", "isDefault"}

(* pickChangedFields *)
Changed(values, baseline) == {k \in Fields : values[k] # baseline[k]}

Open(f) ==
  /\ form[f] = Closed
  /\ \E o \in Existing : form' = [form EXCEPT ![f] = Opened(o)]
  /\ UNCHANGED <<orgs, deleting, saves>>

CloseTab(f) ==
  /\ form[f] # Closed
  /\ form' = [form EXCEPT ![f] = Closed]
  /\ UNCHANGED <<orgs, deleting, saves>>

(* The inputs stay live while a save is in flight. *)
Edit(f) ==
  /\ form[f] # Closed /\ saves > 0
  /\ \E v \in Records \ {form[f].values} : form' = [form EXCEPT ![f].values = v]
  /\ saves' = saves - 1
  /\ UNCHANGED <<orgs, deleting>>

(* commitSaved: the baseline alone moves, and the page is refreshed. *)
CommitSaved(fm, saved) == [fm EXCEPT !.baseline = saved, !.refresh = TRUE]

(* onValid: with nothing changed nothing is sent. *)
Submit(f) ==
  /\ form[f] # Closed /\ form[f].phase = "idle" /\ saves > 0
  /\ LET fm == form[f]
         changes == Changed(fm.values, fm.baseline)
     IN form' = [form EXCEPT ![f] =
          IF changes = {}
            THEN CommitSaved(fm, fm.values)
            ELSE [fm EXCEPT !.phase = "sent",
                    !.sent = [ifMatch |-> fm.tag, changes |-> changes, shown |-> fm.values]]]
  /\ saves' = saves - 1
  /\ UNCHANGED <<orgs, deleting>>

(* ifMatchSatisfied, with the tag of the record under the row lock. *)
Matches(o, tag) == orgs[o] # NoRecord /\ orgs[o] = tag

(* The PATCH.  The answer carries the tag of the record as updated. *)
PatchAccepted(f) ==
  /\ form[f] # Closed /\ form[f].phase = "sent"
  /\ LET o == form[f].org
         save == form[f].sent
     IN /\ Matches(o, save.ifMatch) /\ ~Refused(o, save.changes, save.shown)
        /\ orgs' = Updated(o, save.changes, save.shown)
        /\ form' = [form EXCEPT ![f].phase = "saved", ![f].reply = orgs'[o]]
  /\ UNCHANGED <<deleting, saves>>

(* 412, or any other refusal or failure before the write. *)
PatchRefused(f) ==
  /\ form[f] # Closed /\ form[f].phase = "sent"
  /\ form' = [form EXCEPT ![f].phase = IF Matches(form[f].org, form[f].sent.ifMatch)
                                          THEN "failed" ELSE "stale"]
  /\ UNCHANGED <<orgs, deleting, saves>>

Answered(fm) == [fm EXCEPT !.phase = "idle", !.sent = NoSave, !.reply = NoRecord]

(* adopt and commitSaved; a conflict reloads, and another error only shows. *)
AnswerArrives(f) ==
  /\ form[f].phase \in {"saved", "stale", "failed"}
  /\ LET fm == form[f]
     IN form' = [form EXCEPT ![f] = Answered(
          CASE fm.phase = "saved"  -> CommitSaved([fm EXCEPT !.tag = fm.reply], fm.sent.shown)
            [] fm.phase = "stale"  -> [fm EXCEPT !.refresh = TRUE]
            [] fm.phase = "failed" -> fm)]
  /\ UNCHANGED <<orgs, deleting, saves>>

(* fetch throws: the save may have been made all the same. *)
AnswerLost(f) ==
  /\ form[f].phase \in {"saved", "stale", "failed"}
  /\ form' = [form EXCEPT ![f] = Answered(@)]
  /\ UNCHANGED <<orgs, deleting, saves>>

(* The server renders the page that was asked for ... *)
Render(f) ==
  /\ form[f] # Closed /\ form[f].refresh /\ form[f].page = NoRecord
  /\ LET rendered == orgs[form[f].org]
     IN form' = [form EXCEPT ![f] =
          IF rendered = NoRecord THEN Closed ELSE [@ EXCEPT !.refresh = FALSE, !.page = rendered]]
  /\ UNCHANGED <<orgs, deleting, saves>>

(* Mutant: the tag follows the page and the baseline does not. *)
FollowServer_KeepsBaseline(fm) ==
  IF fm.page = fm.server THEN fm
  ELSE [fm EXCEPT !.server = fm.page, !.tag = fm.page]

(* The effects of useIfMatch and useSavedFormBaseline: only a change of the  *)
(* props moves the tag and the baseline, and edited fields keep their value. *)
FollowServer(fm) ==
  IF fm.page = fm.server THEN fm
  ELSE [fm EXCEPT !.server = fm.page, !.tag = fm.page, !.baseline = fm.page,
          !.values = [k \in Fields |->
            IF k \in Changed(fm.values, fm.baseline) THEN fm.values[k] ELSE fm.page[k]]]

(* ... and the tab receives it. *)
PageArrives(f) ==
  /\ form[f] # Closed /\ form[f].page # NoRecord
  /\ form' = [form EXCEPT ![f] = [FollowServer(@) EXCEPT !.page = NoRecord]]
  /\ UNCHANGED <<orgs, deleting, saves>>

(* Something else in the tab refreshes the page. *)
RefreshAsked(f) ==
  /\ form[f] # Closed /\ ~form[f].refresh /\ saves > 0
  /\ form' = [form EXCEPT ![f].refresh = TRUE]
  /\ saves' = saves - 1
  /\ UNCHANGED <<orgs, deleting>>
-----------------------------------------------------------------------------
OrganizationsNext ==
  \/ \E o \in Organizations :
       \/ DeleteChecked(o) \/ DeleteCommitted(o) \/ DeleteAbandoned(o)
       \/ \E name \in Names, setDefault \in BOOLEAN : CreateOrganization(o, name, setDefault)
       \/ \E changes \in SUBSET Fields, values \in Records : BlindPatch(o, changes, values)
  \/ \E f \in Forms :
       \/ Open(f) \/ CloseTab(f) \/ Edit(f) \/ Submit(f) \/ RefreshAsked(f)
       \/ PatchAccepted(f) \/ PatchRefused(f) \/ AnswerArrives(f) \/ AnswerLost(f)
       \/ Render(f) \/ PageArrives(f)

OrganizationsSpec == OrganizationsInit /\ [][OrganizationsNext]_orgVars
-----------------------------------------------------------------------------
(* Correctness *)

(* F-40.  At every moment exactly one organization is the default, so an     *)
(* unmapped sign-up has a place to go: whatever creations, moves, saves and  *)
(* deletes overlap, a delete that was checked before a move included.        *)
OneDefaultOrganization == Cardinality({o \in Existing : orgs[o].isDefault}) = 1

(* F-39.  An accepted save leaves the record as its author saw it in the     *)
(* form: fields left alone are never written back from a page that another   *)
(* save has overtaken, and no save is lost under a later one, in whatever    *)
(* order answers and refreshed pages reach the tab.                          *)
SavedAsShown == \A f \in Forms : form[f].phase = "saved" => form[f].reply = form[f].sent.shown
=============================================================================
