--------------------------- MODULE PlatformProofs ---------------------------
(***************************************************************************)
(* Proofs about Organizations, SsoHandoff, McpAgents, UserGrid and         *)
(* AdminLists, and about MCPlatform, which puts them and SignUp together.  *)
(***************************************************************************)
EXTENDS MCPlatform, SignUpProofs, FiniteSetTheorems

(***************************************************************************)
(* Organizations                                                           *)
(***************************************************************************)

(* What the forms rely on: a tab compares its values with the very record    *)
(* that it names in If-Match, and a save carries every field in which the    *)
(* values that its author saw differ from that record.                       *)
FormOK(fm) ==
  /\ fm.tag = fm.baseline
  /\ fm.phase \in {"sent", "saved"} => fm.sent \in Saves
  /\ fm.phase = "sent" => fm.sent.changes = Changed(fm.sent.shown, fm.sent.ifMatch)
  /\ fm.phase = "saved" => fm.reply = fm.sent.shown

(* A tab is closed, or shows a form in such a state. *)
Tab == {fm \in FormStates : FormOK(fm)} \cup {Closed}

OrganizationsInv ==
  /\ OrganizationsTypeOK
  /\ \A f \in Forms : form[f] \in Tab
  /\ OneDefaultOrganization

(* One organization, and no other, has the flag. *)
OnlyDefault(d) ==
  /\ d \in Organizations /\ IsResolvedDefault(d)
  /\ \A p \in Organizations : IsResolvedDefault(p) => p = d

LEMMA RecordsEqual ==
  ASSUME NEW r \in Records, NEW s \in Records, Changed(r, s) = {}
  PROVE  r = s
BY DEF Records, Changed, Fields

LEMMA SingleDefault ==
  OneDefaultOrganization <=> \E d : OnlyDefault(d)
<1> DEFINE D == {o \in Existing : orgs[o].isDefault}
<1>1. IsFiniteSet(D)
  <2>1. D \in SUBSET Organizations
    BY DEF Existing
  <2>2. QED
    BY <2>1, FS_Subset, OrganizationsAssumption
<1>2. OneDefaultOrganization <=> \E d : D = {d}
  <2> HIDE DEF D
  <2> QED
    BY <1>1, FS_Singleton DEF OneDefaultOrganization, D
<1>3. ASSUME NEW d PROVE D = {d} <=> OnlyDefault(d)
  BY DEF OnlyDefault, IsResolvedDefault, Existing
<1>4. QED
  BY <1>2, <1>3

LEMMA SingleDefaultNext ==
  ASSUME NEW d, OnlyDefault(d)'
  PROVE  OneDefaultOrganization'
<1>1. SingleDefault'
  BY SingleDefault, PTL
<1>2. QED
  BY <1>1

(* The writes of the table keep its records, and its single default. *)
Table == [Organizations -> Records \cup {NoRecord}]

LEMMA MoveDefaultFlagTyped ==
  ASSUME NEW t \in Table, NEW o \in Organizations
  PROVE  MoveDefaultFlag(t, o) \in Table
<1>1. ASSUME NEW r \in Records, NEW b \in BOOLEAN PROVE [r EXCEPT !.isDefault = b] \in Records
  BY DEF Records
<1>2. \A p \in Organizations : t[p] \in Records \cup {NoRecord} /\ (p = o) \in BOOLEAN
  BY DEF Table
<1>3. QED
  BY <1>1, <1>2 DEF Table, MoveDefaultFlag

LEMMA UpdatedTyped ==
  ASSUME OrganizationsTypeOK, NEW o \in Organizations, orgs[o] # NoRecord,
         NEW ch, NEW values \in Records
  PROVE  Updated(o, ch, values) \in Table
<1>1. orgs \in Table /\ orgs[o] \in Records
  BY DEF OrganizationsTypeOK, Table
<1>2. [orgs[o] EXCEPT !.name = values.name] \in Records
  BY <1>1 DEF Records
<1>3. [orgs EXCEPT ![o].name = values.name] \in Table
  BY <1>1, <1>2 DEF Table
<1>4. QED
  BY <1>1, <1>3, MoveDefaultFlagTyped DEF Updated

LEMMA DefaultMoved ==
  ASSUME NEW t \in Table, NEW o \in Organizations, t[o] # NoRecord,
         orgs' = MoveDefaultFlag(t, o)
  PROVE  OnlyDefault(o)'
<1>1. \A r \in Records, b \in BOOLEAN : [r EXCEPT !.isDefault = b].isDefault = b
                                        /\ [r EXCEPT !.isDefault = b] \in Records
  BY DEF Records
<1>2. ASSUME NEW p \in Organizations
      PROVE  IsResolvedDefault(p)' <=> t[p] # NoRecord /\ p = o
  <2>1. t[p] \in Records \cup {NoRecord} /\ (p = o) \in BOOLEAN
    BY DEF Table
  <2>2. CASE t[p] = NoRecord
    BY <2>2 DEF MoveDefaultFlag, IsResolvedDefault
  <2>3. CASE t[p] # NoRecord
    <3>1. orgs'[p] = [t[p] EXCEPT !.isDefault = (p = o)]
      BY <2>3 DEF MoveDefaultFlag
    <3>2. t[p] \in Records
      BY <2>1, <2>3
    <3>3. orgs'[p].isDefault = (p = o) /\ orgs'[p] # NoRecord
      BY <1>1, <2>1, <3>1, <3>2, NoRecordAssumption
    <3>4. QED
      BY <2>3, <3>3 DEF IsResolvedDefault
  <2>4. QED
    BY <2>2, <2>3
<1>3. QED
  BY <1>2 DEF OnlyDefault

LEMMA FlagsKept ==
  ASSUME OneDefaultOrganization,
         \A p \in Organizations : IsResolvedDefault(p)' <=> IsResolvedDefault(p)
  PROVE  OneDefaultOrganization'
<1>1. PICK d : OnlyDefault(d)
  BY SingleDefault
<1>2. OnlyDefault(d)'
  BY <1>1 DEF OnlyDefault
<1>3. QED
  BY <1>2, SingleDefaultNext

LEMMA UpdateKeepsDefault ==
  ASSUME OrganizationsTypeOK, OneDefaultOrganization, NEW o \in Organizations,
         orgs[o] # NoRecord, NEW ch, NEW values \in Records,
         orgs' = Updated(o, ch, values)
  PROVE  OneDefaultOrganization'
<1> DEFINE named == IF "name" \in ch THEN [orgs EXCEPT ![o].name = values.name] ELSE orgs
<1>1. orgs \in Table /\ orgs[o] \in Records
  BY DEF OrganizationsTypeOK, Table
<1>2. [orgs[o] EXCEPT !.name = values.name] \in Records
      /\ [orgs[o] EXCEPT !.name = values.name].isDefault = orgs[o].isDefault
  BY <1>1 DEF Records
<1>3. /\ named \in Table /\ named[o] # NoRecord
      /\ \A p \in Organizations : /\ named[p] = NoRecord <=> orgs[p] = NoRecord
                                  /\ named[p] # NoRecord => named[p].isDefault = orgs[p].isDefault
  BY <1>1, <1>2, NoRecordAssumption DEF Table
<1>4. CASE "isDefault" \in ch /\ values.isDefault
  <2>1. OnlyDefault(o)'
    <3> HIDE DEF named
    <3>1. orgs' = MoveDefaultFlag(named, o)
      BY <1>4 DEF Updated, named
    <3>2. QED
      BY <1>3, <3>1, DefaultMoved
  <2>2. QED
    BY <2>1, SingleDefaultNext
<1>5. CASE ~("isDefault" \in ch /\ values.isDefault)
  <2>1. orgs' = named
    BY <1>5 DEF Updated
  <2>2. QED
    BY <1>3, <2>1, FlagsKept DEF IsResolvedDefault
<1>6. QED
  BY <1>4, <1>5

(* The steps of the forms keep each tab in order. *)
LEMMA OpenedTab ==
  ASSUME OrganizationsTypeOK, NEW o \in Existing
  PROVE  Opened(o) \in Tab
<1>1. orgs[o] \in Records /\ o \in Organizations
  BY DEF Existing, OrganizationsTypeOK
<1>2. Opened(o) \in FormStates
  BY <1>1 DEF Opened, FormStates
<1>3. FormOK(Opened(o))
  BY DEF Opened, FormOK
<1>4. QED
  BY <1>2, <1>3 DEF Tab

LEMMA AlteredTab ==
  ASSUME NEW fm \in Tab, fm # Closed
  PROVE  /\ \A v \in Records : [fm EXCEPT !.values = v] \in Tab
         /\ \A b \in BOOLEAN : [fm EXCEPT !.refresh = b] \in Tab
         /\ \A page \in Records \cup {NoRecord} :
              /\ [fm EXCEPT !.page = page] \in Tab
              /\ [fm EXCEPT !.refresh = FALSE, !.page = page] \in Tab
<1>1. fm \in FormStates /\ FormOK(fm)
  BY DEF Tab
<1>2. ASSUME NEW v \in Records PROVE [fm EXCEPT !.values = v] \in Tab
  BY <1>1 DEF FormStates, FormOK, Tab
<1>3. ASSUME NEW b \in BOOLEAN PROVE [fm EXCEPT !.refresh = b] \in Tab
  BY <1>1 DEF FormStates, FormOK, Tab
<1>4. ASSUME NEW page \in Records \cup {NoRecord} PROVE [fm EXCEPT !.page = page] \in Tab
  BY <1>1 DEF FormStates, FormOK, Tab
<1>5. ASSUME NEW page \in Records \cup {NoRecord}
      PROVE  [fm EXCEPT !.refresh = FALSE, !.page = page] \in Tab
  BY <1>1 DEF FormStates, FormOK, Tab
<1>6. QED
  BY <1>2, <1>3, <1>4, <1>5

LEMMA SubmittedTab ==
  ASSUME NEW fm \in Tab, fm # Closed, fm.phase = "idle"
  PROVE  LET ch == Changed(fm.values, fm.baseline)
         IN /\ ch = {} => CommitSaved(fm, fm.values) \in Tab
            /\ ch # {} => [fm EXCEPT !.phase = "sent",
                             !.sent = [ifMatch |-> fm.tag, changes |-> ch,
                                       shown |-> fm.values]] \in Tab
<1> DEFINE ch == Changed(fm.values, fm.baseline)
           sent == [ifMatch |-> fm.tag, changes |-> ch, shown |-> fm.values]
           fs == [fm EXCEPT !.phase = "sent", !.sent = sent]
<1>1. fm \in FormStates /\ FormOK(fm) /\ fm.values \in Records /\ fm.baseline \in Records
      /\ fm.tag = fm.baseline
  BY DEF Tab, FormStates, FormOK
<1>2. ch = {} => CommitSaved(fm, fm.values) \in Tab
  <2> SUFFICES ASSUME ch = {} PROVE CommitSaved(fm, fm.values) \in Tab
    OBVIOUS
  <2>1. fm.values = fm.baseline
    BY <1>1, RecordsEqual
  <2>2. CommitSaved(fm, fm.values) \in FormStates /\ FormOK(CommitSaved(fm, fm.values))
    BY <1>1, <2>1 DEF CommitSaved, FormStates, FormOK
  <2>3. QED
    BY <2>2 DEF Tab
<1>3. fs \in Tab
  <2>1. sent \in Saves /\ sent.changes = Changed(sent.shown, sent.ifMatch)
    BY <1>1 DEF Saves, Changed, Fields
  <2> HIDE DEF sent
  <2>2. fs \in FormStates
    BY <1>1, <2>1 DEF FormStates
  <2>3. fs.tag = fm.tag /\ fs.baseline = fm.baseline /\ fs.phase = "sent" /\ fs.sent = sent
    BY <1>1 DEF FormStates
  <2>4. FormOK(fs)
    <3> HIDE DEF fs
    <3> QED
      BY <1>1, <2>1, <2>3 DEF FormOK
  <2>5. QED
    BY <2>2, <2>4 DEF Tab
<1>4. QED
  BY <1>2, <1>3

(* An accepted save: the record that it leaves is the one that was shown.   *)
LEMMA WrittenAsShown ==
  ASSUME OrganizationsTypeOK, NEW o \in Organizations, NEW save \in Saves,
         save.changes = Changed(save.shown, save.ifMatch),
         Matches(o, save.ifMatch), ~Refused(o, save.changes, save.shown)
  PROVE  Updated(o, save.changes, save.shown)[o] = save.shown
<1> DEFINE ch == save.changes
           shown == save.shown
           named == IF "name" \in ch THEN [orgs EXCEPT ![o].name = shown.name] ELSE orgs
<1>1. orgs \in Table /\ orgs[o] \in Records /\ shown \in Records /\ orgs[o] = save.ifMatch
  BY DEF OrganizationsTypeOK, Table, Saves, Matches
<1>2. /\ "name" \in ch <=> shown.name # orgs[o].name
      /\ "isDefault" \in ch <=> shown.isDefault # orgs[o].isDefault
  BY <1>1 DEF Changed, Fields, Records
<1>3. named[o] \in Records /\ named[o].name = shown.name
      /\ named[o].isDefault = orgs[o].isDefault
  <2>1. [orgs[o] EXCEPT !.name = shown.name] \in Records
        /\ [orgs[o] EXCEPT !.name = shown.name].name = shown.name
        /\ [orgs[o] EXCEPT !.name = shown.name].isDefault = orgs[o].isDefault
    BY <1>1 DEF Records
  <2>2. QED
    BY <1>1, <1>2, <2>1 DEF Table
<1>4. CASE "isDefault" \in ch /\ shown.isDefault
  <2> HIDE DEF named
  <2>1. Updated(o, ch, shown)[o] = [named[o] EXCEPT !.isDefault = TRUE]
    BY <1>3, <1>4, NoRecordAssumption DEF Updated, MoveDefaultFlag, named
  <2>2. [named[o] EXCEPT !.isDefault = TRUE] = shown
    BY <1>1, <1>3, <1>4 DEF Records
  <2>3. QED
    BY <2>1, <2>2
<1>5. CASE ~("isDefault" \in ch /\ shown.isDefault)
  <2>1. Updated(o, ch, shown)[o] = named[o]
    BY <1>5 DEF Updated
  <2>2. orgs[o].isDefault = shown.isDefault
    <3>1. orgs[o].isDefault \in BOOLEAN /\ shown.isDefault \in BOOLEAN
      BY <1>1 DEF Records
    <3>2. QED
      BY <1>1, <1>2, <1>5, <3>1, NoRecordAssumption DEF Refused, IsResolvedDefault
  <2>3. named[o] = shown
    <3> HIDE DEF named
    <3> QED
      BY <1>1, <1>3, <2>2 DEF Records
  <2>4. QED
    BY <2>1, <2>3
<1>6. QED
  BY <1>4, <1>5

LEMMA SavedTab ==
  ASSUME NEW fm \in Tab, fm # Closed, fm.phase = "sent"
  PROVE  [fm EXCEPT !.phase = "saved", !.reply = fm.sent.shown] \in Tab
<1> DEFINE fs == [fm EXCEPT !.phase = "saved", !.reply = fm.sent.shown]
<1>1. fm \in FormStates /\ FormOK(fm) /\ fm.sent \in Saves /\ fm.tag = fm.baseline
  BY DEF Tab, FormOK
<1>2. fs \in FormStates /\ fs.tag = fm.tag /\ fs.baseline = fm.baseline
      /\ fs.phase = "saved" /\ fs.sent = fm.sent /\ fs.reply = fm.sent.shown
  BY <1>1 DEF FormStates, Saves
<1> HIDE DEF fs
<1>3. QED
  BY <1>1, <1>2 DEF Tab, FormOK, fs

LEMMA RefusedTab ==
  ASSUME NEW fm \in Tab, fm # Closed, NEW phase \in {"stale", "failed"}
  PROVE  [fm EXCEPT !.phase = phase] \in Tab
BY DEF Tab, FormOK, FormStates

LEMMA AnsweredTab ==
  ASSUME NEW fm \in Tab, fm # Closed
  PROVE  Answered(fm) \in Tab
BY DEF Tab, FormOK, FormStates, Answered

LEMMA AdoptedTab ==
  ASSUME NEW fm \in Tab, fm # Closed, fm.phase = "saved"
  PROVE  Answered(CommitSaved([fm EXCEPT !.tag = fm.reply], fm.sent.shown)) \in Tab
<1> DEFINE fs == Answered(CommitSaved([fm EXCEPT !.tag = fm.reply], fm.sent.shown))
<1>1. fm \in FormStates /\ fm.reply = fm.sent.shown /\ fm.sent \in Saves
  BY DEF Tab, FormOK
<1>2. fm.sent.shown \in Records
  BY <1>1 DEF Saves
<1>3. fs \in FormStates /\ fs.tag = fm.reply /\ fs.baseline = fm.sent.shown /\ fs.phase = "idle"
  BY <1>1, <1>2 DEF FormStates, Answered, CommitSaved
<1>4. QED
  BY <1>1, <1>3 DEF Tab, FormOK

LEMMA FollowedTab ==
  ASSUME NEW fm \in Tab, fm # Closed, fm.page # NoRecord
  PROVE  FollowServer(fm) \in Tab /\ FollowServer(fm) # Closed
<1> DEFINE vs == [k \in Fields |->
                    IF k \in Changed(fm.values, fm.baseline) THEN fm.values[k] ELSE fm.page[k]]
           fs == [fm EXCEPT !.server = fm.page, !.tag = fm.page, !.baseline = fm.page,
                            !.values = vs]
<1>1. fm \in FormStates /\ FormOK(fm) /\ fm.page \in Records
  BY DEF Tab, FormStates
<1>2. vs \in Records
  BY <1>1 DEF FormStates, Records, Fields
<1>3. fs \in FormStates /\ fs.tag = fs.baseline /\ fs.phase = fm.phase /\ fs.sent = fm.sent
      /\ fs.reply = fm.reply
  <2> HIDE DEF vs
  <2> QED
    BY <1>1, <1>2 DEF FormStates
<1>4. fs \in Tab
  <2> HIDE DEF fs
  <2> QED
    BY <1>1, <1>3 DEF Tab, FormOK
<1>5. \A g \in FormStates : g # Closed
  BY DEF FormStates, Closed
<1>6. QED
  BY <1>3, <1>4, <1>5 DEF FollowServer

LEMMA TabReplaced ==
  ASSUME OrganizationsInv, NEW f \in Forms, NEW fm \in Tab,
         form' = [form EXCEPT ![f] = fm], orgs' = orgs, deleting' = deleting,
         saves' \in 0..MaxSaves
  PROVE  OrganizationsInv'
<1>1. Tab \subseteq FormStates \cup {Closed} /\ form \in [Forms -> FormStates \cup {Closed}]
  BY DEF Tab, OrganizationsInv, OrganizationsTypeOK
<1>2. OrganizationsTypeOK'
  BY <1>1 DEF OrganizationsInv, OrganizationsTypeOK
<1>3. \A g \in Forms : form'[g] \in Tab
  BY <1>1 DEF OrganizationsInv
<1>4. OneDefaultOrganization'
  BY FlagsKept DEF OrganizationsInv, IsResolvedDefault
<1>5. QED
  BY <1>2, <1>3, <1>4 DEF OrganizationsInv

LEMMA TableWritten ==
  ASSUME OrganizationsInv, orgs' \in Table, OneDefaultOrganization',
         form' = form, deleting' \subseteq Organizations, saves' \in 0..MaxSaves
  PROVE  OrganizationsInv'
BY DEF OrganizationsInv, OrganizationsTypeOK, Table

LEMMA OrganizationsInvKept ==
  ASSUME OrganizationsInv, [OrganizationsNext]_orgVars
  PROVE  OrganizationsInv'
<1> USE OrganizationsAssumption, NoRecordAssumption
<1>0. /\ OrganizationsTypeOK /\ OneDefaultOrganization
      /\ orgs \in Table /\ deleting \subseteq Organizations
      /\ saves \in 0..MaxSaves /\ (saves > 0 => saves - 1 \in 0..MaxSaves)
      /\ \A f \in Forms : form[f] \in Tab
      /\ Closed \in Tab /\ Closed.phase = "closed"
      /\ \A f \in Forms : form[f] # Closed => form[f].org \in Organizations
                                              /\ form[f].values \in Records
  BY DEF OrganizationsInv, OrganizationsTypeOK, Table, Tab, FormStates, Closed
<1>1. ASSUME NEW o \in Organizations, DeleteChecked(o) PROVE OrganizationsInv'
  BY <1>0, <1>1, FlagsKept, TableWritten DEF DeleteChecked, IsResolvedDefault
<1>2. ASSUME NEW o \in Organizations, DeleteCommitted(o) PROVE OrganizationsInv'
  <2>1. orgs' \in Table /\ deleting' \subseteq Organizations
    BY <1>0, <1>2 DEF DeleteCommitted, Table
  <2>2. \A p \in Organizations : IsResolvedDefault(p)' <=> IsResolvedDefault(p)
    BY <1>0, <1>2 DEF DeleteCommitted, IsResolvedDefault, Table
  <2>3. QED
    BY <1>0, <1>2, <2>1, <2>2, FlagsKept, TableWritten DEF DeleteCommitted
<1>3. ASSUME NEW o \in Organizations, DeleteAbandoned(o) PROVE OrganizationsInv'
  BY <1>0, <1>3, FlagsKept, TableWritten DEF DeleteAbandoned, IsResolvedDefault
<1>4. ASSUME NEW o \in Organizations, NEW name \in Names, NEW setDefault \in BOOLEAN,
             CreateOrganization(o, name, setDefault)
      PROVE  OrganizationsInv'
  <2> DEFINE inserted == [orgs EXCEPT ![o] = [name |-> name, isDefault |-> FALSE]]
  <2>1. inserted \in Table /\ inserted[o] # NoRecord /\ inserted[o].isDefault = FALSE
        /\ \A p \in Organizations \ {o} : inserted[p] = orgs[p]
    <3> DEFINE fresh == [name |-> name, isDefault |-> FALSE]
    <3>1. fresh \in Records /\ fresh.isDefault = FALSE
      BY DEF Records
    <3> HIDE DEF fresh
    <3>2. QED
      BY <1>0, <3>1 DEF Table, fresh
  <2>2. CASE setDefault
    <3>1. orgs' = MoveDefaultFlag(inserted, o)
      BY <1>4, <2>2 DEF CreateOrganization
    <3> HIDE DEF inserted
    <3>2. OneDefaultOrganization' /\ orgs' \in Table
      BY <2>1, <3>1, DefaultMoved, SingleDefaultNext, MoveDefaultFlagTyped
    <3>3. QED
      BY <1>0, <1>4, <3>2, TableWritten DEF CreateOrganization
  <2>3. CASE ~setDefault
    <3>1. orgs' = inserted
      BY <1>4, <2>3 DEF CreateOrganization
    <3> HIDE DEF inserted
    <3>2. \A p \in Organizations : IsResolvedDefault(p)' <=> IsResolvedDefault(p)
      BY <1>4, <2>1, <3>1 DEF CreateOrganization, IsResolvedDefault
    <3>3. QED
      BY <1>0, <1>4, <2>1, <3>1, <3>2, FlagsKept, TableWritten DEF CreateOrganization
  <2>4. QED
    BY <2>2, <2>3
<1>5. ASSUME NEW o \in Organizations, NEW ch \in SUBSET Fields, NEW values \in Records,
             BlindPatch(o, ch, values)
      PROVE  OrganizationsInv'
  BY <1>0, <1>5, UpdatedTyped, UpdateKeepsDefault, TableWritten DEF BlindPatch
<1>6. ASSUME NEW f \in Forms, Open(f) PROVE OrganizationsInv'
  BY <1>0, <1>6, OpenedTab, TabReplaced DEF Open
<1>7. ASSUME NEW f \in Forms, CloseTab(f) PROVE OrganizationsInv'
  BY <1>0, <1>7, TabReplaced DEF CloseTab
<1>8. ASSUME NEW f \in Forms, Edit(f) PROVE OrganizationsInv'
  <2>1. PICK v \in Records : form' = [form EXCEPT ![f] = [form[f] EXCEPT !.values = v]]
    BY <1>8 DEF Edit
  <2>2. [form[f] EXCEPT !.values = v] \in Tab
    BY <1>0, <1>8, AlteredTab DEF Edit
  <2>3. QED
    BY <1>0, <1>8, <2>1, <2>2, TabReplaced DEF Edit
<1>9. ASSUME NEW f \in Forms, Submit(f) PROVE OrganizationsInv'
  BY <1>0, <1>9, SubmittedTab, TabReplaced DEF Submit
<1>10. ASSUME NEW f \in Forms, RefreshAsked(f) PROVE OrganizationsInv'
  <2>1. [form[f] EXCEPT !.refresh = TRUE] \in Tab
    BY <1>0, <1>10, AlteredTab DEF RefreshAsked
  <2>2. QED
    BY <1>0, <1>10, <2>1, TabReplaced DEF RefreshAsked
<1>11. ASSUME NEW f \in Forms, PatchAccepted(f) PROVE OrganizationsInv'
  <2> DEFINE o == form[f].org
             save == form[f].sent
             fs == [form[f] EXCEPT !.phase = "saved", !.reply = save.shown]
  <2>1. /\ form[f] \in Tab /\ form[f] # Closed /\ form[f].phase = "sent"
        /\ o \in Organizations /\ save \in Saves /\ save.shown \in Records
        /\ save.changes = Changed(save.shown, save.ifMatch)
    BY <1>0, <1>11 DEF PatchAccepted, Tab, FormOK, Saves
  <2>2. /\ Matches(o, save.ifMatch) /\ ~Refused(o, save.changes, save.shown)
        /\ orgs' = Updated(o, save.changes, save.shown)
        /\ orgs'[o] = save.shown /\ orgs[o] # NoRecord
    BY <1>0, <1>11, <2>1, WrittenAsShown DEF PatchAccepted, Matches
  <2>3. orgs' \in Table /\ OneDefaultOrganization'
    BY <1>0, <2>1, <2>2, UpdatedTyped, UpdateKeepsDefault
  <2>4. fs \in Tab
    BY <2>1, SavedTab
  <2>5. form' = [form EXCEPT ![f] = fs]
    BY <1>11, <2>2 DEF PatchAccepted
  <2> HIDE DEF fs
  <2>6. form' \in [Forms -> FormStates \cup {Closed}] /\ \A g \in Forms : form'[g] \in Tab
    BY <1>0, <2>4, <2>5 DEF Tab, OrganizationsTypeOK
  <2>7. QED
    BY <1>0, <1>11, <2>3, <2>6
    DEF PatchAccepted, OrganizationsInv, OrganizationsTypeOK, Table
<1>12. ASSUME NEW f \in Forms, PatchRefused(f) PROVE OrganizationsInv'
  <2> DEFINE phase == IF Matches(form[f].org, form[f].sent.ifMatch) THEN "failed" ELSE "stale"
  <2>1. [form[f] EXCEPT !.phase = phase] \in Tab
    BY <1>0, <1>12, RefusedTab DEF PatchRefused
  <2>2. form' = [form EXCEPT ![f] = [form[f] EXCEPT !.phase = phase]]
    BY <1>12 DEF PatchRefused
  <2>3. QED
    BY <1>0, <1>12, <2>1, <2>2, TabReplaced DEF PatchRefused
<1>13. ASSUME NEW f \in Forms, AnswerArrives(f) PROVE OrganizationsInv'
  <2>1. form[f] \in Tab /\ form[f] # Closed /\ form[f].phase \in {"saved", "stale", "failed"}
    BY <1>0, <1>13 DEF AnswerArrives
  <2>2. [form[f] EXCEPT !.refresh = TRUE] \in Tab /\ [form[f] EXCEPT !.refresh = TRUE] # Closed
    BY <2>1, AlteredTab DEF Closed, Tab, FormStates
  <2>3. CASE form[f].phase = "saved"
    BY <1>0, <1>13, <2>1, <2>3, AdoptedTab, TabReplaced DEF AnswerArrives
  <2>4. CASE form[f].phase = "stale"
    BY <1>0, <1>13, <2>2, <2>4, AnsweredTab, TabReplaced DEF AnswerArrives
  <2>5. CASE form[f].phase = "failed"
    BY <1>0, <1>13, <2>1, <2>5, AnsweredTab, TabReplaced DEF AnswerArrives
  <2>6. QED
    BY <2>1, <2>3, <2>4, <2>5
<1>14. ASSUME NEW f \in Forms, AnswerLost(f) PROVE OrganizationsInv'
  BY <1>0, <1>14, AnsweredTab, TabReplaced DEF AnswerLost
<1>15. ASSUME NEW f \in Forms, Render(f) PROVE OrganizationsInv'
  <2> DEFINE rendered == orgs[form[f].org]
  <2>1. CASE rendered = NoRecord
    BY <1>0, <1>15, <2>1, TabReplaced DEF Render
  <2>2. CASE rendered # NoRecord
    <3>1. form[f] # Closed /\ rendered \in Records
      BY <1>0, <1>15, <2>2 DEF Render, Table
    <3>2. [form[f] EXCEPT !.refresh = FALSE, !.page = rendered] \in Tab
      BY <1>0, <3>1, AlteredTab
    <3>3. form' = [form EXCEPT ![f] = [form[f] EXCEPT !.refresh = FALSE, !.page = rendered]]
      BY <1>15, <2>2 DEF Render
    <3>4. QED
      BY <1>0, <1>15, <3>2, <3>3, TabReplaced DEF Render
  <2>3. QED
    BY <2>1, <2>2
<1>16. ASSUME NEW f \in Forms, PageArrives(f) PROVE OrganizationsInv'
  <2>1. FollowServer(form[f]) \in Tab /\ FollowServer(form[f]) # Closed
    BY <1>0, <1>16, FollowedTab DEF PageArrives
  <2>2. [FollowServer(form[f]) EXCEPT !.page = NoRecord] \in Tab
    BY <1>0, <2>1, AlteredTab
  <2>3. QED
    BY <1>0, <1>16, <2>2, TabReplaced DEF PageArrives
<1>17. CASE UNCHANGED orgVars
  BY <1>0, <1>17, FlagsKept, TableWritten DEF orgVars, IsResolvedDefault
<1>18. QED
  BY <1>1, <1>2, <1>3, <1>4, <1>5, <1>6, <1>7, <1>8, <1>9, <1>10, <1>11, <1>12, <1>13,
     <1>14, <1>15, <1>16, <1>17 DEF OrganizationsNext

LEMMA OrganizationsInvHolds == OrganizationsSpec => []OrganizationsInv
<1>1. OrganizationsInit => OrganizationsInv
  BY OrganizationsAssumption
  DEF OrganizationsInit, OrganizationsInv, OrganizationsTypeOK, OneDefaultOrganization, Tab
<1>2. QED
  BY <1>1, OrganizationsInvKept, PTL DEF OrganizationsSpec

(* The table and the forms keep the shapes that the routes and the tabs      *)
(* assume: a stored record is whole, and a tab shows one of these states.    *)
THEOREM OrganizationsTyped == OrganizationsSpec => []OrganizationsTypeOK
<1>1. OrganizationsInv => OrganizationsTypeOK
  BY DEF OrganizationsInv
<1>2. QED
  BY <1>1, OrganizationsInvHolds, PTL

(* F-40, for any number of organizations, requests and tabs: creations, moves *)
(* of the flag, saves and deletes, overlapping as they may, leave exactly one *)
(* default organization at every moment.                                      *)
THEOREM DefaultIsUnique == OrganizationsSpec => []OneDefaultOrganization
<1>1. OrganizationsInv => OneDefaultOrganization
  BY DEF OrganizationsInv
<1>2. QED
  BY <1>1, OrganizationsInvHolds, PTL

(* F-39, for any number of tabs and of fields' values: an accepted save      *)
(* leaves the record as its author saw it, because a tab never names in      *)
(* If-Match another record than the one it compares its values with.         *)
THEOREM SavesAreAsShown == OrganizationsSpec => []SavedAsShown
<1>1. OrganizationsInv => SavedAsShown
  BY DEF OrganizationsInv, SavedAsShown, Tab, FormOK, Closed
<1>2. QED
  BY <1>1, OrganizationsInvHolds, PTL

(***************************************************************************)
(* SsoHandoff                                                              *)
(***************************************************************************)

(* A ticket is known to its nonce row, to the consumes that carry it and to  *)
(* the session it opened in step.                                            *)
TicketsOK ==
  /\ \A k \in Tickets : nonce[k] # "none" => target[k] \in Apps
  /\ \A k \in session : nonce[k] \notin {"none", "launching"}
  /\ \A c \in Consumers :
       consume[c].at # "rest" => /\ consume[c].ticket \in Tickets
                                 /\ nonce[consume[c].ticket] \notin {"none", "launching"}

(* Whoever burned a nonce is recorded, and the row is burned or gone. *)
ClaimsOK ==
  \A k \in Tickets : /\ claims[k] # {} => nonce[k] \in {"burned", "gone"}
                     /\ nonce[k] = "burned" => claims[k] # {}

(* A sweep under way that counts, and an application swept, are of an        *)
(* application that is off since.                                            *)
SweepsOK ==
  /\ \A s \in Sweepers : sweep[s] # NoSweep => sweep[s].step \in {1, 2} /\ sweep[s].app \in Apps
  /\ \A s \in Sweepers : sweep[s].off => sweep[s].app \in Apps /\ app[sweep[s].app] # "available"
  /\ \A a \in swept : app[a] # "available"

(* What can still become a session of an application whose nonces have been  *)
(* expired, and of one that was swept, was in flight then.                   *)
Launchable(k) == nonce[k] \in {"launching", "live"}

Opening(k) == \E c \in Consumers : consume[c].at = "burned" /\ consume[c].ticket = k

Passed ==
  /\ \A s \in Sweepers, k \in Tickets :
       sweep[s].off /\ sweep[s].step = 2 /\ target[k] = sweep[s].app /\ Launchable(k) => k \in outran
  /\ \A a \in swept, k \in Tickets :
       target[k] = a /\ (Launchable(k) \/ Opening(k) \/ k \in session) => k \in outran

SsoInv == SsoTypeOK /\ TicketsOK /\ ClaimsOK /\ SweepsOK /\ Passed

LEMMA SweepOrderIs == SweepOrder[1] = "nonces" /\ SweepOrder[2] = "sessions"
BY DEF SweepOrder

SweepStates == [step : 0..2, app : Apps \cup {NoApp}, off : BOOLEAN]

LEMMA SweepSteps ==
  ASSUME NEW w \in SweepStates
  PROVE  /\ [w EXCEPT !.step = 2] = [step |-> 2, app |-> w.app, off |-> w.off]
         /\ [w EXCEPT !.step = 2] \in SweepStates
         /\ \A b \in BOOLEAN : /\ [w EXCEPT !.off = b] = [step |-> w.step, app |-> w.app, off |-> b]
                              /\ [w EXCEPT !.off = b] \in SweepStates
BY DEF SweepStates

LEMMA SweepMoves ==
  ASSUME SsoInv, NEW s \in Sweepers, sweep[s] # NoSweep, SweepGoesOn(s)
  PROVE  sweep' \in [Sweepers -> SweepStates] /\ swept' \subseteq Apps
<1>1. sweep \in [Sweepers -> SweepStates] /\ swept \subseteq Apps /\ sweep[s].app \in Apps
  BY DEF SsoInv, SsoTypeOK, SweepStates, SweepsOK
<1>2. NoSweep \in SweepStates
  BY DEF NoSweep, SweepStates
<1>3. QED
  <2>1. CASE sweep[s].step = 1
    <3>1. sweep' = [sweep EXCEPT ![s] = [sweep[s] EXCEPT !.step = 2]] /\ swept' = swept
      BY <2>1 DEF SweepGoesOn
    <3>2. [sweep[s] EXCEPT !.step = 2] \in SweepStates
      BY <1>1, SweepSteps
    <3>3. QED
      BY <1>1, <3>1, <3>2
  <2>2. CASE sweep[s].step # 1
    BY <1>1, <1>2, <2>2 DEF SweepGoesOn
  <2>3. QED
    BY <2>1, <2>2

LEMMA SsoTypedKept ==
  ASSUME SsoInv, [SsoNext]_ssoVars
  PROVE  SsoTypeOK' /\ TicketsOK' /\ ClaimsOK'
<1> USE SsoAssumption
<1> USE DEF SsoInv, SsoTypeOK, TicketsOK, ClaimsOK, AtRest, NoSweep
<1>1. ASSUME NEW k \in Tickets, NEW a \in Apps, LaunchChecks(k, a)
      PROVE  SsoTypeOK' /\ TicketsOK' /\ ClaimsOK'
  BY <1>1 DEF LaunchChecks
<1>2. ASSUME NEW k \in Tickets, LaunchIssues(k) PROVE SsoTypeOK' /\ TicketsOK' /\ ClaimsOK'
  BY <1>2 DEF LaunchIssues
<1>3. ASSUME NEW k \in Tickets, LaunchFails(k) PROVE SsoTypeOK' /\ TicketsOK' /\ ClaimsOK'
  BY <1>3 DEF LaunchFails
<1>4. ASSUME NEW k \in Tickets, TimePasses(k) PROVE SsoTypeOK' /\ TicketsOK' /\ ClaimsOK'
  BY <1>4 DEF TimePasses
<1>5. ASSUME NEW k \in Tickets, SessionEnds(k) PROVE SsoTypeOK' /\ TicketsOK' /\ ClaimsOK'
  BY <1>5 DEF SessionEnds
<1>6. ASSUME NEW c \in Consumers, NEW k \in Tickets, Verify(c, k)
      PROVE  SsoTypeOK' /\ TicketsOK' /\ ClaimsOK'
  BY <1>6 DEF Verify
<1>7. ASSUME NEW c \in Consumers, Burn(c) PROVE SsoTypeOK' /\ TicketsOK' /\ ClaimsOK'
  <2> DEFINE k == consume[c].ticket
  <2>1. k \in Tickets /\ nonce[k] = "live"
    BY <1>7 DEF Burn, Unspent
  <2>2. [consume[c] EXCEPT !.at = "burned"] = [at |-> "burned", ticket |-> k]
    OBVIOUS
  <2>3. consume' = [consume EXCEPT ![c] = [at |-> "burned", ticket |-> k]]
    BY <1>7, <2>2 DEF Burn
  <2>4. claims' = [claims EXCEPT ![k] = claims[k] \cup {c}]
    BY <1>7 DEF Burn
  <2>5. QED
    BY <1>7, <2>1, <2>3, <2>4 DEF Burn
<1>8. ASSUME NEW c \in Consumers, HandoffRefused(c) PROVE SsoTypeOK' /\ TicketsOK' /\ ClaimsOK'
  BY <1>8 DEF HandoffRefused
<1>9. ASSUME NEW c \in Consumers, CreateSsoSession(c) PROVE SsoTypeOK' /\ TicketsOK' /\ ClaimsOK'
  BY <1>9 DEF CreateSsoSession
<1>10. ASSUME NEW s \in Sweepers, NEW a \in Apps, DeleteApplication(s, a)
       PROVE  SsoTypeOK' /\ TicketsOK' /\ ClaimsOK'
  BY <1>10 DEF DeleteApplication
<1>11. ASSUME NEW s \in Sweepers, NEW a \in Apps, NEW status \in {"available", "disabled"},
              SetStatus(s, a, status)
       PROVE  SsoTypeOK' /\ TicketsOK' /\ ClaimsOK'
  <2>1. sweep' \in [Sweepers -> SweepStates] /\ swept' \subseteq Apps
    <3>1. sweep \in [Sweepers -> SweepStates] /\ [step |-> 1, app |-> a, off |-> TRUE] \in SweepStates
      BY DEF SweepStates
    <3>2. \A t \in Sweepers : [sweep[t] EXCEPT !.off = @ /\ sweep[t].app # a] \in SweepStates
      BY <3>1 DEF SweepStates
    <3>3. CASE status = "disabled"
      BY <1>11, <3>1, <3>3 DEF SetStatus
    <3>4. CASE status # "disabled"
      BY <1>11, <3>2, <3>4 DEF SetStatus
    <3>5. QED
      BY <3>3, <3>4
  <2>2. QED
    BY <1>11, <2>1 DEF SetStatus, SweepStates
<1>12. ASSUME NEW s \in Sweepers, ExpireNonces(s) PROVE SsoTypeOK' /\ TicketsOK' /\ ClaimsOK'
  <2>1. sweep' \in [Sweepers -> SweepStates] /\ swept' \subseteq Apps
    BY <1>12, SweepMoves DEF ExpireNonces
  <2>2. QED
    BY <1>12, <2>1 DEF ExpireNonces, SweepStates
<1>13. ASSUME NEW s \in Sweepers, DeleteSessions(s) PROVE SsoTypeOK' /\ TicketsOK' /\ ClaimsOK'
  <2>1. sweep' \in [Sweepers -> SweepStates] /\ swept' \subseteq Apps
    BY <1>13, SweepMoves DEF DeleteSessions
  <2>2. QED
    BY <1>13, <2>1 DEF DeleteSessions, SweepStates
<1>14. ASSUME NEW s \in Sweepers, SweepFails(s) PROVE SsoTypeOK' /\ TicketsOK' /\ ClaimsOK'
  BY <1>14 DEF SweepFails
<1>15. CASE UNCHANGED ssoVars
  BY <1>15 DEF ssoVars
<1>16. QED
  BY <1>1, <1>2, <1>3, <1>4, <1>5, <1>6, <1>7, <1>8, <1>9, <1>10, <1>11, <1>12, <1>13,
     <1>14, <1>15 DEF SsoNext

(* What one statement of a sweep does to the sweeps: the first goes on to    *)
(* the second, the second ends the sweep and counts it when it may.          *)
LEMMA SweepGoes ==
  ASSUME SsoInv, NEW s \in Sweepers, sweep[s] # NoSweep, SweepGoesOn(s)
  PROVE  /\ sweep[s].step \in {1, 2} /\ sweep[s].app \in Apps
         /\ \A t \in Sweepers \ {s} : sweep'[t] = sweep[t]
         /\ sweep[s].step = 1 =>
              /\ sweep'[s] = [step |-> 2, app |-> sweep[s].app, off |-> sweep[s].off]
              /\ swept' = swept
         /\ sweep[s].step = 2 =>
              /\ sweep'[s] = NoSweep
              /\ swept' = IF sweep[s].off THEN swept \cup {sweep[s].app} ELSE swept
<1>1. sweep \in [Sweepers -> SweepStates] /\ sweep[s].app \in Apps /\ sweep[s].step \in {1, 2}
  BY DEF SsoInv, SsoTypeOK, SweepStates, SweepsOK
<1>2. CASE sweep[s].step = 1
  <2>1. sweep' = [sweep EXCEPT ![s] = [sweep[s] EXCEPT !.step = 2]] /\ swept' = swept
    BY <1>2 DEF SweepGoesOn
  <2>2. [sweep[s] EXCEPT !.step = 2] = [step |-> 2, app |-> sweep[s].app, off |-> sweep[s].off]
    BY <1>1, SweepSteps
  <2>3. QED
    BY <1>1, <1>2, <2>1, <2>2
<1>3. CASE sweep[s].step = 2
  BY <1>1, <1>3 DEF SweepGoesOn
<1>4. QED
  BY <1>1, <1>2, <1>3

(* What a save that makes an application available does to the sweeps. *)
LEMMA SweepsSetBack ==
  ASSUME SsoInv, NEW a \in Apps,
         sweep' = [t \in Sweepers |-> [sweep[t] EXCEPT !.off = @ /\ sweep[t].app # a]]
  PROVE  \A t \in Sweepers :
           sweep'[t] = [step |-> sweep[t].step, app |-> sweep[t].app,
                        off |-> sweep[t].off /\ sweep[t].app # a]
BY DEF SsoInv, SsoTypeOK

LEMMA SweepsKept ==
  ASSUME SsoInv, [SsoNext]_ssoVars
  PROVE  SweepsOK'
<1> USE DEF SweepsOK
<1>0. SsoTypeOK /\ SweepsOK
  BY DEF SsoInv
<1>1. ASSUME NEW s \in Sweepers, NEW a \in Apps, DeleteApplication(s, a) PROVE SweepsOK'
  BY <1>0, <1>1 DEF DeleteApplication, SsoTypeOK, NoSweep
<1>2. ASSUME NEW s \in Sweepers, NEW a \in Apps, NEW status \in {"available", "disabled"},
             SetStatus(s, a, status)
      PROVE  SweepsOK'
  <2>1. CASE status = "disabled"
    BY <1>0, <1>2, <2>1 DEF SetStatus, SsoTypeOK, NoSweep
  <2>2. CASE status = "available"
    <3>1. sweep' = [t \in Sweepers |-> [sweep[t] EXCEPT !.off = @ /\ sweep[t].app # a]]
          /\ swept' = swept \ {a} /\ app' = [app EXCEPT ![a] = "available"]
      BY <1>2, <2>2 DEF SetStatus
    <3>2. ASSUME NEW t \in Sweepers
          PROVE  /\ sweep'[t].step = sweep[t].step /\ sweep'[t].app = sweep[t].app
                 /\ sweep'[t].off <=> sweep[t].off /\ sweep[t].app # a
                 /\ sweep[t] = NoSweep => sweep'[t] = NoSweep
      <4> DEFINE off == sweep[t].off /\ sweep[t].app # a
      <4>1. sweep'[t] = [step |-> sweep[t].step, app |-> sweep[t].app, off |-> off]
        BY <3>1, SweepsSetBack
      <4>2. sweep[t] = NoSweep => off = FALSE
        BY DEF NoSweep
      <4>3. off <=> sweep[t].off /\ sweep[t].app # a
        OBVIOUS
      <4> HIDE DEF off
      <4>4. sweep[t] = NoSweep => sweep'[t] = NoSweep
        <5>1. sweep[t] = NoSweep => sweep[t].step = 0 /\ sweep[t].app = NoApp
          BY DEF NoSweep
        <5>2. QED
          BY <4>1, <4>2, <5>1, Zenon DEF NoSweep
      <4>5. sweep'[t].step = sweep[t].step /\ sweep'[t].app = sweep[t].app /\ sweep'[t].off = off
        BY <4>1
      <4>6. QED
        BY <4>3, <4>4, <4>5
    <3>3. \A b \in Apps : app'[b] # "available" <=> (app[b] # "available" /\ b # a)
      BY <1>0, <3>1 DEF SsoTypeOK
    <3>4. swept' = swept \ {a} /\ swept \subseteq Apps
      BY <1>0, <3>1 DEF SsoTypeOK
    <3>5. QED
      BY <1>0, <3>2, <3>3, <3>4
  <2>3. QED
    BY <2>1, <2>2
<1>3. ASSUME NEW s \in Sweepers, sweep[s] # NoSweep, SweepGoesOn(s), app' = app PROVE SweepsOK'
  <2>1. /\ \A t \in Sweepers \ {s} : sweep'[t] = sweep[t]
        /\ sweep[s].step \in {1, 2} /\ sweep[s].app \in Apps
    BY <1>3, SweepGoes
  <2>2. ASSUME NEW t \in Sweepers
        PROVE  /\ sweep'[t] # NoSweep => sweep'[t].step \in {1, 2} /\ sweep'[t].app \in Apps
               /\ sweep'[t].off => sweep'[t].app \in Apps /\ app'[sweep'[t].app] # "available"
    <3>1. CASE t # s
      BY <1>0, <1>3, <2>1, <3>1
    <3>2. CASE t = s /\ sweep[s].step = 1
      <4>1. sweep'[t] = [step |-> 2, app |-> sweep[t].app, off |-> sweep[t].off]
        BY <1>3, <3>2, SweepGoes
      <4>2. sweep'[t].step = 2 /\ sweep'[t].app = sweep[t].app /\ (sweep'[t].off <=> sweep[t].off)
        BY <4>1
      <4>3. QED
        BY <1>0, <1>3, <2>1, <3>2, <4>2
    <3>3. CASE t = s /\ sweep[s].step = 2
      <4>1. sweep'[t] = NoSweep
        BY <1>3, <3>3, SweepGoes
      <4>2. QED
        BY <4>1 DEF NoSweep
    <3>4. QED
      BY <2>1, <3>1, <3>2, <3>3
  <2>3. \A a \in swept' : a \in swept \/ (sweep[s].off /\ a = sweep[s].app)
    BY <1>3, <2>1, SweepGoes
  <2>4. QED
    BY <1>0, <1>3, <2>2, <2>3
<1>4. ASSUME NEW s \in Sweepers, SweepFails(s) PROVE SweepsOK'
  BY <1>0, <1>4 DEF SweepFails, SsoTypeOK, NoSweep
<1>5. CASE UNCHANGED <<app, sweep, swept>>
  BY <1>0, <1>5
<1>6. QED
  BY <1>1, <1>2, <1>3, <1>4, <1>5
  DEF SsoNext, ssoVars, LaunchChecks, LaunchIssues, LaunchFails, TimePasses, SessionEnds,
      Verify, Burn, HandoffRefused, CreateSsoSession, ExpireNonces, DeleteSessions

LEMMA PassedKept ==
  ASSUME SsoInv, [SsoNext]_ssoVars
  PROVE  Passed'
<1> USE DEF Passed, Launchable, Opening
<1>0. SsoTypeOK /\ TicketsOK /\ SweepsOK /\ Passed
  BY DEF SsoInv
<1>1. ASSUME NEW k \in Tickets, NEW a \in Apps, LaunchChecks(k, a) PROVE Passed'
  BY <1>0, <1>1 DEF LaunchChecks, SsoTypeOK, SweepsOK
<1>2. ASSUME NEW k \in Tickets, LaunchIssues(k) PROVE Passed'
  BY <1>0, <1>2 DEF LaunchIssues, SsoTypeOK
<1>3. ASSUME NEW k \in Tickets, LaunchFails(k) PROVE Passed'
  BY <1>0, <1>3, SsoAssumption DEF LaunchFails, SsoTypeOK, SweepsOK
<1>4. ASSUME NEW k \in Tickets, TimePasses(k) PROVE Passed'
  BY <1>0, <1>4 DEF TimePasses, SsoTypeOK
<1>5. ASSUME NEW k \in Tickets, SessionEnds(k) PROVE Passed'
  BY <1>0, <1>5 DEF SessionEnds
<1>6. ASSUME NEW c \in Consumers, NEW k \in Tickets, Verify(c, k) PROVE Passed'
  BY <1>0, <1>6 DEF Verify, SsoTypeOK
<1>7. ASSUME NEW c \in Consumers, Burn(c) PROVE Passed'
  <2>1. /\ \A k \in Tickets : nonce'[k] = "burned" \/ nonce'[k] = nonce[k]
        /\ consume[c].ticket \in Tickets /\ nonce[consume[c].ticket] = "live"
    BY <1>0, <1>7 DEF Burn, Unspent, SsoTypeOK, TicketsOK
  <2>2. \A k \in Tickets : Opening(k)' => Opening(k) \/ Launchable(k)
    BY <1>0, <1>7, <2>1 DEF Burn, SsoTypeOK
  <2>3. UNCHANGED <<sweep, swept, target, session, outran>>
    BY <1>7 DEF Burn
  <2>4. \A k \in Tickets : Launchable(k)' => Launchable(k)
    BY <2>1
  <2> HIDE DEF Launchable, Opening
  <2>5. QED
    BY <1>0, <2>2, <2>3, <2>4
<1>8. ASSUME NEW c \in Consumers, HandoffRefused(c) PROVE Passed'
  BY <1>0, <1>8 DEF HandoffRefused, SsoTypeOK, AtRest
<1>9. ASSUME NEW c \in Consumers, CreateSsoSession(c) PROVE Passed'
  BY <1>0, <1>9 DEF CreateSsoSession, SsoTypeOK, AtRest
<1>10. ASSUME NEW s \in Sweepers, NEW a \in Apps, DeleteApplication(s, a) PROVE Passed'
  BY <1>0, <1>10 DEF DeleteApplication, SsoTypeOK
<1>11. ASSUME NEW s \in Sweepers, NEW a \in Apps, NEW status \in {"available", "disabled"},
              SetStatus(s, a, status)
       PROVE  Passed'
  <2>1. CASE status = "disabled"
    BY <1>0, <1>11, <2>1 DEF SetStatus, SsoTypeOK
  <2>2. CASE status = "available"
    <3>1. sweep' = [t \in Sweepers |-> [sweep[t] EXCEPT !.off = @ /\ sweep[t].app # a]]
          /\ swept' = swept \ {a} /\ UNCHANGED <<nonce, target, consume, session, outran>>
      BY <1>11, <2>2 DEF SetStatus
    <3>2. ASSUME NEW t \in Sweepers
          PROVE  sweep'[t].step = sweep[t].step /\ sweep'[t].app = sweep[t].app
                 /\ (sweep'[t].off => sweep[t].off)
      <4> DEFINE off == sweep[t].off /\ sweep[t].app # a
      <4>1. sweep'[t] = [step |-> sweep[t].step, app |-> sweep[t].app, off |-> off]
        BY <3>1, SweepsSetBack
      <4>2. off => sweep[t].off
        OBVIOUS
      <4> HIDE DEF off
      <4>3. QED
        BY <4>1, <4>2
    <3>3. QED
      BY <1>0, <3>1, <3>2
  <2>3. QED
    BY <2>1, <2>2
<1>12. ASSUME NEW s \in Sweepers, ExpireNonces(s) PROVE Passed'
  <2> DEFINE a == sweep[s].app
  <2>1. sweep[s] # NoSweep /\ SweepGoesOn(s) /\ SweepOrder[sweep[s].step] = "nonces"
    BY <1>12 DEF ExpireNonces
  <2>2. sweep[s].step = 1 /\ swept' = swept
        /\ (\A t \in Sweepers \ {s} : sweep'[t] = sweep[t])
        /\ sweep'[s] = [step |-> 2, app |-> sweep[s].app, off |-> sweep[s].off]
    BY <2>1, SweepGoes, SweepOrderIs
  <2>3. \A k \in Tickets : /\ Launchable(k)' => Launchable(k)
                           /\ Launchable(k)' /\ target[k] = a => k \in outran'
    BY <1>0, <1>12 DEF ExpireNonces, SsoTypeOK
  <2>4. UNCHANGED <<target, consume, session>> /\ outran \subseteq outran'
    BY <1>12 DEF ExpireNonces
  <2>5. sweep'[s].app = sweep[s].app /\ sweep'[s].step = 2
    BY <2>2
  <2>6. \A k \in Tickets : Opening(k)' <=> Opening(k)
    BY <2>4
  <2> HIDE DEF Launchable, Opening
  <2>7. QED
    BY <1>0, <2>2, <2>3, <2>4, <2>5, <2>6
<1>13. ASSUME NEW s \in Sweepers, DeleteSessions(s) PROVE Passed'
  <2> DEFINE a == sweep[s].app
  <2>1. sweep[s] # NoSweep /\ SweepGoesOn(s) /\ SweepOrder[sweep[s].step] = "sessions"
    BY <1>13 DEF DeleteSessions
  <2>2. sweep[s].step = 2 /\ sweep'[s] = NoSweep
        /\ swept' = (IF sweep[s].off THEN swept \cup {a} ELSE swept)
        /\ (\A t \in Sweepers \ {s} : sweep'[t] = sweep[t])
    BY <2>1, SweepGoes, SweepOrderIs
  <2>3. UNCHANGED <<target, consume, nonce>> /\ outran \subseteq outran'
        /\ session' = session \ {k \in Tickets : target[k] = a}
    BY <1>13 DEF DeleteSessions
  <2>4. \A k \in Tickets : Opening(k) /\ target[k] = a => k \in outran'
    <3> SUFFICES ASSUME NEW k \in Tickets, NEW c \in Consumers, target[k] = a,
                        consume[c].at = "burned", consume[c].ticket = k
                 PROVE  k \in outran'
      OBVIOUS
    <3>1. consume[c] = [at |-> "burned", ticket |-> k]
      BY <1>0 DEF SsoTypeOK
    <3>2. QED
      BY <1>13, <3>1 DEF DeleteSessions
  <2>5. \A k \in Tickets : (Opening(k)' <=> Opening(k)) /\ (Launchable(k)' <=> Launchable(k))
    BY <2>3
  <2>6. sweep'[s].step = 0
    BY <2>2 DEF NoSweep
  <2> HIDE DEF Launchable, Opening
  <2>7. QED
    BY <1>0, <2>2, <2>3, <2>4, <2>5, <2>6
<1>14. ASSUME NEW s \in Sweepers, SweepFails(s) PROVE Passed'
  BY <1>0, <1>14 DEF SweepFails, SsoTypeOK, NoSweep
<1>15. CASE UNCHANGED ssoVars
  BY <1>0, <1>15 DEF ssoVars
<1>16. QED
  BY <1>1, <1>2, <1>3, <1>4, <1>5, <1>6, <1>7, <1>8, <1>9, <1>10, <1>11, <1>12, <1>13,
     <1>14, <1>15 DEF SsoNext

LEMMA SsoInvHolds == SsoSpec => []SsoInv
<1>1. SsoInit => SsoInv
  BY SsoAssumption
  DEF SsoInit, SsoInv, SsoTypeOK, TicketsOK, ClaimsOK, SweepsOK, Passed, Launchable, Opening,
      AtRest, NoSweep
<1>2. SsoInv /\ [SsoNext]_ssoVars => SsoInv'
  BY SsoTypedKept, SweepsKept, PassedKept DEF SsoInv
<1>3. QED
  BY <1>1, <1>2, PTL DEF SsoSpec

(* Applications, nonces, consumes, sessions and sweeps keep the shapes that  *)
(* the launch, consume and enterprise-apps routes assume of them.            *)
THEOREM SsoTyped == SsoSpec => []SsoTypeOK
<1>1. SsoInv => SsoTypeOK
  BY DEF SsoInv
<1>2. QED
  BY <1>1, SsoInvHolds, PTL

(* F-82, for any number of applications, launches, consumes and sweeps: once *)
(* an application was swept while it is off, only what was in flight when    *)
(* the sweep passed it can have, or get, a session of it.                    *)
THEOREM SweepSignsOut == SsoSpec => []SweptAppSignedOut
<1>1. SsoInv => SweptAppSignedOut
  BY DEF SsoInv, Passed, Launchable, SweptAppSignedOut
<1>2. QED
  BY <1>1, SsoInvHolds, PTL

(* The grant that a ticket is, in the sense of OneShot. *)
TicketGrant(k) ==
  CASE claims[k] # {} -> "taken"
    [] claims[k] = {} /\ nonce[k] \in {"none", "launching"} -> "none"
    [] claims[k] = {} /\ nonce[k] = "live" -> "offered"
    [] OTHER -> "withdrawn"

(* What a step does to one ticket, in the terms of OneShot. *)
TicketStep(k) ==
  \/ TicketGrant(k)' = TicketGrant(k) /\ claims'[k] = claims[k]
  \/ TicketGrant(k) = "none" /\ TicketGrant(k)' = "offered" /\ claims'[k] = claims[k]
  \/ TicketGrant(k) = "offered" /\ TicketGrant(k)' = "withdrawn" /\ claims'[k] = claims[k]
  \/ \E c \in Consumers : /\ TicketGrant(k) = "offered" /\ TicketGrant(k)' = "taken"
                          /\ claims'[k] = {c}

(* What a step may do to the row of a ticket. *)
NonceStep(k) ==
  \/ claims'[k] = claims[k] /\ nonce'[k] = nonce[k]
  \/ claims'[k] = claims[k] /\ nonce[k] \in {"none", "launching"}
                            /\ nonce'[k] \in {"none", "launching", "live"}
  \/ claims'[k] = claims[k] /\ nonce[k] \in {"live", "burned", "expired"}
                            /\ nonce'[k] \in {"expired", "gone"}
                            /\ (nonce'[k] = "expired" => nonce[k] = "live")
  \/ \E c \in Consumers : /\ nonce[k] = "live" /\ nonce'[k] = "burned"
                          /\ claims'[k] = claims[k] \cup {c}

LEMMA RowsStep ==
  ASSUME SsoInv, [SsoNext]_ssoVars, NEW k \in Tickets
  PROVE  NonceStep(k)
<1> USE DEF NonceStep
<1>0. nonce \in [Tickets -> {"none", "launching", "live", "burned", "expired", "gone"}]
      /\ claims \in [Tickets -> SUBSET Consumers]
  BY DEF SsoInv, SsoTypeOK
<1>1. ASSUME NEW j \in Tickets, NEW a \in Apps, LaunchChecks(j, a) PROVE NonceStep(k)
  BY <1>0, <1>1 DEF LaunchChecks
<1>2. ASSUME NEW j \in Tickets, LaunchIssues(j) PROVE NonceStep(k)
  BY <1>0, <1>2 DEF LaunchIssues
<1>3. ASSUME NEW j \in Tickets, LaunchFails(j) PROVE NonceStep(k)
  BY <1>0, <1>3 DEF LaunchFails
<1>4. ASSUME NEW j \in Tickets, TimePasses(j) PROVE NonceStep(k)
  BY <1>0, <1>4 DEF TimePasses
<1>5. ASSUME NEW c \in Consumers, Burn(c) PROVE NonceStep(k)
  <2>1. CASE k = consume[c].ticket
    BY <1>0, <1>5, <2>1 DEF Burn, Unspent
  <2>2. CASE k # consume[c].ticket
    BY <1>0, <1>5, <2>2 DEF Burn
  <2>3. QED
    BY <2>1, <2>2
<1>6. ASSUME NEW s \in Sweepers, NEW a \in Apps, DeleteApplication(s, a) PROVE NonceStep(k)
  BY <1>0, <1>6 DEF DeleteApplication
<1>7. ASSUME NEW s \in Sweepers, ExpireNonces(s) PROVE NonceStep(k)
  BY <1>0, <1>7 DEF ExpireNonces
<1>8. CASE UNCHANGED <<nonce, claims>>
  BY <1>8
<1>9. QED
  BY <1>1, <1>2, <1>3, <1>4, <1>5, <1>6, <1>7, <1>8
  DEF SsoNext, ssoVars, SessionEnds, Verify, HandoffRefused, CreateSsoSession, SetStatus,
      DeleteSessions, SweepFails

LEMMA TicketSteps ==
  ASSUME SsoInv, SsoInv', NEW k \in Tickets, NonceStep(k)
  PROVE  TicketStep(k)
<1>1. /\ claims[k] # {} => nonce[k] \in {"burned", "gone"}
      /\ nonce[k] = "burned" => claims[k] # {}
      /\ nonce[k] \in {"none", "launching", "live", "burned", "expired", "gone"}
  BY DEF SsoInv, SsoTypeOK, ClaimsOK
<1>2. CASE claims[k] # {} /\ claims'[k] = claims[k]
  BY <1>2 DEF TicketStep, TicketGrant
<1>3. CASE claims[k] = {} /\ claims'[k] = claims[k]
  BY <1>1, <1>3 DEF TicketStep, NonceStep, TicketGrant
<1>4. CASE claims'[k] # claims[k]
  <2>1. PICK c \in Consumers : nonce[k] = "live" /\ claims'[k] = claims[k] \cup {c}
    BY <1>4 DEF NonceStep
  <2>2. claims[k] = {} /\ claims'[k] = {c}
    BY <1>1, <2>1
  <2>3. TicketGrant(k) = "offered"
    BY <2>1, <2>2 DEF TicketGrant
  <2>4. TicketGrant(k)' = "taken"
    BY <2>2 DEF TicketGrant
  <2>5. QED
    BY <2>2, <2>3, <2>4 DEF TicketStep
<1>5. QED
  BY <1>2, <1>3, <1>4

(* Handoff tokens implement OneShot, for any number of tickets and of        *)
(* consumes: a token is honoured once at most, and a ticket that was used,   *)
(* expired, swept or deleted is never honoured again.                        *)
THEOREM TokensAreOneShot == SsoSpec => HandoffsAreOneShot
<1>1. SsoInit => Handoff!Init
  BY DEF SsoInit, Handoff!Init
<1>2. SsoInv /\ SsoInv' /\ [SsoNext]_ssoVars => [Handoff!Next]_(Handoff!vars)
  <2> SUFFICES ASSUME SsoInv, SsoInv', [SsoNext]_ssoVars PROVE Handoff!Next
    OBVIOUS
  <2>1. \A k \in Tickets : TicketStep(k)
    BY RowsStep, TicketSteps
  <2>2. QED
    BY <2>1
    DEF TicketStep, TicketGrant, Handoff!Next, Handoff!Keep, Handoff!Offer, Handoff!Withdraw,
        Handoff!Take
<1>3. QED
  BY <1>1, <1>2, SsoInvHolds, PTL DEF SsoSpec, HandoffsAreOneShot, Handoff!Spec

(***************************************************************************)
(* McpAgents                                                               *)
(***************************************************************************)

(* The three rows of an agent: a registration that has not inserted has      *)
(* none, an approval reaches the membership under an active account only,    *)
(* and in open mode nothing is ever pending.                                 *)
RowsOK ==
  /\ \A a \in Agents : serviceAccount[a] = "none" => membership[a] = "none" /\ client[a] = "none"
  /\ \A a \in registering : serviceAccount[a] = "none"
  /\ \A d \in Approvers : approving[d].at # "rest" => approving[d].agent \in Agents
  /\ \A d \in Approvers :
       approving[d].at = "membership" => serviceAccount[approving[d].agent] = "active"
  /\ \A a \in Agents : membership[a] = "active" => serviceAccount[a] = "active" \/ a \in reinstated

OpenOK ==
  mode = "open" =>
    \A a \in Agents : serviceAccount[a] # "pending_approval" /\ membership[a] # "pending_approval"

(* The registration that holds the organization's lock has room for its own  *)
(* agent, and is alone.                                                      *)
Charged == Counted \ reinstated

RoomOK ==
  mode = "open" /\ Quota > 0 =>
    /\ Cardinality(Charged) <= Quota
    /\ registering # {} => Cardinality(Charged) < Quota
    /\ \A a, b \in registering : a = b

McpInv == McpTypeOK /\ RowsOK /\ OpenOK /\ RoomOK

LEMMA McpRowsKept ==
  ASSUME McpTypeOK, RowsOK, OpenOK, [McpNext]_mcpVars
  PROVE  McpTypeOK' /\ RowsOK' /\ OpenOK'
<1> USE McpAssumption
<1> USE DEF McpTypeOK, RowsOK, OpenOK, NoApproval
<1> DEFINE Kept == McpTypeOK' /\ RowsOK' /\ OpenOK'
<1>1. ASSUME NEW a \in Agents, RegisterCounts(a) PROVE Kept
  BY <1>1 DEF RegisterCounts
<1>2. ASSUME NEW a \in Agents, RegisterInserts(a) PROVE Kept
  BY <1>2 DEF RegisterInserts, InitialStatus
<1>3. ASSUME NEW a \in Agents, RegisterFails(a) PROVE Kept
  BY <1>3 DEF RegisterFails
<1>4. ASSUME NEW a \in Agents, UpdateScopes(a) PROVE Kept
  BY <1>4 DEF UpdateScopes
<1>5. ASSUME NEW a \in Agents, Revoke(a) PROVE Kept
  BY <1>5 DEF Revoke
<1>6. ASSUME NEW a \in Agents, GrowOld(a) PROVE Kept
  BY <1>6 DEF GrowOld
<1>7. ASSUME NEW a \in Agents, NEW status \in {"active", "suspended"},
             SetAgentMembership(a, status)
      PROVE  Kept
  BY <1>7 DEF SetAgentMembership
<1>8. ASSUME NEW d \in Approvers, NEW a \in Agents, ApproveChecks(d, a) PROVE Kept
  BY <1>8 DEF ApproveChecks
<1>9. ASSUME NEW d \in Approvers, ActivateMcpAgent(d) PROVE Kept
  <2> DEFINE a == approving[d].agent
  <2>1. [approving[d] EXCEPT !.at = "membership"] = [at |-> "membership", agent |-> a]
    OBVIOUS
  <2>2. CASE /\ approving[d].at = "account" /\ serviceAccount[a] = "pending_approval"
             /\ serviceAccount' = [serviceAccount EXCEPT ![a] = "active"]
             /\ approving' = [approving EXCEPT ![d] = [approving[d] EXCEPT !.at = "membership"]]
             /\ UNCHANGED <<mode, registering, membership, client, scoped, old, reinstated>>
    <3>1. approving' = [approving EXCEPT ![d] = [at |-> "membership", agent |-> a]]
          /\ a \in Agents
      BY <2>1, <2>2
    <3>2. QED
      BY <2>2, <3>1
  <2>3. CASE /\ approving[d].at = "membership"
             /\ membership' = [membership EXCEPT ![a] = IF @ = "pending_approval" THEN "active" ELSE @]
             /\ approving' = [approving EXCEPT ![d] = NoApproval]
             /\ UNCHANGED <<mode, registering, serviceAccount, client, scoped, old, reinstated>>
    BY <2>3
  <2>4. QED
    BY <1>9, <2>2, <2>3 DEF ActivateMcpAgent
<1>10. ASSUME NEW d \in Approvers, ApproveEnds(d) PROVE Kept
  BY <1>10 DEF ApproveEnds
<1>11. ASSUME NEW batch \in SUBSET Agents, ExpireBatch(batch) PROVE Kept
  BY <1>11 DEF ExpireBatch, Reapable
<1>12. CASE UNCHANGED mcpVars
  BY <1>12 DEF mcpVars
<1>13. QED
  BY <1>1, <1>2, <1>3, <1>4, <1>5, <1>6, <1>7, <1>8, <1>9, <1>10, <1>11, <1>12 DEF McpNext

LEMMA ChargedFinite ==
  ASSUME McpTypeOK
  PROVE  /\ IsFiniteSet(Charged) /\ IsFiniteSet(Counted)
         /\ Cardinality(Charged) \in Nat /\ Cardinality(Counted) \in Nat
         /\ Cardinality(Charged) <= Cardinality(Counted)
<1>1. Counted \in SUBSET Agents /\ Charged \in SUBSET Counted
  BY DEF Counted, Charged
<1>2. IsFiniteSet(Counted)
  BY <1>1, FS_Subset, McpAssumption
<1>3. IsFiniteSet(Charged) /\ Cardinality(Charged) <= Cardinality(Counted)
  BY <1>1, <1>2, FS_Subset
<1>4. QED
  BY <1>2, <1>3, FS_CardinalityType

(* A step that charges no further agent and lets no further one register. *)
LEMMA RoomUntouched ==
  ASSUME McpInv, Charged' \subseteq Charged, registering' \subseteq registering, mode' = mode
  PROVE  RoomOK'
<1>1. /\ IsFiniteSet(Charged) /\ Cardinality(Charged) \in Nat
  BY ChargedFinite DEF McpInv
<1>2. IsFiniteSet(Charged') /\ Cardinality(Charged') <= Cardinality(Charged)
      /\ Cardinality(Charged') \in Nat
  BY <1>1, FS_Subset, FS_CardinalityType
<1>3. Cardinality(Charged)' = Cardinality(Charged')
  OBVIOUS
<1>4. QED
  BY <1>1, <1>2, <1>3, McpAssumption DEF McpInv, RoomOK

LEMMA RoomKept ==
  ASSUME McpInv, [McpNext]_mcpVars
  PROVE  RoomOK'
<1> USE DEF Charged, Counted
<1>0. McpTypeOK /\ RowsOK /\ OpenOK /\ RoomOK
  BY DEF McpInv
<1>1. ASSUME NEW a \in Agents, RegisterCounts(a) PROVE RoomOK'
  <2>1. Charged' = Charged /\ mode' = mode
    BY <1>1 DEF RegisterCounts
  <2>2. Quota > 0 => registering' = {a} /\ Cardinality(Counted) < Quota
    BY <1>1 DEF RegisterCounts, MayRegister
  <2>3. Cardinality(Charged) \in Nat /\ Cardinality(Counted) \in Nat
        /\ Cardinality(Charged) <= Cardinality(Counted)
    BY <1>0, ChargedFinite
  <2> HIDE DEF Charged, Counted
  <2>4. QED
    BY <2>1, <2>2, <2>3, McpAssumption DEF RoomOK
<1>2. ASSUME NEW a \in Agents, RegisterInserts(a) PROVE RoomOK'
  <2>1. Charged' \subseteq Charged \cup {a} /\ mode' = mode
    BY <1>0, <1>2 DEF RegisterInserts, McpTypeOK
  <2>2. a \in registering /\ registering' = registering \ {a}
    BY <1>2 DEF RegisterInserts
  <2> HIDE DEF Charged, Counted
  <2>3. IsFiniteSet(Charged) /\ Cardinality(Charged) \in Nat
    BY <1>0, ChargedFinite
  <2>4. IsFiniteSet(Charged \cup {a}) /\ Cardinality(Charged \cup {a}) \in Nat
        /\ Cardinality(Charged \cup {a}) <= Cardinality(Charged) + 1
    <3>1. /\ IsFiniteSet(Charged \cup {a})
          /\ Cardinality(Charged \cup {a}) =
               IF a \in Charged THEN Cardinality(Charged) ELSE Cardinality(Charged) + 1
      BY <2>3, FS_AddElement
    <3>2. QED
      BY <2>3, <3>1
  <2>5. Cardinality(Charged') <= Cardinality(Charged \cup {a}) /\ Cardinality(Charged') \in Nat
    BY <2>1, <2>4, FS_Subset, FS_CardinalityType
  <2>6. ASSUME mode = "open", Quota > 0
        PROVE  Cardinality(Charged') <= Quota /\ registering' = {}
    <3>1. Cardinality(Charged) < Quota /\ registering = {a}
      BY <1>0, <2>2, <2>6 DEF RoomOK
    <3>2. QED
      BY <2>2, <2>3, <2>4, <2>5, <3>1, McpAssumption
  <2>7. Cardinality(Charged)' = Cardinality(Charged')
    OBVIOUS
  <2>8. QED
    BY <2>1, <2>6, <2>7 DEF RoomOK
<1>3. ASSUME NEW a \in Agents, RegisterFails(a) PROVE RoomOK'
  BY <1>3, RoomUntouched DEF RegisterFails
<1>4. ASSUME NEW a \in Agents, UpdateScopes(a) PROVE RoomOK'
  BY <1>4, RoomUntouched DEF UpdateScopes
<1>5. ASSUME NEW a \in Agents, Revoke(a) PROVE RoomOK'
  <2>1. Charged' \subseteq Charged
    BY <1>0, <1>5 DEF Revoke, McpTypeOK
  <2>2. QED
    BY <1>5, <2>1, RoomUntouched DEF Revoke
<1>6. ASSUME NEW a \in Agents, GrowOld(a) PROVE RoomOK'
  BY <1>6, RoomUntouched DEF GrowOld
<1>7. ASSUME NEW a \in Agents, NEW status \in {"active", "suspended"},
             SetAgentMembership(a, status)
      PROVE  RoomOK'
  <2>1. Charged' \subseteq Charged
    BY <1>0, <1>7 DEF SetAgentMembership, McpTypeOK
  <2>2. QED
    BY <1>7, <2>1, RoomUntouched DEF SetAgentMembership
<1>8. ASSUME NEW d \in Approvers, NEW a \in Agents, ApproveChecks(d, a) PROVE RoomOK'
  BY <1>8, RoomUntouched DEF ApproveChecks
<1>9. ASSUME NEW d \in Approvers, ActivateMcpAgent(d) PROVE RoomOK'
  <2>1. CASE mode = "open"
    <3>1. Charged' \subseteq Charged /\ mode' = mode /\ registering' = registering
      BY <1>0, <1>9, <2>1 DEF ActivateMcpAgent, McpTypeOK, OpenOK
    <3>2. QED
      BY <3>1, RoomUntouched
  <2>2. CASE mode # "open"
    BY <1>9, <2>2 DEF ActivateMcpAgent, RoomOK
  <2>3. QED
    BY <2>1, <2>2
<1>10. ASSUME NEW d \in Approvers, ApproveEnds(d) PROVE RoomOK'
  BY <1>10, RoomUntouched DEF ApproveEnds
<1>11. ASSUME NEW batch \in SUBSET Agents, ExpireBatch(batch) PROVE RoomOK'
  <2>1. Charged' \subseteq Charged
    BY <1>0, <1>11 DEF ExpireBatch, McpTypeOK
  <2>2. QED
    BY <1>11, <2>1, RoomUntouched DEF ExpireBatch
<1>12. CASE UNCHANGED mcpVars
  BY <1>12, RoomUntouched DEF mcpVars
<1>13. QED
  BY <1>1, <1>2, <1>3, <1>4, <1>5, <1>6, <1>7, <1>8, <1>9, <1>10, <1>11, <1>12 DEF McpNext

LEMMA McpInvHolds == McpSpec => []McpInv
<1>1. McpInit => McpInv
  <2> SUFFICES ASSUME McpInit PROVE McpInv
    OBVIOUS
  <2>1. McpTypeOK /\ RowsOK /\ OpenOK
    BY McpAssumption DEF McpInit, McpTypeOK, RowsOK, OpenOK, NoApproval
  <2>2. Charged = {}
    BY DEF McpInit, Charged, Counted
  <2>3. RoomOK
    BY <2>2, FS_EmptySet, McpAssumption DEF McpInit, RoomOK
  <2>4. QED
    BY <2>1, <2>3 DEF McpInv
<1>2. McpInv /\ [McpNext]_mcpVars => McpInv'
  BY McpRowsKept, RoomKept DEF McpInv
<1>3. QED
  BY <1>1, <1>2, PTL DEF McpSpec

(* The accounts, memberships and clients of agents keep the statuses that    *)
(* registration, the console and the reaper know.                            *)
THEOREM McpTyped == McpSpec => []McpTypeOK
<1>1. McpInv => McpTypeOK
  BY DEF McpInv
<1>2. QED
  BY <1>1, McpInvHolds, PTL

(* Review #51, for any quota and any number of registrations at once: in     *)
(* open mode the endpoint never brings an organization over its quota.       *)
THEOREM QuotaIsHard == McpSpec => []QuotaHeld
<1>1. McpInv => QuotaHeld
  BY DEF McpInv, RoomOK, Charged, QuotaHeld
<1>2. QED
  BY <1>1, McpInvHolds, PTL

(* Review #51, for any number of approvals and agents: an agent that counts  *)
(* stands on an active account, unless an administrator set its membership.  *)
THEOREM AgentsStandWhole == McpSpec => []AgentStandsWhole
<1>1. McpInv => AgentStandsWhole
  BY DEF McpInv, RowsOK, Counted, AgentStandsWhole
<1>2. QED
  BY <1>1, McpInvHolds, PTL


(***************************************************************************)
(* UserGrid                                                                *)
(***************************************************************************)

(* The records of the grid, field by field. *)
GridUrls == [q : {"", "text"}, status : Statuses \cup {"all"}, page : 1..Cardinality(GridUsers)]
AnyScope == Scopes \cup {Unanswered}
Selections == [mode : {"page", "all"}, ids : SUBSET GridUsers, total : Nat,
               scope : AnyScope]
Bodies == [all : BOOLEAN, ids : SUBSET GridUsers, scope : AnyScope]
Handlers == [at : {"idle", "dialog", "sent", "server", "notify"}, action : BulkActions \cup {"none"},
             sel : Selections, body : Bodies, todo : SUBSET GridUsers, acted : SUBSET GridUsers,
             allowed : SUBSET GridUsers, ok : BOOLEAN]

GridStates ==
  /\ accountStatus \in [GridUsers -> Statuses]
  /\ url \in GridUrls
  /\ timer \in [set : BOOLEAN, q : {"", "text"}, closure : GridUrls]
  /\ result \in [items : SUBSET GridUsers, total : Nat, error : BOOLEAN]
  /\ sel \in Selections /\ sel.scope = selectionScope(url)
  /\ handler \in Handlers /\ chosen \in Bodies

(* A selection, or the request made from it, means what was chosen. *)
MeansChosen(all, ids, scope) ==
  /\ all = chosen.all
  /\ all => scope = chosen.scope
  /\ ~all => ids = chosen.ids

HandlerOK ==
  /\ handler.at \in {"idle", "dialog", "sent"} => handler.acted = {} /\ handler.todo = {}
  /\ handler.at = "dialog" => MeansChosen(handler.sel.mode = "all", handler.sel.ids, handler.sel.scope)
  /\ handler.at = "sent" => MeansChosen(handler.body.all, handler.body.ids, handler.body.scope)
  /\ handler.at \in {"server", "notify"} =>
       /\ handler.acted \cup handler.todo \subseteq handler.allowed
       /\ Cardinality(handler.acted \cup handler.todo) <= MAX_BULK_IDS
       /\ Self \in handler.acted => handler.action = "approve"

GridInv == GridStates /\ HandlerOK

LEMMA GridCounts ==
  /\ Cardinality(GridUsers) \in Nat /\ 1 \in 1..Cardinality(GridUsers)
  /\ \A T \in SUBSET GridUsers : Cardinality(T) \in Nat
<1>1. IsFiniteSet(GridUsers) /\ GridUsers # {}
  BY GridAssumption
<1>2. Cardinality(GridUsers) \in Nat /\ Cardinality(GridUsers) # 0
  BY <1>1, FS_CardinalityType, FS_EmptySet
<1>3. ASSUME NEW T \in SUBSET GridUsers PROVE Cardinality(T) \in Nat
  BY <1>1, FS_Subset, FS_CardinalityType
<1>4. QED
  BY <1>2, <1>3

(* The records that the code starts from. *)
LEMMA GridBlanks ==
  /\ StartUrl \in GridUrls /\ NoTimer \in [set : BOOLEAN, q : {"", "text"}, closure : GridUrls]
  /\ NoRows \in [items : SUBSET GridUsers, total : Nat, error : BOOLEAN]
  /\ \A s \in AnyScope : NoSelection(s) \in Selections /\ NoSelection(s).scope = s
  /\ \A u \in GridUrls : selectionScope(u) \in Scopes
  /\ Nobody \in Handlers /\ Nobody.at = "idle" /\ Nobody.acted = {} /\ Nobody.todo = {}
<1>1. StartUrl \in GridUrls
  BY GridCounts DEF StartUrl, GridUrls, Statuses
<1>2. NoTimer \in [set : BOOLEAN, q : {"", "text"}, closure : GridUrls]
  BY <1>1 DEF NoTimer
<1>3. Unanswered \in AnyScope
  BY DEF AnyScope
<1>4. NoRows \in [items : SUBSET GridUsers, total : Nat, error : BOOLEAN]
  BY <1>3 DEF NoRows
<1>5. ASSUME NEW s \in AnyScope PROVE NoSelection(s) \in Selections /\ NoSelection(s).scope = s
  BY <1>3 DEF NoSelection, Selections
<1>6. ASSUME NEW u \in GridUrls PROVE selectionScope(u) \in Scopes
  BY DEF GridUrls, selectionScope, Scopes
<1>7. [all |-> FALSE, ids |-> {}, scope |-> Unanswered] \in Bodies
  BY <1>3 DEF Bodies
<1>8. Nobody \in Handlers /\ Nobody.at = "idle" /\ Nobody.acted = {} /\ Nobody.todo = {}
  BY <1>3, <1>5, <1>7 DEF Nobody, Handlers
<1>9. QED
  BY <1>1, <1>2, <1>4, <1>5, <1>6, <1>8

(* router.replace: whatever the selection was, it is now of the URL's scope. *)
LEMMA Replaced ==
  ASSUME GridStates, NEW next \in GridUrls, Replace(next)
  PROVE  url' \in GridUrls /\ sel' \in Selections /\ sel'.scope = selectionScope(url')
<1>1. selectionScope(next) \in AnyScope
  BY GridBlanks DEF AnyScope
<1>2. sel \in Selections
  BY DEF GridStates
<1>3. CASE selectionScope(next) = sel.scope
  BY <1>2, <1>3 DEF Replace
<1>4. CASE selectionScope(next) # sel.scope
  BY <1>1, <1>4, GridBlanks DEF Replace
<1>5. QED
  BY <1>3, <1>4

(* What a tick, or "all matching", makes of the selection. *)
LEMMA TickedTyped ==
  ASSUME GridStates, NEW ids \in SUBSET GridUsers, Ticked(ids)
  PROVE  sel' \in Selections /\ sel'.scope = sel.scope
BY DEF GridStates, Ticked, Selections, AnyScope

LEMMA AllTyped ==
  ASSUME GridStates, selectAllMatching
  PROVE  sel' \in Selections /\ sel'.scope = sel.scope
BY DEF GridStates, selectAllMatching, Selections

LEMMA BodyTyped ==
  ASSUME NEW s \in Selections
  PROVE  /\ Body(s) \in Bodies
         /\ Body(s).all = (s.mode = "all") /\ Body(s).scope = s.scope
         /\ s.mode # "all" => Body(s).ids = s.ids
BY DEF Body, Bodies, Selections

LEMMA FetchTyped ==
  ASSUME GridStates, useGridFetch
  PROVE  result' \in [items : SUBSET GridUsers, total : Nat, error : BOOLEAN]
<1>1. CASE result' = [result EXCEPT !.error = TRUE]
  BY <1>1 DEF GridStates
<1>2. CASE result' = [items |-> PageOf(url), total |-> Cardinality(Matching(selectionScope(url))),
                      error |-> FALSE]
  <2>1. Matching(selectionScope(url)) \in SUBSET GridUsers
    BY DEF Matching
  <2>2. PageOf(url) \in SUBSET GridUsers
    BY <2>1 DEF PageOf
  <2>3. Cardinality(Matching(selectionScope(url))) \in Nat
    BY <2>1, GridCounts
  <2>4. selectionScope(url) \in AnyScope
    BY GridBlanks DEF GridStates, AnyScope
  <2>5. QED
    BY <1>2, <2>2, <2>3, <2>4
<1>3. QED
  BY <1>1, <1>2 DEF useGridFetch


(* The steps of the bulk action, each from a handler that is in order. *)
LEMMA ClickOK ==
  ASSUME GridInv, NEW action \in BulkActions, bulkActions(action)
  PROVE  handler' \in Handlers /\ chosen' \in Bodies /\ HandlerOK'
<1>1. sel \in Selections /\ sel.scope = selectionScope(url) /\ (sel.mode = "all") \in BOOLEAN
  BY DEF GridInv, GridStates
<1>2. chosen' = [all |-> sel.mode = "all", ids |-> sel.ids, scope |-> selectionScope(url)]
  BY DEF bulkActions
<1>3. chosen' \in Bodies /\ chosen'.all = (sel.mode = "all") /\ chosen'.ids = sel.ids
      /\ chosen'.scope = sel.scope
  BY <1>1, <1>2 DEF Bodies, Selections
<1>4. CASE sel.mode = "all" \/ action = "ban"
  <2>1. handler' = [Nobody EXCEPT !.at = "dialog", !.action = action, !.sel = sel]
    BY <1>4 DEF bulkActions
  <2>2. handler' \in Handlers /\ handler'.at = "dialog" /\ handler'.sel = sel
        /\ handler'.acted = {} /\ handler'.todo = {}
    BY <1>1, <2>1, GridBlanks DEF Handlers
  <2>3. QED
    BY <1>3, <2>2 DEF HandlerOK, MeansChosen
<1>5. CASE ~(sel.mode = "all" \/ action = "ban")
  <2>1. handler' = [Nobody EXCEPT !.at = "sent", !.action = action, !.sel = sel, !.body = Body(sel)]
    BY <1>5 DEF bulkActions
  <2>2. handler' \in Handlers /\ handler'.at = "sent" /\ handler'.body = Body(sel)
        /\ handler'.acted = {} /\ handler'.todo = {}
    BY <1>1, <2>1, GridBlanks, BodyTyped DEF Handlers
  <2>3. /\ handler'.body.all = chosen'.all
        /\ handler'.body.all => handler'.body.scope = chosen'.scope
        /\ ~handler'.body.all => handler'.body.ids = chosen'.ids
    BY <1>1, <1>3, <2>2, BodyTyped
  <2>4. QED
    BY <1>3, <2>2, <2>3 DEF HandlerOK, MeansChosen
<1>6. QED
  BY <1>4, <1>5

LEMMA IdleOK ==
  ASSUME handler' = Nobody
  PROVE  handler' \in Handlers /\ HandlerOK'
BY GridBlanks DEF HandlerOK

LEMMA AnswerDialogOK ==
  ASSUME GridInv, runBulkAction
  PROVE  handler' \in Handlers /\ HandlerOK'
<1>1. handler \in Handlers /\ handler.sel \in Selections /\ HandlerOK
      /\ handler.at = "dialog" /\ chosen' = chosen
  BY DEF GridInv, GridStates, Handlers, runBulkAction
<1>2. CASE handler' = Nobody
  BY <1>2, IdleOK
<1>3. CASE handler' = [handler EXCEPT !.at = "sent", !.body = Body(handler.sel)]
  <2>1. handler' \in Handlers /\ handler'.at = "sent" /\ handler'.body = Body(handler.sel)
        /\ handler'.acted = handler.acted /\ handler'.todo = handler.todo
    BY <1>1, <1>3, BodyTyped DEF Handlers
  <2>2. MeansChosen(handler.sel.mode = "all", handler.sel.ids, handler.sel.scope)
        /\ handler.acted = {} /\ handler.todo = {}
    BY <1>1 DEF HandlerOK
  <2>3. /\ handler'.body.all = chosen'.all
        /\ handler'.body.all => handler'.body.scope = chosen'.scope
        /\ ~handler'.body.all => handler'.body.ids = chosen'.ids
    BY <1>1, <2>1, <2>2, BodyTyped DEF MeansChosen
  <2>4. QED
    BY <2>1, <2>2, <2>3 DEF HandlerOK, MeansChosen
<1>4. QED
  BY <1>2, <1>3 DEF runBulkAction

LEMMA ResolveOK ==
  ASSUME GridInv, BulkResolve
  PROVE  handler' \in Handlers /\ HandlerOK'
<1> DEFINE matched == IF handler.body.all THEN Matching(handler.body.scope) \ {Self} ELSE handler.body.ids
           permitted == IF chosen.all THEN Matching(chosen.scope) ELSE chosen.ids
<1>1. handler \in Handlers /\ chosen \in Bodies /\ handler.body \in Bodies
      /\ handler.at = "sent" /\ handler.acted = {} /\ handler.todo = {}
      /\ MeansChosen(handler.body.all, handler.body.ids, handler.body.scope)
  BY DEF GridInv, GridStates, Handlers, HandlerOK, BulkResolve
<1>2. matched \in SUBSET GridUsers /\ permitted \in SUBSET GridUsers
  BY <1>1 DEF Bodies, Matching
<1>3. matched \subseteq permitted
  BY <1>1 DEF MeansChosen
<1>4. \/ /\ Cardinality(matched) <= MAX_BULK_IDS
         /\ handler' = [handler EXCEPT !.at = "server", !.todo = matched, !.allowed = permitted]
      \/ handler' = [handler EXCEPT !.at = "notify"]
  BY DEF BulkResolve
<1> HIDE DEF matched, permitted
<1>5. CASE /\ Cardinality(matched) <= MAX_BULK_IDS
           /\ handler' = [handler EXCEPT !.at = "server", !.todo = matched, !.allowed = permitted]
  <2>1. handler' \in Handlers /\ handler'.at = "server" /\ handler'.todo = matched
        /\ handler'.allowed = permitted /\ handler'.acted = {}
    BY <1>1, <1>2, <1>5 DEF Handlers
  <2>2. handler'.acted \cup handler'.todo = matched
    BY <2>1
  <2>3. QED
    BY <1>3, <1>5, <2>1, <2>2 DEF HandlerOK
<1>6. CASE handler' = [handler EXCEPT !.at = "notify"]
  <2>1. handler' \in Handlers /\ handler'.at = "notify" /\ handler'.todo = {} /\ handler'.acted = {}
    BY <1>1, <1>6 DEF Handlers
  <2>2. handler'.acted \cup handler'.todo = {} /\ Cardinality({}) <= MAX_BULK_IDS
    BY <2>1, FS_EmptySet, GridAssumption
  <2>3. QED
    BY <2>1, <2>2 DEF HandlerOK
<1>7. QED
  BY <1>4, <1>5, <1>6

LEMMA RowOK ==
  ASSUME GridInv, NEW a \in GridUsers, BulkRow(a)
  PROVE  handler' \in Handlers /\ HandlerOK' /\ accountStatus' \in [GridUsers -> Statuses]
<1>1. handler \in Handlers /\ handler.at = "server" /\ a \in handler.todo
      /\ handler.acted \cup handler.todo \subseteq handler.allowed
      /\ Cardinality(handler.acted \cup handler.todo) <= MAX_BULK_IDS
      /\ (Self \in handler.acted => handler.action = "approve")
  BY DEF GridInv, GridStates, HandlerOK, BulkRow
<1>2. accountStatus \in [GridUsers -> Statuses]
  BY DEF GridInv, GridStates
<1>3. CASE /\ a = Self => handler.action = "approve"
           /\ accountStatus' = [accountStatus EXCEPT ![a] = IF handler.action = "approve" THEN "active" ELSE "blocked"]
           /\ handler' = [handler EXCEPT !.todo = @ \ {a}, !.acted = @ \cup {a}]
  <2>1. handler' \in Handlers /\ handler'.at = "server" /\ handler'.action = handler.action
        /\ handler'.todo = handler.todo \ {a} /\ handler'.acted = handler.acted \cup {a}
        /\ handler'.allowed = handler.allowed
    BY <1>1, <1>3 DEF Handlers
  <2>2. handler'.acted \cup handler'.todo = handler.acted \cup handler.todo
    BY <1>1, <2>1
  <2>3. Self \in handler'.acted => handler'.action = "approve"
    BY <1>1, <1>3, <2>1
  <2>4. accountStatus' \in [GridUsers -> Statuses]
    BY <1>2, <1>3 DEF Statuses
  <2>5. QED
    BY <1>1, <2>1, <2>2, <2>3, <2>4 DEF HandlerOK
<1>4. CASE handler' = [handler EXCEPT !.todo = @ \ {a}] /\ UNCHANGED accountStatus
  <2>1. handler' \in Handlers /\ handler'.at = "server" /\ handler'.action = handler.action
        /\ handler'.todo = handler.todo \ {a} /\ handler'.acted = handler.acted
        /\ handler'.allowed = handler.allowed
    BY <1>1, <1>4 DEF Handlers
  <2>2. handler'.acted \cup handler'.todo \in SUBSET (handler.acted \cup handler.todo)
        /\ handler.acted \cup handler.todo \in SUBSET GridUsers
    BY <1>1, <2>1 DEF Handlers
  <2>3. IsFiniteSet(handler.acted \cup handler.todo)
    BY <2>2, FS_Subset, GridAssumption
  <2>4. Cardinality(handler'.acted \cup handler'.todo) <= Cardinality(handler.acted \cup handler.todo)
    BY <2>2, <2>3, FS_Subset
  <2>5. Cardinality(handler'.acted \cup handler'.todo) \in Nat
        /\ Cardinality(handler.acted \cup handler.todo) \in Nat
    BY <2>2, GridCounts
  <2>6. Cardinality(handler'.acted \cup handler'.todo) <= MAX_BULK_IDS
    BY <1>1, <2>4, <2>5, GridAssumption
  <2>7. handler'.acted \cup handler'.todo \subseteq handler'.allowed
    BY <1>1, <2>1, <2>2
  <2>8. QED
    BY <1>1, <1>2, <1>4, <2>1, <2>6, <2>7 DEF HandlerOK
<1>5. QED
  BY <1>3, <1>4 DEF BulkRow

LEMMA ServedOK ==
  ASSUME GridInv, BulkAnswer
  PROVE  handler' \in Handlers /\ HandlerOK'
<1>1. handler \in Handlers /\ handler.at = "server"
      /\ handler' = [handler EXCEPT !.at = "notify", !.ok = TRUE]
  BY DEF GridInv, GridStates, BulkAnswer
<1>2. handler' \in Handlers /\ handler'.at = "notify" /\ handler'.action = handler.action
      /\ handler'.todo = handler.todo /\ handler'.acted = handler.acted
      /\ handler'.allowed = handler.allowed
  BY <1>1 DEF Handlers
<1>3. QED
  BY <1>1, <1>2 DEF GridInv, HandlerOK


(* The steps that leave the batch alone leave the handler in order. *)
LEMMA HandlerUntouched ==
  ASSUME GridInv, UNCHANGED <<handler, chosen>>
  PROVE  handler' \in Handlers /\ chosen' \in Bodies /\ HandlerOK'
BY DEF GridInv, GridStates, HandlerOK, MeansChosen

LEMMA GridInvKept == GridInv /\ [GridNext]_gridVars => GridInv'
<1> SUFFICES ASSUME GridInv, [GridNext]_gridVars PROVE GridInv'
  OBVIOUS
<1> USE DEF GridInv
<1>0. GridStates /\ HandlerOK
  OBVIOUS
<1>1. ASSUME NEW s \in Statuses \cup {"all"}, setFilter(s) PROVE GridInv'
  <2>1. [url EXCEPT !.status = s, !.page = 1] \in GridUrls
    BY <1>0, GridCounts DEF GridStates, GridUrls
  <2>2. url' \in GridUrls /\ sel' \in Selections /\ sel'.scope = selectionScope(url')
    BY <1>1, <2>1, Replaced DEF setFilter
  <2>3. QED
    BY <1>0, <1>1, <2>2, HandlerUntouched DEF GridStates, setFilter
<1>2. ASSUME NEW p \in 1..Cardinality(GridUsers), setPage(p) PROVE GridInv'
  <2>1. [url EXCEPT !.page = p] \in GridUrls
    BY <1>0 DEF GridStates, GridUrls
  <2>2. url' \in GridUrls /\ sel' \in Selections /\ sel'.scope = selectionScope(url')
    BY <1>2, <2>1, Replaced DEF setPage
  <2>3. QED
    BY <1>0, <1>2, <2>2, HandlerUntouched DEF GridStates, setPage
<1>3. ASSUME NEW q \in {"", "text"}, TypeSearch(q) PROVE GridInv'
  BY <1>0, <1>3, HandlerUntouched DEF GridStates, TypeSearch
<1>4. CASE setSearch
  <2>1. timer.closure \in GridUrls /\ timer.q \in {"", "text"}
    BY <1>0 DEF GridStates
  <2>2. [timer.closure EXCEPT !.q = timer.q, !.page = 1] \in GridUrls
    BY <2>1, GridCounts DEF GridUrls
  <2>3. url' \in GridUrls /\ sel' \in Selections /\ sel'.scope = selectionScope(url')
    BY <1>4, <2>2, Replaced DEF setSearch
  <2>4. QED
    BY <1>0, <1>4, <2>3, HandlerUntouched, GridBlanks DEF GridStates, setSearch
<1>5. CASE onClear
  <2>1. [url EXCEPT !.status = "all", !.page = 1] \in GridUrls
    BY <1>0, GridCounts DEF GridStates, GridUrls
  <2>2. url' \in GridUrls /\ sel' \in Selections /\ sel'.scope = selectionScope(url')
    BY <1>5, <2>1, Replaced DEF onClear
  <2>3. QED
    BY <1>0, <1>5, <2>2, HandlerUntouched, GridBlanks DEF GridStates, onClear
<1>6. CASE useGridFetch
  BY <1>0, <1>6, FetchTyped, HandlerUntouched DEF GridStates, useGridFetch
<1>7. ASSUME NEW a \in GridUsers, toggle(a) PROVE GridInv'
  <2>1. (IF a \in sel.ids THEN sel.ids \ {a} ELSE sel.ids \cup {a}) \in SUBSET GridUsers
    BY <1>0 DEF GridStates, Selections
  <2>2. sel' \in Selections /\ sel'.scope = sel.scope
    BY <1>7, <2>1, TickedTyped DEF toggle
  <2>3. QED
    BY <1>0, <1>7, <2>2, HandlerUntouched DEF GridStates, toggle
<1>8. CASE togglePage
  <2>1. Shown \in SUBSET GridUsers
    BY <1>0 DEF GridStates, Shown
  <2>2. (IF sel.mode = "all" \/ Shown \subseteq sel.ids THEN sel.ids \ Shown ELSE sel.ids \cup Shown) \in SUBSET GridUsers
    BY <1>0, <2>1 DEF GridStates, Selections
  <2>3. sel' \in Selections /\ sel'.scope = sel.scope
    BY <1>8, <2>2, TickedTyped DEF togglePage
  <2>4. QED
    BY <1>0, <1>8, <2>3, HandlerUntouched DEF GridStates, togglePage
<1>9. CASE selectAllMatching
  BY <1>0, <1>9, AllTyped, HandlerUntouched DEF GridStates, selectAllMatching
<1>10. ASSUME NEW action \in BulkActions, bulkActions(action) PROVE GridInv'
  BY <1>0, <1>10, ClickOK DEF GridStates, bulkActions
<1>11. CASE runBulkAction
  BY <1>0, <1>11, AnswerDialogOK DEF GridStates, runBulkAction
<1>12. CASE BulkResolve
  BY <1>0, <1>12, ResolveOK DEF GridStates, BulkResolve
<1>13. ASSUME NEW a \in GridUsers, BulkRow(a) PROVE GridInv'
  BY <1>0, <1>13, RowOK DEF GridStates, BulkRow
<1>14. CASE BulkAnswer
  BY <1>0, <1>14, ServedOK DEF GridStates, BulkAnswer
<1>15. CASE Notified
  <2>1. handler' \in Handlers /\ HandlerOK'
    BY <1>15, IdleOK DEF Notified
  <2>2. sel.scope \in AnyScope
    BY <1>0 DEF GridStates, Selections
  <2>3. sel' \in Selections /\ sel'.scope = sel.scope
    <3>1. sel' = sel \/ sel' = NoSelection(sel.scope)
      BY <1>15 DEF Notified
    <3>2. sel \in Selections
      BY <1>0 DEF GridStates
    <3>3. NoSelection(sel.scope) \in Selections /\ NoSelection(sel.scope).scope = sel.scope
      BY <2>2, GridBlanks
    <3>4. QED
      BY <3>1, <3>2, <3>3
  <2>4. /\ result' \in [items : SUBSET GridUsers, total : Nat, error : BOOLEAN]
        /\ timer' \in [set : BOOLEAN, q : {"", "text"}, closure : GridUrls]
    <3>1. (result' = result \/ result' = NoRows) /\ (timer' = timer \/ timer' = NoTimer)
      BY <1>15 DEF Notified
    <3>2. /\ result \in [items : SUBSET GridUsers, total : Nat, error : BOOLEAN]
          /\ timer \in [set : BOOLEAN, q : {"", "text"}, closure : GridUrls]
      BY <1>0 DEF GridStates
    <3>3. QED
      BY <3>1, <3>2, GridBlanks
  <2>5. QED
    BY <1>0, <1>15, <2>1, <2>3, <2>4 DEF GridStates, Notified
<1>16. ASSUME NEW a \in GridUsers, NEW s \in Statuses, OtherChange(a, s) PROVE GridInv'
  BY <1>0, <1>16, HandlerUntouched DEF GridStates, OtherChange
<1>17. CASE UNCHANGED gridVars
  BY <1>0, <1>17, HandlerUntouched DEF GridStates, gridVars
<1>18. QED
  BY <1>1, <1>2, <1>3, <1>4, <1>5, <1>6, <1>7, <1>8, <1>9, <1>10, <1>11, <1>12, <1>13, <1>14,
     <1>15, <1>16, <1>17 DEF GridNext

LEMMA GridInvHolds == GridSpec => []GridInv
<1>1. GridInit => GridInv
  <2> SUFFICES ASSUME GridInit PROVE GridInv
    OBVIOUS
  <2>1. accountStatus \in [GridUsers -> Statuses]
    BY DEF GridInit, Statuses
  <2>2. selectionScope(StartUrl) \in AnyScope
    BY GridBlanks DEF AnyScope
  <2>3. sel \in Selections /\ sel.scope = selectionScope(url)
    BY <2>2, GridBlanks DEF GridInit
  <2>4. chosen \in Bodies
    BY <2>2 DEF GridInit, Bodies
  <2>5. HandlerOK
    BY GridBlanks DEF GridInit, HandlerOK
  <2>6. QED
    BY <2>1, <2>3, <2>4, <2>5, GridBlanks DEF GridInit, GridInv, GridStates
<1>2. QED
  BY <1>1, GridInvKept, PTL DEF GridSpec

(* The grid's part of the type invariant, for any number of accounts. *)
THEOREM GridTyped == GridSpec => []GridTypeOK
<1>1. ASSUME GridInv PROVE GridTypeOK
  <2>1. GridStates
    BY <1>1 DEF GridInv
  <2>2. selectionScope(url) \in Scopes
    BY <2>1, GridBlanks DEF GridStates
  <2>3. url.page \in 1..Cardinality(GridUsers)
    BY <2>1 DEF GridStates, GridUrls
  <2>4. sel.ids \subseteq GridUsers /\ sel.mode \in {"page", "all"} /\ sel.scope \in Scopes
    BY <2>1, <2>2 DEF GridStates, Selections
  <2>5. handler.at \in {"idle", "dialog", "sent", "server", "notify"}
    BY <2>1 DEF GridStates, Handlers
  <2>6. accountStatus \in [GridUsers -> Statuses] /\ result.items \subseteq GridUsers
    BY <2>1 DEF GridStates
  <2>7. QED
    BY <2>2, <2>3, <2>4, <2>5, <2>6 DEF GridTypeOK
<1>2. QED
  BY <1>1, GridInvHolds, PTL

(* F-62 and F-114, for any number of accounts, searches, batches and writes  *)
(* of others: a batch touches only what was chosen on screen, within the     *)
(* cap, and never blocks or bans the administrator himself.                  *)
THEOREM BatchIsAsChosen == GridSpec => []ActsOnWhatWasChosen
<1>1. GridInv => ActsOnWhatWasChosen
  <2> SUFFICES ASSUME GridInv, handler.at \in {"server", "notify"}
               PROVE  /\ handler.acted \cup handler.todo \subseteq handler.allowed
                      /\ Cardinality(handler.acted) <= MAX_BULK_IDS
                      /\ Self \in handler.acted => handler.action = "approve"
    BY DEF ActsOnWhatWasChosen
  <2>1. /\ handler.acted \cup handler.todo \subseteq handler.allowed
        /\ Cardinality(handler.acted \cup handler.todo) <= MAX_BULK_IDS
        /\ Self \in handler.acted => handler.action = "approve"
    BY DEF GridInv, HandlerOK
  <2>2. handler.acted \cup handler.todo \in SUBSET GridUsers
        /\ handler.acted \in SUBSET (handler.acted \cup handler.todo)
        /\ handler.acted \in SUBSET GridUsers
    BY DEF GridInv, GridStates, Handlers
  <2>3. IsFiniteSet(handler.acted \cup handler.todo)
    BY <2>2, FS_Subset, GridAssumption
  <2>4. Cardinality(handler.acted) <= Cardinality(handler.acted \cup handler.todo)
    BY <2>2, <2>3, FS_Subset
  <2>5. Cardinality(handler.acted) \in Nat /\ Cardinality(handler.acted \cup handler.todo) \in Nat
    BY <2>2, GridCounts
  <2>6. QED
    BY <2>1, <2>4, <2>5, GridAssumption
<1>2. QED
  BY <1>1, GridInvHolds, PTL

(***************************************************************************)
(* AdminLists                                                              *)
(***************************************************************************)
Keys == SortValues \union {Null}
Cells == [key : Keys, column : Column]
Tabled == table \in [Rows -> Cells \union {Unborn, Gone}]

LEMMA RowsFacts ==
  /\ Rows \subseteq Nat /\ 0 \notin Rows /\ IsFiniteSet(Rows)
  /\ Keys \subseteq Int \union {Null} /\ Null \notin Int
BY ListsAssumption DEF Keys

LEMMA ThereIsACell ==
  ASSUME Tabled, NEW r \in Rows, There(r)
  PROVE  table[r] \in Cells /\ table[r].key \in Keys
BY DEF Tabled, There, Cells

(* Where the grid and the exporter have the same query, they have the same   *)
(* rows.                                                                     *)
LEMMA SameQuery ==
  ASSUME view \in Views, ~KnownToDiffer, NEW r
  PROVE  Listed(r) <=> Exported(r)
<1> USE DEF Listed, Exported, KnownToDiffer
<1>1. CASE view.resource = "users"
  BY <1>1 DEF UsersGET, buildUsersExporter
<1>2. CASE view.resource = "audit"
  BY <1>2 DEF AuditGET, buildAuditExporter
<1>3. CASE view.resource = "organizations"
  BY <1>3 DEF OrganizationsGET, buildOrganizationsExporter
<1>4. CASE view.resource = "roles"
  BY <1>4 DEF RolesGET, buildRolesExporter, PermissionIn
<1>5. CASE view.resource = "permissions"
  BY <1>5 DEF PermissionsGET, buildPermissionsExporter
<1>6. CASE view.resource = "memberships"
  BY <1>6 DEF MembershipsGET, buildMembershipsExporter, Found
<1>7. CASE view.resource = "enterprise-apps"
  BY <1>7 DEF EnterpriseAppsGET, buildEnterpriseAppsExporter, Found
<1>8. view.resource \in Resources
  BY ListsAssumption
<1>9. QED
  BY <1>1, <1>2, <1>3, <1>4, <1>5, <1>6, <1>7, <1>8 DEF Resources

(* The order of an export: by key, then by id. *)
Ahead(k, i, l, j) ==
  \/ l = Null /\ k # Null
  \/ k # Null /\ Follows(l, k)
  \/ k = l /\ i < j

LEMMA AheadIsOrder ==
  ASSUME NEW k1 \in Keys, NEW k2 \in Keys, NEW k3 \in Keys,
         NEW i1 \in Rows, NEW i2 \in Rows, NEW i3 \in Rows
  PROVE  /\ ~Ahead(k1, i1, k1, i1)
         /\ Ahead(k1, i1, k2, i2) \/ Ahead(k2, i2, k1, i1) \/ (k1 = k2 /\ i1 = i2)
         /\ Ahead(k1, i1, k2, i2) => ~Ahead(k2, i2, k1, i1)
         /\ Ahead(k1, i1, k2, i2) /\ Ahead(k2, i2, k3, i3) => Ahead(k1, i1, k3, i3)
BY RowsFacts DEF Ahead, Follows

LEMMA SortIsAhead ==
  ASSUME NEW a, NEW b
  PROVE  buildKeysetSort(a, b) <=> Ahead(table[a].key, a, table[b].key, b)
BY DEF buildKeysetSort, Ahead

Cursors == [key : Keys, id : Rows]

LEMMA BeyondIsAhead ==
  ASSUME Tabled, NEW c \in Cursors, NEW r \in Rows, There(r)
  PROVE  Beyond(r, c) <=> Ahead(c.key, c.id, table[r].key, r)
<1>1. c # NoCursor
  BY RowsFacts DEF Cursors, NoCursor
<1>2. r \in Nat /\ c.id \in Nat /\ c.key \in Keys /\ table[r].key \in Keys
  BY RowsFacts, ThereIsACell DEF Cursors
<1>3. QED
  BY <1>1, <1>2, RowsFacts DEF Beyond, levelAfter, levelEqual, Ahead, Follows

(* Whether a row was written out, and whether it was written out only once.  *)
Sent(r, s) == \E i \in DOMAIN s : s[i] = r
Repeated(r, s) == \E i, j \in DOMAIN s : i # j /\ s[i] = r /\ s[j] = r

(* The rows that a page is taken from. *)
Remaining(c) == {r \in Rows : Exported(r) /\ Beyond(r, c)}

LEMMA PageShape ==
  ASSUME Tabled, NEW c, NEW limit \in Nat \ {0}, NEW page \in applyKeyset(c, limit)
  PROVE  /\ page \in Seq(Rows) /\ Len(page) <= limit
         /\ Len(page) = Lesser(limit, Cardinality(Remaining(c)))
         /\ page \in [1..Len(page) -> Remaining(c)] /\ DOMAIN page = 1..Len(page)
         /\ \A i, j \in 1..Len(page) : i < j => buildKeysetSort(page[i], page[j])
         /\ \A i \in 1..Len(page) : \A r \in Remaining(c) : Sent(r, page) \/ buildKeysetSort(page[i], r)
<1> DEFINE n == Lesser(limit, Cardinality(Remaining(c)))
<1>1. n \in Nat /\ n <= limit
  <2>1. Remaining(c) \in SUBSET Rows
    BY DEF Remaining
  <2>2. Cardinality(Remaining(c)) \in Nat
    BY <2>1, RowsFacts, FS_Subset, FS_CardinalityType
  <2>3. QED
    BY <2>2 DEF Lesser
<1>2. /\ page \in [1..n -> Remaining(c)]
      /\ \A i, j \in DOMAIN page : i < j => buildKeysetSort(page[i], page[j])
      /\ \A i \in DOMAIN page : \A r \in Remaining(c) \ Range(page) : buildKeysetSort(page[i], r)
  BY DEF applyKeyset, Remaining
<1> HIDE DEF n
<1>3. Remaining(c) \subseteq Rows
  BY DEF Remaining
<1>4. page \in Seq(Rows) /\ Len(page) = n /\ DOMAIN page = 1..n
  BY <1>1, <1>2, <1>3
<1>5. ASSUME NEW i \in 1..Len(page), NEW r \in Remaining(c), ~Sent(r, page)
      PROVE  buildKeysetSort(page[i], r)
  BY <1>2, <1>4, <1>5 DEF Sent, Range
<1>6. QED
  BY <1>1, <1>2, <1>4, <1>5 DEF n

LEMMA RemainingThere ==
  ASSUME Tabled, NEW c, NEW r \in Remaining(c)
  PROVE  r \in Rows /\ Exported(r) /\ There(r) /\ Beyond(r, c) /\ table[r].key \in Keys
BY ThereIsACell DEF Remaining, Exported

LEMMA PageRows ==
  ASSUME Tabled, NEW c, NEW limit \in Nat \ {0}, NEW page \in applyKeyset(c, limit), NEW r
  PROVE  /\ Sent(r, page) => r \in Rows /\ Exported(r) /\ Beyond(r, c)
         /\ ~Repeated(r, page)
<1>1. Sent(r, page) => r \in Remaining(c)
  BY PageShape DEF Sent
<1>2. SUFFICES ASSUME NEW i \in 1..Len(page), NEW j \in 1..Len(page), i < j, page[i] = r, page[j] = r
               PROVE  FALSE
  <2>1. DOMAIN page = 1..Len(page) /\ Len(page) \in Nat
    BY PageShape
  <2>2. Repeated(r, page) => \E i, j \in 1..Len(page) : i < j /\ page[i] = r /\ page[j] = r
    BY <2>1 DEF Repeated
  <2>3. QED
    BY <1>1, <1>2, <2>2, RemainingThere
<1>3. r \in Remaining(c) /\ buildKeysetSort(r, r)
  BY <1>2, PageShape
<1>4. r \in Rows /\ table[r].key \in Keys
  BY <1>3, RemainingThere
<1>5. QED
  BY <1>3, <1>4, SortIsAhead, AheadIsOrder

(* A page that is not full has all the rows that there are. *)
LEMMA ShortPage ==
  ASSUME Tabled, NEW c, NEW limit \in Nat \ {0}, NEW page \in applyKeyset(c, limit),
         Len(page) < limit, NEW r \in Remaining(c)
  PROVE  Sent(r, page)
<1> DEFINE S == Remaining(c)
           n == Len(page)
<1>1. IsFiniteSet(S) /\ Cardinality(S) \in Nat
  <2>1. S \in SUBSET Rows
    BY DEF Remaining
  <2>2. QED
    BY <2>1, RowsFacts, FS_Subset, FS_CardinalityType
<1>2. /\ page \in [1..n -> S] /\ n \in Nat /\ n = Cardinality(S)
      /\ DOMAIN page = 1..n
  BY PageShape, <1>1 DEF Lesser
<1>3. \A i, j \in 1..n : page[i] = page[j] => i = j
  BY <1>2, PageRows DEF Repeated
<1> HIDE DEF S, n
<1>4. page \in Injection(1..n, S)
  BY <1>2, <1>3 DEF Injection, IsInjective
<1>5. Cardinality(1..n) = n
  BY <1>2, FS_Interval
<1>6. page \in Surjection(1..n, S)
  BY <1>1, <1>2, <1>4, <1>5, FS_Injection
<1>7. QED
  BY <1>2, <1>6 DEF Surjection, Sent, S

(* After a full page, what remains is what it left out. *)
LEMMA FullPage ==
  ASSUME Tabled, NEW c \in Cursors \union {NoCursor}, NEW limit \in Nat \ {0},
         NEW page \in applyKeyset(c, limit), ~(Len(page) < limit)
  PROVE  /\ page # <<>> /\ pageCursor(page) \in Cursors
         /\ \A r \in Rows : Exported(r) =>
              (Beyond(r, pageCursor(page)) <=> (Beyond(r, c) /\ ~Sent(r, page)))
<1> DEFINE n == Len(page)
           l == page[n]
           d == pageCursor(page)
<1>1. n \in Nat \ {0} /\ page \in [1..n -> Remaining(c)] /\ DOMAIN page = 1..n
  BY PageShape
<1>2. \A i, j \in 1..n : i < j => buildKeysetSort(page[i], page[j])
  <2> HIDE DEF l, d
  <2> QED
    BY PageShape
<1>3. l \in Rows /\ There(l) /\ Beyond(l, c) /\ table[l].key \in Keys
  BY <1>1, RemainingThere
<1>4. page # <<>> /\ d = [key |-> table[l].key, id |-> l]
  BY <1>1 DEF pageCursor, keysetCursorFrom
<1>5. d \in Cursors /\ d.key = table[l].key /\ d.id = l
  BY <1>3, <1>4 DEF Cursors
<1> HIDE DEF d
<1>6. ASSUME NEW r \in Rows, Exported(r)
      PROVE  Beyond(r, d) <=> (Beyond(r, c) /\ ~Sent(r, page))
  <2>1. There(r) /\ table[r].key \in Keys
    BY <1>6, ThereIsACell DEF Exported
  <2>2. Beyond(r, d) <=> Ahead(table[l].key, l, table[r].key, r)
    BY <1>5, <2>1, BeyondIsAhead
  <2>3. ASSUME Sent(r, page) PROVE ~Ahead(table[l].key, l, table[r].key, r)
    <3>1. PICK i \in 1..n : page[i] = r
      BY <1>1, <2>3 DEF Sent
    <3>2. i = n \/ buildKeysetSort(r, l)
      <4>1. n \in 1..n /\ (i = n \/ i < n)
        <5> HIDE DEF n
        <5> QED
          BY <1>1
      <4>2. i < n => buildKeysetSort(page[i], page[n])
        BY <1>2, <4>1
      <4>3. QED
        BY <3>1, <4>1, <4>2
    <3>3. r = l \/ Ahead(table[r].key, r, table[l].key, l)
      BY <3>1, <3>2, SortIsAhead
    <3>4. QED
      BY <1>3, <2>1, <3>3, AheadIsOrder
  <2>4. ASSUME ~Beyond(r, c) PROVE ~Ahead(table[l].key, l, table[r].key, r)
    <3>1. c \in Cursors
      BY <2>4 DEF Beyond
    <3>2. /\ Ahead(c.key, c.id, table[l].key, l)
          /\ ~Ahead(c.key, c.id, table[r].key, r)
      BY <1>3, <2>1, <2>4, <3>1, BeyondIsAhead
    <3>3. c.key \in Keys /\ c.id \in Rows
      BY <3>1 DEF Cursors
    <3>4. QED
      BY <1>3, <2>1, <3>2, <3>3, AheadIsOrder
  <2>5. ASSUME Beyond(r, c), ~Sent(r, page) PROVE Ahead(table[l].key, l, table[r].key, r)
    <3>1. r \in Remaining(c)
      BY <1>6, <2>5 DEF Remaining
    <3>2. buildKeysetSort(l, r)
      BY <1>1, <2>5, <3>1, PageShape
    <3>3. QED
      BY <3>2, SortIsAhead
  <2>6. QED
    BY <2>2, <2>3, <2>4, <2>5
<1>7. QED
  BY <1>4, <1>5, <1>6 DEF d

ExportStates ==
  [at : {"idle", "stream", "done"}, out : Seq(Rows), cursor : Cursors \union {NoCursor},
   truncated : BOOLEAN, audits : SUBSET {"failed", "completed"}]

WalkStates ==
  [at : {"idle", "walk", "count", "done", "failed"}, walk : 1..MAX_WALKS, page : 1..maxPages,
   held : SUBSET Rows, first : Nat, moved : BOOLEAN, total : Nat, largest : Nat, truncated : BOOLEAN]

ListsState ==
  /\ Tabled /\ view \in Views /\ export \in ExportStates /\ walk \in WalkStates
  /\ Cardinality(walk.held) <= CATALOG_MAX_ITEMS
  /\ steady \subseteq Rows /\ seen \subseteq Rows /\ written \in 0..MaxWrites
  /\ grew \in BOOLEAN /\ shrank \in BOOLEAN

(* One reader reads, and it has not begun while it is idle. *)
OneReader ==
  /\ view.reader # "export" => export.at = "idle"
  /\ view.reader # "walk" => walk.at = "idle"
  /\ export.at = "idle" => export.out = <<>>
  /\ walk.at \in {"idle", "walk"} /\ walk.page = 1 => walk.held = {}
  /\ walk.at = "idle" => walk.page = 1
  /\ walk.at = "count" => walk.page > 1

(* While an export runs, the rows that stayed as they were are written out   *)
(* up to the cursor, and none behind it.                                     *)
UpToCursor ==
  export.at = "stream" =>
    /\ export.cursor \in Cursors
    /\ ListedNow \subseteq seen /\ steady \subseteq ListedNow
    /\ ~KnownToDiffer =>
         \A r \in steady : Beyond(r, export.cursor) <=> ~Sent(r, export.out)

(* Of the rows W, s has none ahead of one that sorts before it, and none     *)
(* without one that does.                                                    *)
InOrder(s, W) ==
  \A i \in DOMAIN s : s[i] \in W =>
    \A a \in W : buildKeysetSort(a, s[i]) => \E j \in 1..(i - 1) : s[j] = a

(* What an export has written out, finished or not. *)
WrittenOut ==
  /\ Len(export.out) <= MAX_EXPORT_ROWS
  /\ ~KnownToDiffer =>
       /\ \A r \in steady : ~Repeated(r, export.out)
       /\ (export.at = "done" /\ "failed" \notin export.audits /\ ~export.truncated)
            => \A r \in steady : Sent(r, export.out)
       /\ \A r \in Rows : Sent(r, export.out) => r \in seen
       /\ InOrder(export.out, steady)

(* What a walk knows of the list after its first page. *)
WalkKnows ==
  (walk.at \in {"walk", "count"} /\ walk.page > 1) =>
    /\ ListedNow \subseteq seen /\ walk.held \subseteq seen /\ steady \subseteq ListedNow
    /\ ~grew => Cardinality(seen) = walk.first
    /\ ~shrank => walk.held \subseteq ListedNow
    /\ walk.first <= walk.largest

ListsInv ==
  /\ ListsState /\ OneReader /\ UpToCursor /\ WrittenOut /\ WalkKnows /\ CatalogWhole

LEMMA SameRow ==
  ASSUME NEW r, table'[r] = table[r], view' = view
  PROVE  /\ Listed(r)' <=> Listed(r)
         /\ Exported(r)' <=> Exported(r)
         /\ \A c : Beyond(r, c)' <=> Beyond(r, c)
<1> USE DEF There, InScope, ColumnIn, StatusIn, FlagIn, OrgIn, KindIn, PermissionIn, Found
<1>1. Listed(r)' <=> Listed(r)
  BY DEF Listed, UsersGET, AuditGET, OrganizationsGET, RolesGET, PermissionsGET, MembershipsGET, EnterpriseAppsGET
<1>2. Exported(r)' <=> Exported(r)
  BY DEF Exported, buildUsersExporter, buildAuditExporter, buildOrganizationsExporter, buildRolesExporter,
         buildPermissionsExporter, buildMembershipsExporter, buildEnterpriseAppsExporter
<1>3. ASSUME NEW c PROVE Beyond(r, c)' <=> Beyond(r, c)
  BY DEF Beyond, levelAfter, levelEqual, Follows, Ascending
<1>4. QED
  BY <1>1, <1>2, <1>3

LEMMA SameView ==
  ASSUME view' = view
  PROVE  KnownToDiffer' <=> KnownToDiffer
BY DEF KnownToDiffer

LEMMA SameList ==
  ASSUME table' = table, view' = view
  PROVE  ListedNow' = ListedNow
BY SameRow DEF ListedNow

LEMMA Appended ==
  ASSUME NEW s \in Seq(Rows), NEW p \in Seq(Rows), NEW r
  PROVE  /\ s \o p \in Seq(Rows) /\ Len(s \o p) = Len(s) + Len(p)
         /\ Sent(r, s \o p) <=> (Sent(r, s) \/ Sent(r, p))
         /\ (~Repeated(r, s) /\ ~Repeated(r, p) /\ ~(Sent(r, s) /\ Sent(r, p))) => ~Repeated(r, s \o p)
<1>1. /\ s \o p \in Seq(Rows) /\ Len(s \o p) = Len(s) + Len(p)
      /\ DOMAIN (s \o p) = 1..(Len(s) + Len(p))
      /\ \A i \in 1..(Len(s) + Len(p)) : (s \o p)[i] = IF i <= Len(s) THEN s[i] ELSE p[i - Len(s)]
  OBVIOUS
<1>2. Len(s) \in Nat /\ Len(p) \in Nat /\ DOMAIN s = 1..Len(s) /\ DOMAIN p = 1..Len(p)
  OBVIOUS
<1> DEFINE t == s \o p
<1> HIDE DEF t
<1>3. /\ DOMAIN t = 1..(Len(s) + Len(p))
      /\ \A i \in DOMAIN t : /\ i <= Len(s) => i \in DOMAIN s /\ t[i] = s[i]
                             /\ ~(i <= Len(s)) => i - Len(s) \in DOMAIN p /\ t[i] = p[i - Len(s)]
  BY <1>1, <1>2 DEF t
<1>4. /\ \A i \in DOMAIN s : i \in DOMAIN t /\ t[i] = s[i]
      /\ \A i \in DOMAIN p : i + Len(s) \in DOMAIN t /\ t[i + Len(s)] = p[i]
  BY <1>1, <1>2 DEF t
<1>5. Sent(r, t) <=> (Sent(r, s) \/ Sent(r, p))
  BY <1>3, <1>4 DEF Sent
<1>6. ASSUME ~Repeated(r, s), ~Repeated(r, p), ~(Sent(r, s) /\ Sent(r, p)), Repeated(r, t) PROVE FALSE
  <2>1. PICK i \in DOMAIN t : \E j \in DOMAIN t : i # j /\ t[i] = r /\ t[j] = r
    BY <1>6 DEF Repeated
  <2>2. PICK j \in DOMAIN t : i # j /\ t[i] = r /\ t[j] = r
    BY <2>1
  <2>3. CASE i <= Len(s) /\ j <= Len(s)
    BY <1>3, <1>6, <2>2, <2>3 DEF Repeated
  <2>4. CASE ~(i <= Len(s)) /\ ~(j <= Len(s))
    BY <1>2, <1>3, <1>6, <2>2, <2>4 DEF Repeated
  <2>5. CASE (i <= Len(s)) # (j <= Len(s))
    BY <1>3, <1>6, <2>2, <2>5 DEF Sent
  <2>6. QED
    BY <2>3, <2>4, <2>5
<1>7. QED
  BY <1>1, <1>5, <1>6 DEF t

LEMMA SameOrder ==
  ASSUME NEW s, NEW W, NEW V \in SUBSET W, \A a \in V : table'[a] = table[a], view' = view,
         InOrder(s, W)
  PROVE  InOrder(s, V)'
<1>1. ASSUME NEW a \in V, NEW b \in V PROVE buildKeysetSort(a, b)' <=> buildKeysetSort(a, b)
  BY DEF buildKeysetSort, Follows, Ascending
<1>2. QED
  BY <1>1 DEF InOrder

(* A page goes where its rows belong: behind what sorts before them. *)
LEMMA PageInOrder ==
  ASSUME Tabled, NEW c, NEW limit \in Nat \ {0}, NEW page \in applyKeyset(c, limit),
         NEW s \in Seq(Rows), NEW W \in SUBSET Rows, \A r \in W : Exported(r),
         InOrder(s, W), \A r \in W : Beyond(r, c) \/ Sent(r, s)
  PROVE  InOrder(s \o page, W)
<1> DEFINE t == s \o page
<1>1. page \in Seq(Rows) /\ page \in [1..Len(page) -> Remaining(c)]
  BY PageShape
<1>2. Len(s) \in Nat /\ Len(page) \in Nat /\ DOMAIN s = 1..Len(s) /\ DOMAIN page = 1..Len(page)
  BY <1>1
<1>3. /\ DOMAIN t = 1..(Len(s) + Len(page))
      /\ \A i \in 1..Len(s) : t[i] = s[i]
      /\ \A k \in 1..Len(page) : t[Len(s) + k] = page[k]
  BY <1>1, <1>2
<1> HIDE DEF t
<1>4. SUFFICES ASSUME NEW i \in DOMAIN t, t[i] \in W, NEW a \in W, buildKeysetSort(a, t[i])
               PROVE  \E j \in 1..(i - 1) : t[j] = a
  BY DEF InOrder, t
<1>5. CASE i <= Len(s)
  <2>1. i \in DOMAIN s /\ t[i] = s[i]
    BY <1>2, <1>3, <1>5
  <2>2. PICK j \in 1..(i - 1) : s[j] = a
    BY <1>4, <2>1 DEF InOrder
  <2>3. t[j] = a
    BY <1>2, <1>3, <1>5, <2>2
  <2>4. QED
    BY <2>3
<1>6. CASE ~(i <= Len(s))
  <2> DEFINE k == i - Len(s)
  <2>1. k \in 1..Len(page) /\ i = Len(s) + k
    BY <1>2, <1>3, <1>6
  <2> HIDE DEF k
  <2>2. t[i] = page[k]
    BY <1>3, <2>1
  <2>3. CASE Sent(a, s)
    <3>1. PICK j \in 1..Len(s) : s[j] = a
      BY <1>2, <2>3 DEF Sent
    <3>2. j \in 1..(i - 1) /\ t[j] = a
      BY <1>2, <1>3, <2>1, <3>1
    <3>3. QED
      BY <3>2
  <2>4. CASE Beyond(a, c)
    <3>1. a \in Remaining(c) /\ page[k] \in Remaining(c)
      BY <1>1, <1>4, <2>1, <2>4 DEF Remaining
    <3>2. a \in Rows /\ page[k] \in Rows /\ table[a].key \in Keys /\ table[page[k]].key \in Keys
      BY <3>1, RemainingThere
    <3>3. ~buildKeysetSort(page[k], a) /\ a # page[k]
      BY <1>4, <2>2, <3>2, SortIsAhead, AheadIsOrder
    <3>4. Sent(a, page)
      <4>1. \A n \in 1..Len(page) : \A r \in Remaining(c) : Sent(r, page) \/ buildKeysetSort(page[n], r)
        BY PageShape
      <4>2. QED
        BY <2>1, <3>1, <3>3, <4>1
    <3>5. PICK m \in 1..Len(page) : page[m] = a
      BY <1>2, <3>4 DEF Sent
    <3>6. ~(k < m)
      <4>1. \A n, o \in 1..Len(page) : n < o => buildKeysetSort(page[n], page[o])
        BY PageShape
      <4>2. QED
        BY <2>1, <3>3, <3>5, <4>1
    <3>7. m < k
      BY <1>2, <2>1, <3>3, <3>5, <3>6
    <3>8. Len(s) + m \in 1..(i - 1) /\ t[Len(s) + m] = a
      BY <1>2, <1>3, <2>1, <3>5, <3>7
    <3>9. QED
      BY <3>8
  <2>5. QED
    BY <1>4, <2>3, <2>4
<1>7. QED
  BY <1>5, <1>6

(* What a reader may rely on once it has begun, for the rows it watches. *)
Watching ==
  /\ ListedNow \subseteq seen' /\ steady' \subseteq ListedNow
  /\ table' = table /\ view' = view

LEMMA StreamKept ==
  ASSUME ListsState, Watching, NEW c \in Cursors \union {NoCursor}, NEW limit \in Nat \ {0},
         limit <= MAX_EXPORT_ROWS - Len(export.out),
         NEW page \in applyKeyset(c, limit), Stream(page, limit),
         ~KnownToDiffer =>
           /\ \A r \in steady' : ~Repeated(r, export.out) /\ (Beyond(r, c) <=> ~Sent(r, export.out))
           /\ \A r \in Rows : Sent(r, export.out) => r \in seen'
           /\ \A s, W : s = export.out /\ W = steady' => InOrder(s, W)
  PROVE  export' \in ExportStates /\ export'.at # "idle" /\ UpToCursor' /\ WrittenOut'
<1> DEFINE out == export.out \o page
           full == [export EXCEPT !.at = "stream", !.out = out,
                                  !.cursor = IF page = <<>> THEN @ ELSE pageCursor(page)]
<1>1. /\ Tabled /\ view \in Views /\ export \in ExportStates /\ export.out \in Seq(Rows)
      /\ MAX_EXPORT_ROWS \in Nat
  BY ListsAssumption DEF ListsState, ExportStates
<1>2. page \in Seq(Rows) /\ Len(page) <= limit /\ Len(page) \in Nat
  BY <1>1, PageShape
<1>3. out \in Seq(Rows) /\ Len(out) <= MAX_EXPORT_ROWS
  BY <1>1, <1>2, Appended
<1>4. /\ ListedNow' = ListedNow /\ (KnownToDiffer' <=> KnownToDiffer)
      /\ \A r, d : Beyond(r, d)' <=> Beyond(r, d)
  BY SameList, SameView, SameRow DEF Watching
<1>5. ASSUME ~KnownToDiffer
      PROVE  /\ \A r \in steady' : ~Repeated(r, out)
             /\ \A r \in Rows : Sent(r, out) => r \in seen'
  <2>1. ASSUME NEW r \in steady' PROVE ~Repeated(r, out)
    <3>1. ~Repeated(r, page) /\ (Sent(r, page) => ~Sent(r, export.out))
      BY <1>1, <1>5, <2>1, PageRows
    <3>2. QED
      BY <1>1, <1>2, <1>5, <2>1, <3>1, Appended
  <2>2. ASSUME NEW r \in Rows, Sent(r, out) PROVE r \in seen'
    <3>1. Sent(r, export.out) \/ Sent(r, page)
      BY <1>1, <1>2, <2>2, Appended
    <3>2. Sent(r, page) => Listed(r)
      BY <1>1, <1>5, PageRows, SameQuery
    <3>3. QED
      BY <1>5, <2>2, <3>1, <3>2 DEF Watching, ListedNow
  <2>3. QED
    BY <2>1, <2>2
<1>6. ASSUME NEW r \in steady', ~KnownToDiffer
      PROVE  /\ r \in Rows /\ Exported(r)
             /\ Sent(r, out) <=> (~Beyond(r, c) \/ Sent(r, page))
  <2>1. r \in Rows /\ Listed(r)
    BY DEF Watching, ListedNow
  <2>2. QED
    BY <1>1, <1>2, <1>6, <2>1, Appended, SameQuery
<1>7. ASSUME ~KnownToDiffer PROVE InOrder(export.out, steady)'
  <2>1. PICK s : s = export.out /\ s \in Seq(Rows)
    BY <1>1
  <2>2. PICK W : W = steady'
    OBVIOUS
  <2>3. InOrder(s, W)
    BY <1>7, <2>1, <2>2
  <2>4. W \in SUBSET Rows /\ \A r \in W : Exported(r)
    BY <1>6, <1>7, <2>2
  <2>5. \A r \in W : Beyond(r, c) \/ Sent(r, s)
    BY <1>7, <2>1, <2>2
  <2>6. PICK t : t = s \o page
    OBVIOUS
  <2>7. InOrder(t, W)
    BY <1>1, <2>1, <2>3, <2>4, <2>5, <2>6, PageInOrder
  <2>8. InOrder(t, W)'
    BY <2>7, SameOrder DEF Watching
  <2>9. export'.out = t
    BY <1>1, <2>1, <2>6 DEF Stream, Close, ExportStates
  <2>10. QED
    BY <2>2, <2>8, <2>9
<1> HIDE DEF out
<1>8. CASE Len(page) < limit
  <2>1. export' = Close(full)
    BY <1>8 DEF Stream, out
  <2>2. /\ full \in ExportStates
        /\ full.out = out
    <3>1. page = <<>> \/ pageCursor(page) \in Cursors
      <4>1. page = <<>> \/ (page[Len(page)] \in Remaining(c))
        BY <1>1, <1>2, PageShape
      <4>2. QED
        BY <1>1, <4>1, RemainingThere DEF pageCursor, keysetCursorFrom, Cursors
    <3>2. QED
      BY <1>1, <1>3, <3>1 DEF ExportStates
  <2> HIDE DEF full
  <2>3. /\ export' \in ExportStates /\ export'.at = "done" /\ export'.out = out
    BY <2>1, <2>2 DEF Close, ExportStates
  <2>4. ASSUME NEW r \in steady', ~KnownToDiffer PROVE Sent(r, out)
    <3>1. Beyond(r, c) => Sent(r, page)
      BY <1>1, <1>6, <1>8, <2>4, ShortPage DEF Remaining
    <3>2. QED
      BY <1>6, <2>4, <3>1
  <2>5. WrittenOut'
    BY <1>3, <1>4, <1>5, <1>7, <2>3, <2>4 DEF WrittenOut
  <2>6. UpToCursor'
    BY <2>3 DEF UpToCursor
  <2>7. QED
    BY <2>3, <2>5, <2>6
<1>9. CASE ~(Len(page) < limit)
  <2>1. page # <<>> /\ pageCursor(page) \in Cursors
    BY <1>1, <1>9, FullPage
  <2>2. export' = full
    BY <1>9 DEF Stream, out
  <2> DEFINE d == pageCursor(page)
  <2> HIDE DEF d
  <2>3. export' \in ExportStates /\ export'.at = "stream" /\ export'.out = out /\ export'.cursor = d
    BY <1>1, <1>3, <2>1, <2>2 DEF ExportStates, d
  <2>4. ASSUME NEW r \in steady', ~KnownToDiffer PROVE Beyond(r, d) <=> ~Sent(r, out)
    <3>1. Beyond(r, d) <=> (Beyond(r, c) /\ ~Sent(r, page))
      BY <1>1, <1>6, <1>9, <2>4, FullPage DEF d
    <3>2. QED
      BY <1>6, <2>4, <3>1
  <2>5. WrittenOut'
    BY <1>3, <1>4, <1>5, <1>7, <2>3 DEF WrittenOut
  <2>6. UpToCursor'
    BY <1>4, <2>1, <2>3, <2>4 DEF UpToCursor, Watching, d
  <2>7. QED
    BY <2>3, <2>5, <2>6
<1>10. QED
  BY <1>8, <1>9

LEMMA WalkIdle ==
  ASSUME walk.at = "idle", walk' = walk
  PROVE  WalkKnows' /\ CatalogWhole'
BY DEF WalkKnows, CatalogWhole

LEMMA NothingOut ==
  ASSUME export'.out = <<>>, export'.at # "stream",
         export'.at = "done" => "failed" \in export'.audits
  PROVE  UpToCursor' /\ WrittenOut'
<1>1. \A r : ~Sent(r, export'.out) /\ ~Repeated(r, export'.out)
  BY DEF Sent, Repeated
<1>2. Len(export'.out) <= MAX_EXPORT_ROWS
  BY ListsAssumption
<1>3. InOrder(export.out, steady)'
  BY DEF InOrder
<1>4. QED
  BY <1>1, <1>2, <1>3 DEF UpToCursor, WrittenOut

LEMMA BeginKept ==
  ASSUME ListsState, Begin, table' = table, view' = view
  PROVE  /\ Watching /\ steady' \subseteq Rows /\ seen' \subseteq Rows
         /\ grew' \in BOOLEAN /\ shrank' \in BOOLEAN
BY DEF Begin, Watching, ListedNow

LEMMA ExportPreflightKept ==
  ASSUME ListsInv, ExportPreflight
  PROVE  ListsInv'
<1> DEFINE limit == Lesser(PAGE_SIZE, MAX_EXPORT_ROWS)
<1>1. PICK page \in applyKeyset(NoCursor, limit) : Stream(page, limit)
  BY DEF ExportPreflight
<1>2. /\ ListsState /\ OneReader /\ export.out = <<>> /\ walk.at = "idle"
      /\ walk' = walk /\ table' = table /\ view' = view /\ written' = written
      /\ Begin /\ view.reader = "export"
  BY DEF ListsInv, ExportPreflight, OneReader
<1>3. limit \in Nat \ {0} /\ limit <= MAX_EXPORT_ROWS - Len(export.out)
  BY <1>2, ListsAssumption DEF Lesser
<1>4. /\ Watching /\ steady' \subseteq Rows /\ seen' \subseteq Rows
      /\ grew' \in BOOLEAN /\ shrank' \in BOOLEAN
  BY <1>2, BeginKept
<1>5. \A r : ~Sent(r, export.out) /\ ~Repeated(r, export.out) /\ Beyond(r, NoCursor)
  BY <1>2 DEF Sent, Repeated, Beyond
<1>6. \A s, W : s = export.out => InOrder(s, W)
  BY <1>2 DEF InOrder
<1> HIDE DEF limit
<1>7. export' \in ExportStates /\ export'.at # "idle" /\ UpToCursor' /\ WrittenOut'
  BY <1>1, <1>2, <1>3, <1>4, <1>5, <1>6, StreamKept
<1>8. ListsState'
  BY <1>2, <1>4, <1>7 DEF ListsState, Tabled
<1>9. OneReader'
  BY <1>2, <1>7 DEF OneReader
<1>10. QED
  BY <1>2, <1>7, <1>8, <1>9, WalkIdle DEF ListsInv

LEMMA ExportPreflightFailsKept ==
  ASSUME ListsInv, ExportPreflightFails
  PROVE  ListsInv'
<1>1. /\ ListsState /\ OneReader /\ export.out = <<>> /\ walk.at = "idle"
      /\ UNCHANGED <<table, view, walk, steady, seen, grew, shrank, written>>
      /\ view.reader = "export" /\ export \in ExportStates
      /\ export' = [export EXCEPT !.at = "done", !.audits = {"failed"}]
  BY DEF ListsInv, ExportPreflightFails, OneReader, ListsState
<1>2. /\ export' \in ExportStates /\ export'.at = "done" /\ export'.out = <<>> /\ export'.audits = {"failed"}
  BY <1>1 DEF ExportStates
<1>3. ListsState'
  BY <1>1, <1>2 DEF ListsState, Tabled
<1>4. OneReader'
  BY <1>1, <1>2 DEF OneReader
<1>5. QED
  BY <1>1, <1>2, <1>3, <1>4, WalkIdle, NothingOut DEF ListsInv

(* An export that ends without another page, cut short or failed. *)
LEMMA EndedKept ==
  ASSUME ListsInv, export.at = "stream", export' \in ExportStates, export'.at = "done",
         export'.out = export.out, "failed" \in export'.audits \/ export'.truncated,
         UNCHANGED <<table, view, walk, steady, seen, grew, shrank, written>>
  PROVE  ListsInv'
<1>1. ListsState /\ OneReader /\ WrittenOut /\ walk.at = "idle" /\ view.reader = "export"
  BY DEF ListsInv, OneReader
<1>2. KnownToDiffer' <=> KnownToDiffer
  BY SameView
<1>3. WrittenOut' /\ UpToCursor'
  <2>1. ~KnownToDiffer => InOrder(export.out, steady)'
    <3>1. PICK s, W : s = export.out /\ W = steady
      OBVIOUS
    <3>2. ~KnownToDiffer => InOrder(s, W)
      BY <1>1, <3>1 DEF WrittenOut
    <3>3. ~KnownToDiffer => InOrder(s, W)'
      BY <3>2, SameOrder
    <3>4. QED
      BY <3>1, <3>3
  <2>2. QED
    BY <1>1, <1>2, <2>1 DEF WrittenOut, UpToCursor
<1>4. ListsState'
  BY <1>1 DEF ListsState, Tabled
<1>5. OneReader'
  BY <1>1 DEF OneReader
<1>6. QED
  BY <1>1, <1>3, <1>4, <1>5, WalkIdle DEF ListsInv

LEMMA ExportPageKept ==
  ASSUME ListsInv, ExportPage
  PROVE  ListsInv'
<1> DEFINE remaining == MAX_EXPORT_ROWS - Len(export.out)
           limit == Lesser(PAGE_SIZE, remaining)
<1>1. /\ ListsState /\ OneReader /\ UpToCursor /\ WrittenOut /\ walk.at = "idle"
      /\ view.reader = "export" /\ export \in ExportStates /\ export.out \in Seq(Rows)
      /\ export.at = "stream"
      /\ UNCHANGED <<table, view, walk, steady, seen, grew, shrank, written>>
  BY DEF ListsInv, ExportPage, OneReader, ListsState, ExportStates
<1>2. remaining \in Int
  BY <1>1, ListsAssumption
<1>3. CASE remaining <= 0
  <2> DEFINE cut == [export EXCEPT !.truncated = TRUE]
  <2>1. export' = Close(cut)
    BY <1>3 DEF ExportPage
  <2>2. cut \in ExportStates /\ cut.out = export.out /\ cut.truncated
    BY <1>1 DEF ExportStates
  <2> HIDE DEF cut
  <2>3. export' \in ExportStates /\ export'.at = "done" /\ export'.out = export.out /\ export'.truncated
    BY <2>1, <2>2 DEF Close, ExportStates
  <2>4. QED
    BY <1>1, <2>3, EndedKept
<1>4. CASE ~(remaining <= 0)
  <2>1. PICK page \in applyKeyset(export.cursor, limit) : Stream(page, limit)
    BY <1>4 DEF ExportPage
  <2>2. limit \in Nat \ {0} /\ limit <= MAX_EXPORT_ROWS - Len(export.out)
    <3>1. PAGE_SIZE \in Nat \ {0}
      BY ListsAssumption
    <3> HIDE DEF remaining
    <3>2. limit \in Nat \ {0} /\ limit <= remaining
      BY <1>2, <1>4, <3>1 DEF Lesser
    <3>3. QED
      BY <3>2 DEF remaining
  <2>3. /\ Watching /\ export.cursor \in Cursors
        /\ ~KnownToDiffer =>
             /\ \A r \in steady' : ~Repeated(r, export.out) /\ (Beyond(r, export.cursor) <=> ~Sent(r, export.out))
             /\ \A r \in Rows : Sent(r, export.out) => r \in seen'
             /\ \A s, W : s = export.out /\ W = steady' => InOrder(s, W)
    <3>1. steady' = steady /\ seen' = seen
      BY <1>1
    <3>2. Watching /\ export.cursor \in Cursors
      BY <1>1 DEF UpToCursor, Watching
    <3>3. QED
      BY <1>1, <3>1, <3>2 DEF UpToCursor, WrittenOut
  <2> HIDE DEF limit
  <2>4. export' \in ExportStates /\ export'.at # "idle" /\ UpToCursor' /\ WrittenOut'
    BY <1>1, <2>1, <2>2, <2>3, StreamKept
  <2>5. ListsState'
    BY <1>1, <2>4 DEF ListsState, Tabled
  <2>6. OneReader'
    BY <1>1, <2>4 DEF OneReader
  <2>7. QED
    BY <1>1, <2>4, <2>5, <2>6, WalkIdle DEF ListsInv
<1>5. QED
  BY <1>3, <1>4

LEMMA ExportPageFailsKept ==
  ASSUME ListsInv, ExportPageFails
  PROVE  ListsInv'
<1> DEFINE failed == [export EXCEPT !.audits = {"failed"}]
<1>1. /\ export \in ExportStates /\ export.at = "stream" /\ export' = Close(failed)
      /\ UNCHANGED <<table, view, walk, steady, seen, grew, shrank, written>>
  BY DEF ListsInv, ListsState, ExportPageFails
<1>2. failed \in ExportStates /\ failed.out = export.out /\ failed.audits = {"failed"}
  BY <1>1 DEF ExportStates
<1> HIDE DEF failed
<1>3. export' \in ExportStates /\ export'.at = "done" /\ export'.out = export.out /\ "failed" \in export'.audits
  BY <1>1, <1>2 DEF Close, ExportStates
<1>4. QED
  BY <1>1, <1>3, EndedKept

LEMMA RowWrittenKept ==
  ASSUME ListsInv, RowWritten
  PROVE  ListsInv'
<1>1. /\ ListsState /\ OneReader /\ UpToCursor /\ WrittenOut /\ WalkKnows /\ CatalogWhole
      /\ written < MaxWrites /\ written' = written + 1
      /\ UNCHANGED <<view, export, walk>>
  BY DEF ListsInv, RowWritten
<1>2. PICK r \in Rows :
        /\ \E cell \in [key : SortKeys, column : Column] \union (IF table[r] = Unborn THEN {} ELSE {Gone}) :
             cell # table[r] /\ table' = [table EXCEPT ![r] = cell]
        /\ steady' = steady \ {r}
        /\ seen' = IF Listed(r)' THEN seen \union {r} ELSE seen
        /\ grew' = (grew \/ (~Listed(r) /\ Listed(r)'))
        /\ shrank' = (shrank \/ (Listed(r) /\ ~Listed(r)'))
  BY DEF RowWritten
<1>3. PICK cell \in Cells \union {Gone} : table' = [table EXCEPT ![r] = cell]
  BY <1>2 DEF SortKeys, Cells, Keys
<1>4. Tabled' /\ \A q \in Rows : q # r => table'[q] = table[q]
  BY <1>1, <1>3 DEF ListsState, Tabled
<1>5. ListsState'
  <2>1. seen' \subseteq Rows /\ steady' \subseteq Rows /\ grew' \in BOOLEAN /\ shrank' \in BOOLEAN
    BY <1>1, <1>2 DEF ListsState
  <2>2. written' \in 0..MaxWrites
    BY <1>1, ListsAssumption DEF ListsState
  <2>3. QED
    BY <1>1, <1>4, <2>1, <2>2 DEF ListsState
<1>6. OneReader'
  BY <1>1 DEF OneReader
<1>7. /\ \A q \in Rows : q # r => (Listed(q)' <=> Listed(q)) /\ \A c : Beyond(q, c)' <=> Beyond(q, c)
      /\ KnownToDiffer' <=> KnownToDiffer
  BY <1>1, <1>4, SameRow, SameView
<1>8. seen \subseteq seen' /\ steady' \subseteq steady /\ steady' \subseteq Rows /\ r \notin steady'
  BY <1>2, <1>5 DEF ListsState
<1>9. ASSUME ListedNow \subseteq seen, steady \subseteq ListedNow
      PROVE  /\ ListedNow' \subseteq seen' /\ steady' \subseteq ListedNow'
             /\ ~grew' => seen' = seen
             /\ ~shrank' => ListedNow \subseteq ListedNow'
  <2>1. ListedNow' \subseteq seen'
    BY <1>2, <1>7, <1>9 DEF ListedNow
  <2>2. steady' \subseteq ListedNow'
    BY <1>7, <1>8, <1>9 DEF ListedNow
  <2>3. ~grew' => seen' = seen
    <3>1. CASE Listed(r)'
      <4>1. ~grew' => r \in ListedNow
        BY <1>2, <3>1 DEF ListedNow
      <4>2. QED
        BY <1>2, <1>9, <4>1
    <3>2. CASE ~Listed(r)'
      BY <1>2, <3>2
    <3>3. QED
      BY <3>1, <3>2
  <2>4. ~shrank' => ListedNow \subseteq ListedNow'
    BY <1>2, <1>7 DEF ListedNow
  <2>5. QED
    BY <2>1, <2>2, <2>3, <2>4
<1>10. UpToCursor'
  <2>1. SUFFICES ASSUME export.at = "stream" PROVE UpToCursor'
    BY <1>1 DEF UpToCursor
  <2>2. ListedNow \subseteq seen /\ steady \subseteq ListedNow /\ export.cursor \in Cursors
    BY <1>1, <2>1 DEF UpToCursor
  <2>3. ASSUME ~KnownToDiffer, NEW q \in steady'
        PROVE  Beyond(q, export.cursor)' <=> ~Sent(q, export'.out)
    <3>1. PICK c : c = export.cursor
      OBVIOUS
    <3>2. Beyond(q, c) <=> ~Sent(q, export.out)
      BY <1>1, <1>8, <2>1, <2>3, <3>1 DEF UpToCursor
    <3>3. Beyond(q, c)' <=> Beyond(q, c)
      BY <1>7, <1>8
    <3>4. export'.cursor = c
      BY <1>1, <3>1
    <3>5. QED
      BY <1>1, <3>2, <3>3, <3>4
  <2>4. QED
    BY <1>1, <1>7, <1>9, <2>2, <2>3 DEF UpToCursor
<1>11. WrittenOut'
  <2>1. ~KnownToDiffer => InOrder(export.out, steady)'
    <3>1. PICK s, W, V : s = export.out /\ W = steady /\ V = steady'
      OBVIOUS
    <3>2. ~KnownToDiffer => InOrder(s, W)
      BY <1>1, <3>1 DEF WrittenOut
    <3>3. V \in SUBSET W /\ \A a \in V : table'[a] = table[a]
      BY <1>4, <1>8, <3>1
    <3>4. ~KnownToDiffer => InOrder(s, V)'
      BY <1>1, <3>2, <3>3, SameOrder
    <3>5. QED
      BY <1>1, <3>1, <3>4
  <2>2. QED
    BY <1>1, <1>7, <1>8, <2>1 DEF WrittenOut
<1>12. WalkKnows'
  <2>1. SUFFICES ASSUME walk.at \in {"walk", "count"}, walk.page > 1 PROVE WalkKnows'
    BY <1>1 DEF WalkKnows
  <2>2. /\ ListedNow \subseteq seen /\ walk.held \subseteq seen /\ steady \subseteq ListedNow
        /\ ~grew => Cardinality(seen) = walk.first
        /\ ~shrank => walk.held \subseteq ListedNow
        /\ walk.first <= walk.largest
    BY <1>1, <2>1 DEF WalkKnows
  <2>3. (~grew' => ~grew) /\ (~shrank' => ~shrank)
    BY <1>2
  <2>4. QED
    BY <1>1, <1>8, <1>9, <2>2, <2>3 DEF WalkKnows
<1>13. CatalogWhole'
  BY <1>1, <1>2, <1>8 DEF CatalogWhole
<1>14. QED
  BY <1>5, <1>6, <1>10, <1>11, <1>12, <1>13 DEF ListsInv

LEMMA SomePages == maxPages \in Nat \ {0}
<1> DEFINE a == CATALOG_MAX_ITEMS + WalkPage - 1
           q == a \div WalkPage
<1>1. a \in Nat /\ WalkPage \in Nat \ {0} /\ a >= WalkPage
  BY ListsAssumption
<1> HIDE DEF a
<1>2. q \in Int /\ a < WalkPage * (q + 1)
  BY <1>1
<1> HIDE DEF q
<1>3. q >= 1
  BY <1>1, <1>2
<1>4. QED
  BY <1>2, <1>3 DEF maxPages, a, q

(* The order of a grid's pages. *)
Precedes(up, k, i, l, j) ==
  \/ k = l /\ i < j
  \/ k # l /\ up /\ (l = Null \/ (k # Null /\ k < l))
  \/ k # l /\ ~up /\ (k = Null \/ (l # Null /\ k > l))

LEMMA PrecedesIsOrder ==
  ASSUME NEW up, NEW k1 \in Keys, NEW k2 \in Keys, NEW k3 \in Keys,
         NEW i1 \in Rows, NEW i2 \in Rows, NEW i3 \in Rows
  PROVE  /\ ~Precedes(up, k1, i1, k1, i1)
         /\ Precedes(up, k1, i1, k2, i2) \/ Precedes(up, k2, i2, k1, i1) \/ i1 = i2
         /\ Precedes(up, k1, i1, k2, i2) /\ Precedes(up, k2, i2, k3, i3) => Precedes(up, k1, i1, k3, i3)
BY RowsFacts DEF Precedes

LEMMA PagesAreOrdered ==
  ASSUME Tabled, NEW a \in Rows, NEW b \in Rows, NEW c \in Rows, There(a), There(b), There(c)
  PROVE  /\ ~applySortAndPagination(a, a)
         /\ applySortAndPagination(a, b) \/ applySortAndPagination(b, a) \/ a = b
         /\ applySortAndPagination(a, b) /\ applySortAndPagination(b, c) => applySortAndPagination(a, c)
<1>1. table[a].key \in Keys /\ table[b].key \in Keys /\ table[c].key \in Keys
  BY ThereIsACell
<1>2. \A x, y : applySortAndPagination(x, y) <=> Precedes(view.ascending, table[x].key, x, table[y].key, y)
  BY DEF applySortAndPagination, Precedes
<1>3. QED
  BY <1>1, <1>2, PrecedesIsOrder

LEMMA LaterPlace ==
  ASSUME Tabled, NEW S \in SUBSET Rows, \A r \in S : There(r),
         NEW a \in S, NEW b \in S, applySortAndPagination(a, b)
  PROVE  Place(a, S) \in Nat /\ Place(b, S) \in Nat /\ Place(a, S) < Place(b, S)
<1> DEFINE A == {x \in S : applySortAndPagination(x, a)}
           B == {x \in S : applySortAndPagination(x, b)}
<1>1. A \in SUBSET B /\ a \in B /\ a \notin A
  BY PagesAreOrdered
<1>2. B \in SUBSET Rows
  OBVIOUS
<1>3. Place(a, S) = Cardinality(A) /\ Place(b, S) = Cardinality(B)
  BY DEF Place
<1> HIDE DEF A, B
<1>4. IsFiniteSet(B) /\ IsFiniteSet(A) /\ Cardinality(A) <= Cardinality(B)
      /\ Cardinality(A) \in Nat /\ Cardinality(B) \in Nat
  BY <1>1, <1>2, RowsFacts, FS_Subset, FS_CardinalityType
<1>5. Cardinality(A) # Cardinality(B)
  BY <1>1, <1>4, FS_Subset
<1>6. QED
  BY <1>3, <1>4, <1>5

(* As many rows are taken as there is room for. *)
LEMMA TakenFit ==
  ASSUME Tabled, NEW S \in SUBSET Rows, \A r \in S : There(r), NEW room \in Nat
  PROVE  Cardinality({r \in S : Place(r, S) < room}) <= room
<1> DEFINE T == {r \in S : Place(r, S) < room}
           f == [r \in T |-> Place(r, S)]
<1>1. ASSUME NEW r \in S PROVE Place(r, S) \in Nat
  <2>1. {x \in S : applySortAndPagination(x, r)} \in SUBSET Rows
    OBVIOUS
  <2>2. QED
    BY <2>1, RowsFacts, FS_Subset, FS_CardinalityType DEF Place
<1>2. \A r \in T : f[r] \in 0..(room - 1)
  BY <1>1
<1>3. \A a, b \in T : f[a] = f[b] => a = b
  <2>1. SUFFICES ASSUME NEW a \in T, NEW b \in T, a # b PROVE f[a] # f[b]
    OBVIOUS
  <2>2. applySortAndPagination(a, b) \/ applySortAndPagination(b, a)
    BY <2>1, PagesAreOrdered
  <2>3. Place(a, S) # Place(b, S)
    BY <1>1, <2>2, LaterPlace
  <2>4. QED
    BY <2>3
<1>4. f \in Injection(T, 0..(room - 1))
  <2>1. f \in [T -> 0..(room - 1)] /\ DOMAIN f = T
    BY <1>2
  <2> HIDE DEF f, T
  <2>2. QED
    BY <1>3, <2>1 DEF Injection, IsInjective
<1>5. IsFiniteSet(0..(room - 1)) /\ Cardinality(0..(room - 1)) = room
  BY FS_Interval
<1> HIDE DEF f, T
<1>6. Cardinality(T) <= room
  BY <1>4, <1>5, FS_Injection
<1>7. QED
  BY <1>6 DEF T

LEMMA ListFinite ==
  /\ ListedNow \in SUBSET Rows /\ IsFiniteSet(ListedNow) /\ Cardinality(ListedNow) \in Nat
  /\ \A r \in ListedNow : There(r)
<1>1. ListedNow \in SUBSET Rows /\ \A r \in ListedNow : There(r)
  BY DEF ListedNow, Listed
<1>2. QED
  BY <1>1, RowsFacts, FS_Subset, FS_CardinalityType

LEMMA NoWalkTyped ==
  ASSUME NEW n \in 1..MAX_WALKS, NEW a \in {"idle", "walk"}
  PROVE  [NoWalk EXCEPT !.at = a, !.walk = n] \in WalkStates
<1>1. 1 \in 1..maxPages
  BY SomePages
<1>2. QED
  BY <1>1 DEF NoWalk, WalkStates

LEMMA AnswerTyped ==
  ASSUME NEW w \in WalkStates
  PROVE  /\ Answer(w) \in WalkStates /\ Answer(w).at = "done" /\ Answer(w).held = w.held
         /\ ~Answer(w).truncated => ~(Cardinality(w.held) < Reported(w))
<1> DEFINE b == Cardinality(w.held) < Reported(w)
<1>1. b \in BOOLEAN
  OBVIOUS
<1>2. Answer(w) = [w EXCEPT !.at = "done", !.truncated = b]
  BY DEF Answer
<1>3. ~b => ~(Cardinality(w.held) < Reported(w))
  OBVIOUS
<1> HIDE DEF b
<1>4. /\ Answer(w) \in WalkStates /\ Answer(w).at = "done" /\ Answer(w).held = w.held
      /\ Answer(w).truncated = b
  BY <1>1, <1>2 DEF WalkStates
<1>5. QED
  BY <1>3, <1>4

(* What is known of the list when a page has been read: its first page       *)
(* counts it, a later one has the first one's count.                         *)
KnownOfList(count) ==
  /\ walk.held \subseteq seen'
  /\ ~grew' => Cardinality(seen') = IF walk.page = 1 THEN count ELSE walk.first
  /\ ~shrank' => walk.held \subseteq ListedNow
  /\ walk.page > 1 => walk.first <= walk.largest

LEMMA PageReadKept ==
  ASSUME ListsState, Watching, seen' \subseteq Rows, NEW rows \in SUBSET ListedNow,
         KnownOfList(Cardinality(ListedNow)), PageRead(rows, Cardinality(ListedNow))
  PROVE  /\ walk' \in WalkStates /\ Cardinality(walk'.held) <= CATALOG_MAX_ITEMS
         /\ walk'.at \in {"walk", "done"} /\ (walk'.at = "walk" /\ walk'.page = 1 => walk'.held = {})
         /\ WalkKnows' /\ CatalogWhole'
<1> DEFINE count == Cardinality(ListedNow)
           page == walk.page
           moves == page > 1 /\ count # walk.first
           added == rows \ walk.held
           room == CATALOG_MAX_ITEMS - Cardinality(walk.held)
           taken == IF Cardinality(added) <= room THEN added
                    ELSE {r \in added : Place(r, added) < room}
           held == walk.held \union taken
           total == Greater(count, Cardinality(held))
           first == IF page = 1 THEN count ELSE walk.first
           largest == Greater(walk.largest, total)
           w == [walk EXCEPT !.at = "walk", !.held = held, !.moved = @ \/ moves, !.total = total,
                             !.largest = Greater(@, total), !.first = IF page = 1 THEN count ELSE @]
           stop == \/ Cardinality(held) >= total \/ Cardinality(held) >= CATALOG_MAX_ITEMS
                   \/ Cardinality(rows) < WalkPage \/ taken = {} \/ page = maxPages
<1>1. walk' = IF moves /\ walk.walk < MAX_WALKS
              THEN [NoWalk EXCEPT !.at = "walk", !.walk = walk.walk + 1]
              ELSE IF stop THEN Answer(w) ELSE [w EXCEPT !.page = page + 1]
  BY DEF PageRead
<1>2. /\ Tabled /\ walk \in WalkStates /\ walk.held \in SUBSET Rows
      /\ Cardinality(walk.held) <= CATALOG_MAX_ITEMS /\ CATALOG_MAX_ITEMS \in Nat
      /\ walk.largest \in Nat /\ walk.first \in Nat /\ page \in 1..maxPages /\ walk.walk \in 1..MAX_WALKS
      /\ maxPages \in Nat \ {0} /\ MAX_WALKS \in Nat
  BY ListsAssumption, SomePages DEF ListsState, WalkStates
<1>3. count \in Nat
  BY ListFinite
<1>4. IsFiniteSet(walk.held) /\ Cardinality(walk.held) \in Nat /\ room \in Nat
  BY <1>2, RowsFacts, FS_Subset, FS_CardinalityType
<1>5. taken \in SUBSET ListedNow /\ IsFiniteSet(taken) /\ Cardinality(taken) \in Nat /\ Cardinality(taken) <= room
  <2>1. added \in SUBSET Rows /\ \A r \in added : There(r)
    BY ListFinite
  <2>2. taken \in SUBSET added
    OBVIOUS
  <2>3. Cardinality(taken) <= room
    <3>1. CASE Cardinality(added) <= room
      BY <3>1
    <3>2. CASE ~(Cardinality(added) <= room)
      <4>1. taken = {r \in added : Place(r, added) < room}
        BY <3>2
      <4> HIDE DEF added, room, taken
      <4>2. QED
        BY <1>2, <1>4, <2>1, <4>1, TakenFit
    <3>3. QED
      BY <3>1, <3>2
  <2>4. taken \in SUBSET Rows
    BY <2>1, <2>2
  <2> HIDE DEF taken
  <2>5. IsFiniteSet(taken) /\ Cardinality(taken) \in Nat
    BY <2>4, RowsFacts, FS_Subset, FS_CardinalityType
  <2>6. QED
    BY <2>2, <2>3, <2>5
<1>6. /\ held \in SUBSET Rows /\ IsFiniteSet(held) /\ Cardinality(held) \in Nat
      /\ Cardinality(held) <= CATALOG_MAX_ITEMS
  <2> HIDE DEF taken
  <2>1. /\ IsFiniteSet(held) /\ IsFiniteSet(walk.held \cap taken)
        /\ Cardinality(held) = Cardinality(walk.held) + Cardinality(taken) - Cardinality(walk.held \cap taken)
    BY <1>4, <1>5, FS_Union, FS_Intersection
  <2>2. Cardinality(walk.held \cap taken) \in Nat /\ Cardinality(held) \in Nat
    BY <2>1, FS_CardinalityType
  <2>3. Cardinality(held) <= Cardinality(walk.held) + room
    BY <1>4, <1>5, <2>1, <2>2
  <2>4. QED
    BY <1>2, <1>4, <1>5, <2>1, <2>2, <2>3, ListFinite
<1>7. /\ held \subseteq seen' /\ (~shrank' => held \subseteq ListedNow)
  BY <1>5 DEF KnownOfList, Watching
<1> HIDE DEF taken, held, room, added
<1>8. /\ total \in Nat /\ total >= count /\ total >= Cardinality(held)
      /\ largest \in Nat /\ largest >= total /\ largest >= walk.largest
      /\ first \in Nat /\ first <= largest
  BY <1>2, <1>3, <1>6 DEF Greater, KnownOfList
<1> HIDE DEF count, page, total, first, largest
<1>9. /\ w \in WalkStates /\ w.at = "walk" /\ w.held = held /\ w.total = total /\ w.largest = largest
      /\ w.first = first /\ w.page = page /\ w.walk = walk.walk /\ w.moved = (walk.moved \/ moves)
  <2> HIDE DEF moves
  <2>1. (walk.moved \/ moves) \in BOOLEAN
    OBVIOUS
  <2>2. QED
    BY <1>2, <1>6, <1>8, <2>1 DEF WalkStates, page, first, largest
<1>10. /\ ListedNow' = ListedNow /\ ListedNow \subseteq seen' /\ steady' \subseteq ListedNow
       /\ ~grew' => Cardinality(seen') = first
  BY SameList DEF Watching, KnownOfList, first, count, page
<1>11. ~(walk.moved \/ moves) => count = first
  BY <1>2 DEF first, page
<1> HIDE DEF w
<1>12. CASE moves /\ walk.walk < MAX_WALKS
  <2>1. walk' = [NoWalk EXCEPT !.at = "walk", !.walk = walk.walk + 1]
    BY <1>1, <1>12
  <2>2. walk.walk + 1 \in 1..MAX_WALKS
    BY <1>2, <1>12
  <2>3. walk' \in WalkStates
    BY <2>1, <2>2, NoWalkTyped
  <2>4. walk'.at = "walk" /\ walk'.page = 1 /\ walk'.held = {}
    BY <2>1 DEF NoWalk
  <2>5. Cardinality(walk'.held) <= CATALOG_MAX_ITEMS
    BY <1>2, <2>4, FS_EmptySet
  <2>6. QED
    BY <2>3, <2>4, <2>5 DEF WalkKnows, CatalogWhole
<1>13. CASE ~(moves /\ walk.walk < MAX_WALKS) /\ stop
  <2>1. walk' = Answer(w)
    BY <1>1, <1>13
  <2>2. /\ walk' \in WalkStates /\ walk'.at = "done" /\ walk'.held = held
        /\ ~walk'.truncated => ~(Cardinality(held) < Reported(w))
    BY <1>9, <2>1, AnswerTyped
  <2>3. Reported(w) \in Nat /\ Reported(w) >= count /\ Reported(w) >= first
    <3>1. CASE walk.moved \/ moves
      <4>1. Reported(w) = Greater(largest, Cardinality(held))
        BY <1>9, <3>1 DEF Reported
      <4>2. QED
        BY <1>3, <1>6, <1>8, <4>1 DEF Greater
    <3>2. CASE ~(walk.moved \/ moves)
      BY <1>3, <1>8, <1>9, <1>11, <3>2 DEF Reported
    <3>3. QED
      BY <3>1, <3>2
  <2>4. ASSUME ~walk'.truncated, ~grew' PROVE steady' \subseteq held
    <3>1. Cardinality(held) >= Cardinality(seen')
      BY <1>6, <1>8, <1>10, <2>2, <2>3, <2>4
    <3>2. IsFiniteSet(seen') /\ Cardinality(seen') \in Nat
      BY RowsFacts, FS_Subset, FS_CardinalityType
    <3>3. held = seen'
      BY <1>6, <1>7, <3>1, <3>2, FS_Subset
    <3>4. QED
      BY <1>10, <3>3
  <2>5. ASSUME ~walk'.truncated, ~shrank' PROVE steady' \subseteq held
    <3>1. Cardinality(held) >= Cardinality(ListedNow)
      BY <1>3, <1>6, <2>2, <2>3, <2>5 DEF count
    <3>2. held = ListedNow
      BY <1>6, <1>7, <2>5, <3>1, ListFinite, FS_Subset
    <3>3. QED
      BY <1>10, <3>2
  <2>6. CatalogWhole'
    BY <2>2, <2>4, <2>5 DEF CatalogWhole
  <2>7. QED
    BY <1>6, <2>2, <2>6 DEF WalkKnows
<1>14. CASE ~(moves /\ walk.walk < MAX_WALKS) /\ ~stop
  <2>1. walk' = [w EXCEPT !.page = page + 1]
    BY <1>1, <1>14
  <2>2. page \in Nat /\ page >= 1 /\ page + 1 \in 1..maxPages
    BY <1>2, <1>14
  <2>3. /\ walk' \in WalkStates /\ walk'.at = "walk" /\ walk'.held = held /\ walk'.first = first
        /\ walk'.largest = largest /\ walk'.page = page + 1
    BY <1>9, <2>1, <2>2 DEF WalkStates
  <2>4. WalkKnows'
    BY <1>7, <1>8, <1>10, <2>3 DEF WalkKnows
  <2>5. QED
    BY <1>6, <2>2, <2>3, <2>4 DEF CatalogWhole
<1>15. QED
  BY <1>12, <1>13, <1>14

LEMMA ExportIdle ==
  ASSUME ListsInv, export' = export, view.reader = "walk"
  PROVE  /\ UpToCursor' /\ WrittenOut'
         /\ export \in ExportStates /\ export.at = "idle" /\ export.out = <<>>
<1>1. export \in ExportStates /\ export.at = "idle" /\ export.out = <<>>
  BY DEF ListsInv, ListsState, OneReader
<1>2. QED
  BY <1>1, NothingOut

(* A page of a walk's, read by a statement that also counts. *)
LEMMA ReadKept ==
  ASSUME ListsInv, view.reader = "walk", walk.at \in {"idle", "walk", "count"},
         UNCHANGED <<table, view, export, written>>,
         Watching, steady' \subseteq Rows, seen' \subseteq Rows, grew' \in BOOLEAN, shrank' \in BOOLEAN,
         NEW rows \in SUBSET ListedNow,
         KnownOfList(Cardinality(ListedNow)), PageRead(rows, Cardinality(ListedNow))
  PROVE  ListsInv'
<1>1. ListsState /\ OneReader
  BY DEF ListsInv
<1>2. /\ walk' \in WalkStates /\ Cardinality(walk'.held) <= CATALOG_MAX_ITEMS
      /\ walk'.at \in {"walk", "done"} /\ (walk'.at = "walk" /\ walk'.page = 1 => walk'.held = {})
      /\ WalkKnows' /\ CatalogWhole'
  BY <1>1, PageReadKept
<1>3. UpToCursor' /\ WrittenOut' /\ export.at = "idle"
  BY ExportIdle
<1>4. ListsState'
  BY <1>1, <1>2 DEF ListsState, Tabled
<1>5. OneReader'
  BY <1>1, <1>2, <1>3 DEF OneReader
<1>6. QED
  BY <1>2, <1>3, <1>4, <1>5 DEF ListsInv

LEMMA WalkPagesKept ==
  ASSUME ListsInv, WalkPages
  PROVE  ListsInv'
<1>1. /\ ListsState /\ OneReader /\ WalkKnows /\ walk \in WalkStates /\ walk.held \subseteq Rows
      /\ view.reader = "walk" /\ walk.at \in {"idle", "walk"}
      /\ UNCHANGED <<table, view, export, written>>
      /\ walk.page \in Nat /\ walk.page >= 1
  BY SomePages DEF ListsInv, WalkPages, ListsState, WalkStates
<1>2. PageItems(walk.page) \in SUBSET ListedNow
  BY DEF PageItems
<1>3. CASE walk.page = 1
  <2>1. Begin /\ PageRead(PageItems(walk.page), Cardinality(ListedNow)) /\ walk.held = {}
    BY <1>1, <1>3 DEF WalkPages, OneReader
  <2>2. /\ Watching /\ steady' \subseteq Rows /\ seen' \subseteq Rows
        /\ grew' \in BOOLEAN /\ shrank' \in BOOLEAN
    BY <1>1, <2>1, BeginKept
  <2>3. KnownOfList(Cardinality(ListedNow))
    BY <1>3, <2>1 DEF KnownOfList, Begin
  <2>4. QED
    BY <1>1, <1>2, <2>1, <2>2, <2>3, ReadKept
<1>4. CASE walk.page # 1
  <2>1. walk.page > 1 /\ walk.at = "walk" /\ UNCHANGED <<steady, seen, grew, shrank>>
    BY <1>1, <1>4 DEF WalkPages, OneReader
  <2>2. /\ ListedNow \subseteq seen /\ walk.held \subseteq seen /\ steady \subseteq ListedNow
        /\ ~grew => Cardinality(seen) = walk.first
        /\ ~shrank => walk.held \subseteq ListedNow
        /\ walk.first <= walk.largest
    BY <1>1, <2>1 DEF WalkKnows
  <2>3. CASE PageItems(walk.page) = {}
    <3>1. walk' = [walk EXCEPT !.at = "count"]
      BY <2>1, <2>3 DEF WalkPages
    <3>2. /\ walk' \in WalkStates /\ walk'.at = "count" /\ walk'.page = walk.page /\ walk'.held = walk.held
          /\ walk'.first = walk.first /\ walk'.largest = walk.largest
      BY <1>1, <3>1 DEF WalkStates
    <3>3. UpToCursor' /\ WrittenOut' /\ export.at = "idle"
      BY <1>1, ExportIdle
    <3>4. ListsState'
      BY <1>1, <2>1, <3>2 DEF ListsState, Tabled
    <3>5. OneReader'
      BY <1>1, <2>1, <3>2, <3>3 DEF OneReader
    <3>6. WalkKnows' /\ CatalogWhole'
      <4>1. ListedNow' = ListedNow
        BY <1>1, SameList
      <4>2. QED
        BY <2>1, <2>2, <3>2, <4>1 DEF WalkKnows, CatalogWhole
    <3>7. QED
      BY <3>3, <3>4, <3>5, <3>6 DEF ListsInv
  <2>4. CASE PageItems(walk.page) # {}
    <3>1. PageRead(PageItems(walk.page), Cardinality(ListedNow))
      BY <2>4 DEF WalkPages
    <3>2. /\ Watching /\ steady' \subseteq Rows /\ seen' \subseteq Rows
          /\ grew' \in BOOLEAN /\ shrank' \in BOOLEAN
      BY <1>1, <2>1, <2>2 DEF Watching, ListsState
    <3>3. KnownOfList(Cardinality(ListedNow))
      BY <1>4, <2>1, <2>2 DEF KnownOfList
    <3>4. QED
      BY <1>1, <1>2, <3>1, <3>2, <3>3, ReadKept
  <2>5. QED
    BY <2>3, <2>4
<1>5. QED
  BY <1>3, <1>4

LEMMA executeListWithTotalKept ==
  ASSUME ListsInv, executeListWithTotal
  PROVE  ListsInv'
<1>1. /\ ListsState /\ OneReader /\ WalkKnows /\ walk.at = "count"
      /\ view.reader = "walk" /\ walk.page \in Nat /\ walk.page > 1
      /\ UNCHANGED <<table, view, export, steady, seen, grew, shrank, written>>
      /\ PageRead({}, Cardinality(ListedNow))
  BY SomePages DEF ListsInv, executeListWithTotal, OneReader, ListsState, WalkStates
<1>2. /\ ListedNow \subseteq seen /\ walk.held \subseteq seen /\ steady \subseteq ListedNow
      /\ ~grew => Cardinality(seen) = walk.first
      /\ ~shrank => walk.held \subseteq ListedNow
      /\ walk.first <= walk.largest
  BY <1>1 DEF WalkKnows
<1>3. /\ Watching /\ steady' \subseteq Rows /\ seen' \subseteq Rows
      /\ grew' \in BOOLEAN /\ shrank' \in BOOLEAN
  BY <1>1, <1>2 DEF Watching, ListsState
<1>4. KnownOfList(Cardinality(ListedNow))
  BY <1>1, <1>2 DEF KnownOfList
<1>5. QED
  BY <1>1, <1>3, <1>4, ReadKept

LEMMA WalkFailsKept ==
  ASSUME ListsInv, WalkFails
  PROVE  ListsInv'
<1>1. /\ ListsState /\ OneReader /\ walk \in WalkStates /\ view.reader = "walk"
      /\ walk' = [walk EXCEPT !.at = "failed"]
      /\ UNCHANGED <<table, view, export, steady, seen, grew, shrank, written>>
  BY DEF ListsInv, WalkFails, ListsState
<1>2. walk' \in WalkStates /\ walk'.at = "failed" /\ walk'.held = walk.held
  BY <1>1 DEF WalkStates
<1>3. UpToCursor' /\ WrittenOut' /\ export.at = "idle"
  BY <1>1, ExportIdle
<1>4. ListsState'
  BY <1>1, <1>2 DEF ListsState, Tabled
<1>5. OneReader'
  BY <1>1, <1>2, <1>3 DEF OneReader
<1>6. QED
  BY <1>2, <1>3, <1>4, <1>5 DEF ListsInv, WalkKnows, CatalogWhole

LEMMA ListsInitInv ==
  ASSUME ListsInit
  PROVE  ListsInv
<1>1. /\ table \in Seeds /\ view \in Views /\ export = NoExport /\ walk = NoWalk
      /\ steady = {} /\ seen = {} /\ grew = FALSE /\ shrank = FALSE /\ written = 0
  BY DEF ListsInit
<1>2. Tabled
  BY <1>1, ListsAssumption DEF Tabled, Cells, Keys
<1>3. export \in ExportStates /\ export.at = "idle" /\ export.out = <<>>
  BY <1>1 DEF NoExport, ExportStates
<1>4. walk \in WalkStates /\ walk.at = "idle" /\ walk.page = 1 /\ walk.held = {}
  <2>1. 1 \in 1..MAX_WALKS /\ 1 \in 1..maxPages
    BY ListsAssumption, SomePages
  <2>2. QED
    BY <1>1, <2>1 DEF NoWalk, WalkStates
<1>5. ListsState
  <2>1. Cardinality(walk.held) <= CATALOG_MAX_ITEMS
    BY <1>4, ListsAssumption, FS_EmptySet
  <2>2. written \in 0..MaxWrites
    BY <1>1, ListsAssumption
  <2>3. grew \in BOOLEAN /\ shrank \in BOOLEAN
    BY <1>1
  <2>4. QED
    BY <1>1, <1>2, <1>3, <1>4, <2>1, <2>2, <2>3 DEF ListsState
<1>6. WrittenOut
  <2>1. \A r : ~Sent(r, export.out) /\ ~Repeated(r, export.out)
    BY <1>3 DEF Sent, Repeated
  <2>2. InOrder(export.out, steady)
    BY <1>1 DEF InOrder
  <2>3. QED
    BY <1>1, <1>3, <2>1, <2>2, ListsAssumption DEF WrittenOut
<1>7. QED
  BY <1>3, <1>4, <1>5, <1>6 DEF ListsInv, OneReader, UpToCursor, WalkKnows, CatalogWhole

LEMMA ListsNextInv ==
  ASSUME ListsInv, [ListsNext]_listVars
  PROVE  ListsInv'
<1>1. CASE UNCHANGED listVars
  <2>1. /\ ListedNow' = ListedNow /\ (KnownToDiffer' <=> KnownToDiffer)
        /\ \A r, c : Beyond(r, c)' <=> Beyond(r, c)
    BY <1>1, SameList, SameView, SameRow DEF listVars
  <2>2. ListsState' /\ OneReader' /\ CatalogWhole'
    BY <1>1, <2>1 DEF ListsInv, listVars, ListsState, Tabled, OneReader, CatalogWhole
  <2>3. WalkKnows'
    BY <1>1, <2>1 DEF ListsInv, listVars, WalkKnows
  <2>4. UpToCursor'
    <3>1. PICK c : c = export.cursor
      OBVIOUS
    <3>2. QED
      BY <1>1, <2>1, <3>1 DEF ListsInv, listVars, UpToCursor
  <2>5. WrittenOut'
    <3>1. PICK s, W : s = export.out /\ W = steady
      OBVIOUS
    <3>2. ~KnownToDiffer => InOrder(s, W)
      BY <3>1 DEF ListsInv, WrittenOut
    <3>3. ~KnownToDiffer => InOrder(s, W)'
      BY <1>1, <3>2, SameOrder DEF listVars
    <3>4. ~KnownToDiffer => InOrder(export.out, steady)'
      BY <1>1, <3>1, <3>3 DEF listVars
    <3>5. QED
      BY <1>1, <2>1, <3>4 DEF ListsInv, listVars, WrittenOut
  <2>6. QED
    BY <2>2, <2>3, <2>4, <2>5 DEF ListsInv
<1>2. QED
  BY <1>1, ExportPreflightKept, ExportPreflightFailsKept, ExportPageKept, ExportPageFailsKept,
     WalkPagesKept, executeListWithTotalKept, WalkFailsKept, RowWrittenKept DEF ListsNext

LEMMA ListsInvHolds == ListsSpec => []ListsInv
BY ListsInitInv, ListsNextInv, PTL DEF ListsSpec

(* The readers' state keeps its type; in particular, a catalog is never      *)
(* larger than CATALOG_MAX_ITEMS and is never asked for a page beyond the    *)
(* last (walkPages).                                                         *)
THEOREM ListsTyped == ListsSpec => []ListsTypeOK
<1>1. ListsInv => ListsTypeOK
  BY DEF ListsInv, ListsState, ListsTypeOK, Tabled, Cells, Keys, ExportStates, WalkStates
<1>2. QED
  BY <1>1, ListsInvHolds, PTL

LEMMA SentTimes ==
  ASSUME NEW s \in Seq(Rows), NEW r, ~Repeated(r, s)
  PROVE  /\ Cardinality({i \in DOMAIN s : s[i] = r}) <= 1
         /\ Sent(r, s) => Cardinality({i \in DOMAIN s : s[i] = r}) = 1
<1> DEFINE T == {i \in DOMAIN s : s[i] = r}
<1>1. CASE Sent(r, s)
  <2>1. PICK i \in DOMAIN s : s[i] = r
    BY <1>1 DEF Sent
  <2>2. T = {i}
    BY <2>1 DEF Repeated
  <2> HIDE DEF T
  <2>3. Cardinality(T) = 1
    BY <2>2, FS_Singleton
  <2>4. QED
    BY <2>3 DEF T
<1>2. CASE ~Sent(r, s)
  <2>1. T = {}
    BY <1>2 DEF Sent
  <2> HIDE DEF T
  <2>2. Cardinality(T) = 0
    BY <2>1, FS_EmptySet
  <2>3. QED
    BY <1>2, <2>2 DEF T
<1>3. QED
  BY <1>1, <1>2

(* Whatever others write while an export streams page after page, it is the  *)
(* grid: a row that stayed as it was is in a whole export exactly once and   *)
(* in no export twice, behind those that sort before it, and every row in    *)
(* it was listed at some moment of the export (applyKeyset, the export       *)
(* route's loop).                                                            *)
THEOREM ExportsTheView == ListsSpec => []ExportIsTheView
<1>1. ASSUME ListsInv PROVE ExportIsTheView
  <2>1. export.out \in Seq(Rows) /\ WrittenOut
    BY <1>1 DEF ListsInv, ListsState, ExportStates
  <2>2. ASSUME ~KnownToDiffer, NEW r \in steady
        PROVE  /\ Cardinality({i \in DOMAIN export.out : export.out[i] = r}) <= 1
               /\ (export.at = "done" /\ "failed" \notin export.audits /\ ~export.truncated)
                    => Cardinality({i \in DOMAIN export.out : export.out[i] = r}) = 1
    BY <2>1, <2>2, SentTimes DEF WrittenOut
  <2>3. ASSUME ~KnownToDiffer PROVE Range(export.out) \subseteq seen
    <3>1. ASSUME NEW i \in DOMAIN export.out PROVE export.out[i] \in seen
      BY <2>1, <2>3, <3>1 DEF WrittenOut, Sent
    <3>2. QED
      BY <3>1 DEF Range
  <2>4. QED
    BY <2>1, <2>2, <2>3 DEF ExportIsTheView, WrittenOut, InOrder
<1>2. QED
  BY <1>1, ListsInvHolds, PTL

(* Whatever others write while fetchAllPages walks a catalog, restarting     *)
(* when the count moves, an answer that does not say it is cut short has     *)
(* every row that stayed as it was, unless rows both came and went.          *)
THEOREM CatalogIsWhole == ListsSpec => []CatalogWhole
BY ListsInvHolds, PTL DEF ListsInv

(***************************************************************************)
(* The platform: its parts side by side                                    *)
(***************************************************************************)
LEMMA PlatformStarts ==
  ASSUME PlatformInit
  PROVE  /\ SignUpInit /\ OrganizationsInit /\ SsoInit /\ McpInit /\ ListsInit /\ GridInit
         /\ part \in Parts
BY DEF PlatformInit

(* A step of one part is none of another's. *)
LEMMA PlatformSteps ==
  ASSUME [PlatformNext]_platformVars
  PROVE  /\ [SignUpNext]_signUpVars /\ [OrganizationsNext]_orgVars /\ [SsoNext]_ssoVars
         /\ [McpNext]_mcpVars /\ [ListsNext]_listVars /\ [GridNext]_gridVars
         /\ part' = part
<1>1. CASE SignUpStep
  BY <1>1 DEF SignUpStep
<1>2. CASE OrganizationsStep
  BY <1>2 DEF OrganizationsStep
<1>3. CASE SsoStep
  BY <1>3 DEF SsoStep
<1>4. CASE McpStep
  BY <1>4 DEF McpStep
<1>5. CASE ListsStep
  BY <1>5 DEF ListsStep
<1>6. CASE GridStep
  BY <1>6 DEF GridStep
<1>7. CASE UNCHANGED platformVars
  BY <1>7 DEF platformVars
<1>8. QED
  BY <1>1, <1>2, <1>3, <1>4, <1>5, <1>6, <1>7 DEF PlatformNext

(* Put together, every part still does only what its own specification       *)
(* allows: whatever is proved of a part alone is true of the platform.       *)
THEOREM PlatformImplementsParts ==
  PlatformSpec => /\ SignUpSpec /\ OrganizationsSpec /\ SsoSpec
                  /\ McpSpec /\ ListsSpec /\ GridSpec
BY PlatformStarts, PlatformSteps, PTL
DEF PlatformSpec, SignUpSpec, OrganizationsSpec, SsoSpec, McpSpec, ListsSpec, GridSpec

LEMMA PartIsFixed == PlatformSpec => [](part \in Parts)
<1>1. (part \in Parts) /\ [PlatformNext]_platformVars => (part \in Parts)'
  BY PlatformSteps
<1>2. QED
  BY <1>1, PlatformStarts, PTL DEF PlatformSpec

(* The state of every part of the platform keeps its type. *)
THEOREM PlatformTyped == PlatformSpec => []PlatformTypeOK
<1>1. ASSUME part \in Parts, SignUpTypeOK, OrganizationsTypeOK, SsoTypeOK, McpTypeOK, ListsTypeOK, GridTypeOK
      PROVE  PlatformTypeOK
  BY <1>1 DEF Parts, PlatformTypeOK
<1>2. QED
  BY <1>1, PartIsFixed, PlatformImplementsParts, SignUpTyped, OrganizationsTyped, SsoTyped, McpTyped,
     ListsTyped, GridTyped, PTL

(* What the platform promises of its accounts, organizations, sign-ons,      *)
(* agents, lists and bulk actions, together and at every moment.             *)
THEOREM PlatformSafe ==
  PlatformSpec => [](/\ NoStrandedMembership /\ BanIsAdministrators /\ ErasedStaysDeleted /\ HeldForApprover
                     /\ OneDefaultOrganization /\ SavedAsShown /\ SweptAppSignedOut
                     /\ QuotaHeld /\ AgentStandsWhole /\ ExportIsTheView /\ CatalogWhole
                     /\ ActsOnWhatWasChosen)
BY PlatformImplementsParts, MembershipsAreNotStranded, DeletionRestoresTheBan, ErasedIsFinal, RestoredIsHeld,
   DefaultIsUnique, SavesAreAsShown, SweepSignsOut, QuotaIsHard, AgentsStandWhole, ExportsTheView,
   CatalogIsWhole, BatchIsAsChosen, PTL
=============================================================================
