------------------------------ MODULE BankImport ------------------------------
(***************************************************************************)
(* Importing bank statements. A file whose layout is known is imported at  *)
(* once; one whose layout is not waits in memory, with at most one for     *)
(* each person and MaxPending in all, while its uploader maps the columns, *)
(* previews and saves the mapping. An import reads the layout's ignore     *)
(* rules, and then stores its lines in one transaction, which keeps those  *)
(* whose fingerprint is new; the rules, and the state of a line, change    *)
(* meanwhile.                                                              *)
(*                                                                         *)
(* Time is not counted: an upload waiting for its mapping may expire at    *)
(* any moment, the oldest first. Imports of one layout queue on the row of *)
(* the layout, and so does a new rule, whose row refers to it.             *)
(***************************************************************************)
EXTENDS BankFile

CONSTANTS
  Users, Requests,
  Files,        \* names of the files people have
  File,         \* what each holds
  Mappings,     \* the mappings a person may choose
  Texts,        \* what an ignore rule may look for
  Containing,   \* the descriptions that contain each text
  MaxPending,   \* uploads waiting for a mapping, at most
  Attempts,     \* times a deadlocked import is run
  MaxTokens,    \* bound on the uploads of unknown layouts
  MaxImports,   \* bound on the imports begun
  MaxFaults,    \* bound on the deadlocks, failures, expiries and restarts
  MaxChanges    \* bound on the decisions people take on lines and rules

ASSUME FilesAssumption == DOMAIN File = Files /\ \A file \in Files : IsFile(File[file])

ASSUME BoundsAssumption == MaxPending \in Nat \ {0} /\ Attempts \in Nat \ {0}

VARIABLES
  formats,  \* bank_formats: the mapping of each known layout
  rules,    \* bank_ignore_rules: of which layout, and what to look for
  imports,  \* bank_imports, in the order they were stored
  lines,    \* bank_lines: the fingerprint, the import and the state of each
  pending,  \* uploads in memory; their tokens count up
  screen,   \* each person's mapping screen: its upload and what was previewed
  req,      \* the requests that import a file
  used      \* of each bounded thing, how many so far

vars == <<formats, rules, imports, lines, pending, screen, req, used>>

Signature(file) == File[file].header
Signatures == {Signature(file) : file \in Files}

AllMappings == Mappings \cup {Guess(File[file]) : file \in Files}

(* Each file as each mapping reads it. *)
Reading == [file \in Files |-> [m \in AllMappings |-> Apply(File[file], m)]]

Idle == [pc |-> "idle"]
NoScreen == [token |-> 0, gone |-> FALSE, preview |-> {}]

Init ==
  /\ formats = {}
  /\ rules = {}
  /\ imports = <<>>
  /\ lines = {}
  /\ pending = {}
  /\ screen = [u \in Users |-> NoScreen]
  /\ req = [r \in Requests |-> Idle]
  /\ used = [tokens |-> 0, imports |-> 0, faults |-> 0, changes |-> 0]

Use(what, bound) == used[what] < bound /\ used' = [used EXCEPT ![what] = @ + 1]

Known(sig) == {f \in formats : f.sig = sig}

Inserting(r) == req[r].pc = "insert"

(* The row of the layout is locked by a transaction that is storing lines. *)
Locked(sig) == \E r \in Requests : Inserting(r) /\ req[r].sig = sig

-----------------------------------------------------------------------------
(* Mutant of Put: it is the newest of the others that makes room. *)
PutDroppingNewest(u, file, token) ==
  LET others == {p \in pending : p.user # u}
      older(p) == {q \in others : q.token < p.token}
  IN  pending' = {p \in others : Cardinality(older(p)) < MaxPending - 1}
                   \cup {[token |-> token, user |-> u, file |-> file]}

(* An upload takes the place of its uploader's earlier one. Of the others, as
   many of the newest stay as leave room for it. *)
Put(u, file, token) ==
  LET others == {p \in pending : p.user # u}
      newer(p) == {q \in others : q.token > p.token}
  IN  pending' = {p \in others : Cardinality(newer(p)) < MaxPending - 1}
                   \cup {[token |-> token, user |-> u, file |-> file]}

(* Only to the one who uploaded it. *)
Get(token, u) == {p \in pending : p.token = token /\ p.user = u}

ImportWith(file, format) == [pc |-> "rules", file |-> file, sig |-> format.sig, mapping |-> format.mapping]

(* A file of a known layout. *)
UploadKnown(r, file) ==
  /\ req[r] = Idle
  /\ Use("imports", MaxImports)
  /\ \E f \in Known(Signature(file)) : req' = [req EXCEPT ![r] = ImportWith(file, f)]
  /\ UNCHANGED <<formats, rules, imports, lines, pending, screen>>

IfFits(file, m) == IF Fits(m, Len(Signature(file))) THEN {m} ELSE {}

(* A file of an unknown one: its mapping screen opens with a guess, and the
   guess's preview if it fits. *)
UploadUnknown(u, file) ==
  /\ Known(Signature(file)) = {}
  /\ Use("tokens", MaxTokens)
  /\ Put(u, file, used.tokens + 1)
  /\ screen' = [screen EXCEPT ![u] = [token |-> used.tokens + 1, gone |-> FALSE,
                                      preview |-> IfFits(file, Guess(File[file]))]]
  /\ UNCHANGED <<formats, rules, imports, lines, req>>

(* Somebody previews a mapping of their upload. *)
PreviewMapping(u) ==
  /\ \E p \in Get(screen[u].token, u), m \in Mappings :
       screen' = [screen EXCEPT ![u].preview = IfFits(p.file, m)]
  /\ UNCHANGED <<formats, rules, imports, lines, pending, req, used>>

(* Somebody saves the mapping whose preview is on their screen. *)
SaveMapping(r, u) ==
  /\ req[r] = Idle
  /\ Use("imports", MaxImports)
  /\ \E p \in Get(screen[u].token, u), m \in screen[u].preview :
       req' = [req EXCEPT ![r] = [pc |-> "create", file |-> p.file, token |-> p.token,
                                  mapping |-> m]]
  /\ UNCHANGED <<formats, rules, imports, lines, pending, screen>>

(* The uploads with these tokens are no more. *)
Gone(tokens) ==
  screen' = [u \in Users |-> IF screen[u].token \in tokens
                             THEN [screen[u] EXCEPT !.gone = TRUE] ELSE screen[u]]

Drop(token) ==
  /\ pending' = {p \in pending : p.token # token}
  /\ Gone({token})

(* Mutant of FormatOf: the mapping just previewed is applied, although the
   layout was saved with another. *)
FormatOfMine(sig, m) == [sig |-> sig, mapping |-> m]

(* The layout, unless somebody saved it first: theirs stands. *)
FormatOf(sig, m) ==
  IF Known(sig) = {} THEN [sig |-> sig, mapping |-> m] ELSE CHOOSE f \in Known(sig) : TRUE

(* The layout is saved and its upload dropped; the file is then read by the
   layout that stands. *)
Create(r) ==
  /\ req[r].pc = "create"
  /\ LET sig    == Signature(req[r].file)
         format == FormatOf(sig, req[r].mapping)
     IN  /\ formats' = IF Known(sig) = {} THEN formats \cup {format} ELSE formats
         /\ req' = [req EXCEPT ![r] = ImportWith(req[r].file, format)]
  /\ Drop(req[r].token)
  /\ UNCHANGED <<rules, imports, lines, used>>

-----------------------------------------------------------------------------
RulesOf(sig) == {x \in rules : x.sig = sig}

(* A fingerprint begins with its layout, and then what the line says. *)
Matches(rule, fp) == rule.sig = fp[1] /\ fp[2].description \in Containing[rule.text]

(* The rules are read before the transaction begins. *)
ListIgnoreRules(r) ==
  /\ req[r].pc = "rules"
  /\ req' = [req EXCEPT ![r] =
       [pc |-> "begin", file |-> req[r].file, sig |-> req[r].sig, mapping |-> req[r].mapping,
        rules |-> RulesOf(req[r].sig), attempt |-> 1, done |-> 0, new |-> {}]]
  /\ UNCHANGED <<formats, rules, imports, lines, pending, screen, used>>

(* The fingerprints of the lines each file shows of money received. *)
Prints ==
  [file \in Files |->
     [m \in AllMappings |-> Fingerprints(Signature(file), Reading[file][m].incoming)]]

Incoming(r) == Prints[req[r].file][req[r].mapping]

(* Mutant of Begin: imports of one layout do not queue. *)
BeginUnlocked(r) ==
  /\ req[r].pc = "begin"
  /\ req' = [req EXCEPT ![r].pc = "insert", ![r].done = 0, ![r].new = {}]
  /\ UNCHANGED <<formats, rules, imports, lines, pending, screen, used>>

(* The row of the layout is locked; nothing is stored or counted yet. *)
Begin(r) ==
  /\ req[r].pc = "begin"
  /\ ~Locked(req[r].sig)
  /\ req' = [req EXCEPT ![r].pc = "insert", ![r].done = 0, ![r].new = {}]
  /\ UNCHANGED <<formats, rules, imports, lines, pending, screen, used>>

HasNext(r) == Inserting(r) /\ req[r].done < Len(Incoming(r))

NextLine(r) == Incoming(r)[req[r].done + 1]

(* The next line has a fingerprint that another transaction has inserted and
   not committed: the insert waits for it. *)
Waits(r, s) == r # s /\ HasNext(r) /\ Inserting(s) /\ NextLine(r) \in req[s].new

(* A line is inserted, unless its fingerprint is stored. *)
InsertLine(r) ==
  /\ HasNext(r)
  /\ \A s \in Requests : ~Waits(r, s)
  /\ LET stored == {l.fp : l \in lines} IN
     req' = [req EXCEPT ![r].done = @ + 1, ![r].new = @ \cup ({NextLine(r)} \ stored)]
  /\ UNCHANGED <<formats, rules, imports, lines, pending, screen, used>>

(* A new line is ignored if a rule the import read matches it. *)
StateOf(known, fp) == IF \E x \in known : Matches(x, fp) THEN "ignored" ELSE "open"

StoredLine(r, fp) ==
  [fp |-> fp, import |-> Len(imports) + 1, state |-> StateOf(req[r].rules, fp), reopened |-> FALSE]

(* The new lines are committed with their import's counts. Rules that were
   added since the import read them do not apply to its lines. *)
Commit(r) ==
  LET stored == {StoredLine(r, fp) : fp \in req[r].new}
      result == Reading[req[r].file][req[r].mapping]
      state(s) == Cardinality({l \in stored : l.state = s})
  IN
  /\ Inserting(r) /\ ~HasNext(r)
  /\ lines' = lines \cup stored
  /\ imports' = Append(imports,
       [file |-> req[r].file, kept |-> state("open"), ignored |-> state("ignored"),
        duplicates |-> req[r].done - Cardinality(req[r].new),
        outgoing |-> result.outgoing, refused |-> result.refused,
        missed |-> RulesOf(req[r].sig) \ req[r].rules])
  /\ req' = [req EXCEPT ![r] = Idle]
  /\ UNCHANGED <<formats, rules, pending, screen, used>>

(* The server rolls the transaction back to break a deadlock: it is run again
   from the top, so many times. *)
Deadlocked(r) ==
  /\ Inserting(r)
  /\ Use("faults", MaxFaults)
  /\ req' = [req EXCEPT ![r] =
       IF req[r].attempt < Attempts
       THEN [req[r] EXCEPT !.pc = "begin", !.attempt = @ + 1, !.done = 0, !.new = {}] ELSE Idle]
  /\ UNCHANGED <<formats, rules, imports, lines, pending, screen>>

(* A read or a write fails: the transaction rolls back and the request ends. *)
Fail(r) ==
  /\ req[r] # Idle
  /\ Use("faults", MaxFaults)
  /\ req' = [req EXCEPT ![r] = Idle]
  /\ UNCHANGED <<formats, rules, imports, lines, pending, screen>>

(* The process starts again: nothing pending survives. *)
Restart ==
  /\ Use("faults", MaxFaults)
  /\ pending' = {}
  /\ Gone({p.token : p \in pending})
  /\ req' = [r \in Requests |-> Idle]
  /\ UNCHANGED <<formats, rules, imports, lines>>

(* The oldest upload has waited too long. *)
Expire ==
  /\ Use("faults", MaxFaults)
  /\ \E p \in pending :
       /\ \A q \in pending : p.token <= q.token
       /\ pending' = pending \ {p}
       /\ Gone({p.token})
  /\ UNCHANGED <<formats, rules, imports, lines, req>>

-----------------------------------------------------------------------------
(* Mutant of AddIgnoreRule: the open lines are left for the next import. *)
AddIgnoreRuleOnly(sig, text) ==
  LET rule == [sig |-> sig, text |-> text] IN
  /\ Known(sig) # {} /\ ~Locked(sig)
  /\ rule \notin rules
  /\ Use("changes", MaxChanges)
  /\ rules' = rules \cup {rule}
  /\ UNCHANGED <<formats, imports, lines, pending, screen, req>>

(* A rule is added, and the layout's open lines it matches are ignored, in one
   transaction. *)
AddIgnoreRule(sig, text) ==
  LET rule == [sig |-> sig, text |-> text]
      falls(l) == l.state = "open" /\ Matches(rule, l.fp)
  IN
  /\ Known(sig) # {} /\ ~Locked(sig)
  /\ rule \notin rules
  /\ Use("changes", MaxChanges)
  /\ rules' = rules \cup {rule}
  /\ lines' = {IF falls(l) THEN [l EXCEPT !.state = "ignored"] ELSE l : l \in lines}
  /\ UNCHANGED <<formats, imports, pending, screen, req>>

(* Lines a rule ignored keep their state when it goes. *)
DeleteIgnoreRule ==
  /\ Use("changes", MaxChanges)
  /\ \E x \in rules : rules' = rules \ {x}
  /\ UNCHANGED <<formats, imports, lines, pending, screen, req>>

SetLine(l, state, reopened) ==
  /\ Use("changes", MaxChanges)
  /\ lines' = (lines \ {l}) \cup {[l EXCEPT !.state = state, !.reopened = reopened]}
  /\ UNCHANGED <<formats, rules, imports, pending, screen, req>>

(* An open line is matched, recorded or ignored by a person. *)
DecideLine == \E l \in lines : l.state = "open" /\ SetLine(l, "decided", l.reopened)

(* What was decided, by a person or by a rule, is undone. *)
ReopenLine == \E l \in lines : l.state # "open" /\ SetLine(l, "open", TRUE)

Serve(r) ==
  \/ Create(r) \/ ListIgnoreRules(r) \/ Begin(r) \/ InsertLine(r) \/ Commit(r)
  \/ Deadlocked(r) \/ Fail(r)

Next ==
  \/ \E r \in Requests : Serve(r)
  \/ \E r \in Requests, file \in Files : UploadKnown(r, file)
  \/ \E u \in Users, file \in Files : UploadUnknown(u, file)
  \/ \E u \in Users : PreviewMapping(u)
  \/ \E r \in Requests, u \in Users : SaveMapping(r, u)
  \/ Restart \/ Expire
  \/ \E sig \in Signatures, text \in Texts : AddIgnoreRule(sig, text)
  \/ DeleteIgnoreRule \/ DecideLine \/ ReopenLine

Spec == Init /\ [][Next]_vars

-----------------------------------------------------------------------------
Keys(file, m) ==
  LET incoming == Reading[file][m].incoming
  IN  [i \in DOMAIN incoming |-> <<Signature(file), incoming[i]>>]

AllKeys == UNION {Range(Keys(file, m)) : file \in Files, m \in AllMappings}

(* How many of each line each file shows, as each mapping reads it. *)
Contents ==
  {[k \in AllKeys |-> Cardinality({i \in DOMAIN Keys(file, m) : Keys(file, m)[i] = k})] :
     file \in Files, m \in AllMappings}

Kept == [k \in AllKeys |-> Cardinality({l \in lines : l.fp[1] = k[1] /\ l.fp[2] = k[2]})]

Promised == INSTANCE Statements WITH LineKeys <- AllKeys, Contents <- Contents, kept <- Kept

(* Two genuine identical lines of one file stay two, and a line that several
   files show is kept once, in whatever order and however often the files are
   imported, by whom, and whatever fails meanwhile. *)
ImplementsStatements == Promised!Spec

(* An import accounts for every row of its file as the layout's one mapping
   reads it, and for every line it stored, also when it was run again, and
   also when somebody else saved the layout first. *)
CountsAddUp ==
  \A i \in DOMAIN imports :
    LET imp == imports[i]
        m   == (CHOOSE f \in Known(Signature(imp.file)) : TRUE).mapping
        res == Reading[imp.file][m]
    IN  /\ imp.kept + imp.ignored + imp.duplicates = Len(res.incoming)
        /\ Len(res.incoming) + imp.outgoing + imp.refused = Len(File[imp.file].records)
        /\ imp.outgoing = res.outgoing /\ imp.refused = res.refused
        /\ imp.kept + imp.ignored = Cardinality({l \in lines : l.import = i})
        /\ \A l \in lines : l.import = i => <<l.fp[1], l.fp[2]>> \in Range(Keys(imp.file, m))

(* A rule leaves no line it matches open, but for the lines of an import that
   read the rules before it was added, and those a person has opened since. *)
RuleCatches ==
  \A l \in lines, x \in rules :
    l.state = "open" /\ Matches(x, l.fp) => l.reopened \/ x \in imports[l.import].missed

(* No two imports wait for a line of each other. *)
NeverDeadlocked == \A r, s \in Requests : ~(Waits(r, s) /\ Waits(s, r))

(* Somebody who is mapping an upload loses it to other people's only when as
   many others as there is room for have uploaded since. *)
EvictedByMany ==
  \A u \in Users :
    screen[u] # NoScreen /\ ~screen[u].gone /\ Get(screen[u].token, u) = {}
      => Cardinality({v \in Users : screen[v].token > screen[u].token}) >= MaxPending
=============================================================================
