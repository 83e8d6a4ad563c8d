------------------------------ MODULE Privacy ------------------------------
(***************************************************************************)
(* The privacy policy of clipd (internal/privacy/policy.go): pure          *)
(* operators, without state.                                               *)
(*                                                                         *)
(* A name, as typed in a flag or reported by the desktop, is an element of *)
(* Raw.  What normalize makes of it is a word; Within tells which word     *)
(* holds which as a substring.  The order of rules and candidates decides  *)
(* only what is logged, so lists are sets.                                 *)
(***************************************************************************)
EXTENDS ClipContent

CONSTANTS
    Raw,             \* names as they come
    Word,            \* normal names
    Blank,           \* what normalize makes of white space
    Norm,            \* normalize
    Within,          \* pairs of a word and a longer one that contains it
    Fingerprints     \* passwordManagerFingerprints

ASSUME BlankAssumption == Blank \notin Word
ASSUME NormAssumption ==
    /\ Word \cup {Blank} \subseteq Raw
    /\ Norm \in [Raw -> Word \cup {Blank}]
    /\ \A w \in Word \cup {Blank} : Norm[w] = w
ASSUME WithinAssumption == Within \subseteq Word \X Word
ASSUME FingerprintsAssumption == Fingerprints \subseteq Word

SensitiveClass == {"secret", "otp", "password-manager"}

Config ==
    [ignoreApps : SUBSET Word, ignoreProcesses : SUBSET Word,
     classes : SUBSET SensitiveClass, clearOnBlock : BOOLEAN]

Context == [app : Raw, bundle : Raw, process : Raw]

\* privacy.Context{}: what a decision is made of when no context can be had.
NoContext == [app |-> Blank, bundle |-> Blank, process |-> Blank]

-----------------------------------------------------------------------------
\* normalizeSlice
Normal(names) == {Norm[v] : v \in names} \ {Blank}

\* ParseCSV: the parts of a list between commas.
ParseCSV(parts) == Normal(parts)

\* ParseSensitiveClasses fails on an unknown name; the names of the classes are
\* words that mean themselves.
ParsesAsClasses(parts) == ParseCSV(parts) \subseteq SensitiveClass

NewConfig(apps, processes, classes, clear) ==
    [ignoreApps |-> Normal(apps), ignoreProcesses |-> Normal(processes),
     classes |-> classes, clearOnBlock |-> clear]

NoRules(c) == c.ignoreApps = {} /\ c.ignoreProcesses = {} /\ c.classes = {}

\* Mutant: the class that is told by the context forgotten.
UsesRules(c) == c.ignoreApps # {} \/ c.ignoreProcesses # {}

UsesContext(c) ==
    c.ignoreApps # {} \/ c.ignoreProcesses # {} \/ "password-manager" \in c.classes

\* matchConfigured: a rule is a candidate or a part of it.
Matches(rules, candidates) ==
    \E rule \in rules, word \in Normal(candidates) : rule = word \/ <<rule, word>> \in Within

DetectsPasswordManager(ctx) == Matches(Fingerprints, {ctx.app, ctx.bundle, ctx.process})

\* Decide's verdicts that rest on where the content was copied, and those on what it
\* is: text without its margins that looks like one of the classes.
BlocksContext(c, ctx) ==
    \/ Matches(c.ignoreApps, {ctx.app, ctx.bundle})
    \/ Matches(c.ignoreProcesses, {ctx.process})
    \/ "password-manager" \in c.classes /\ DetectsPasswordManager(ctx)

BlocksText(c, ct) ==
    IsText(ct) /\ ~ ct.blank /\ ct.looks \cap c.classes # {}

\* Decide(...).Block, for content that is not empty.
Blocks(c, ctx, ct) == BlocksContext(c, ctx) \/ BlocksText(c, ct)

=============================================================================
