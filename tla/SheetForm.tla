------------------------------ MODULE SheetForm ------------------------------
(***************************************************************************)
(* The sheet that adds or edits an Environment: what it fills its fields   *)
(* with, how it reads them back, what it refuses, and what the daemon      *)
(* makes of what it sends.                                                 *)
(*                                                                         *)
(* A text is a sequence of characters, of which "a" and "b" stand for      *)
(* lower-case letters and digits and "e'" for any other letter; the text of a   *)
(* threshold is empty, "off", a number, or words.                          *)
(***************************************************************************)
EXTENDS Integers, Sequences, FiniteSets, SequencesExt, TLC

CONSTANTS
  U64Max,    \* never votes
  Unset,     \* no ceiling; also: no credential
  IdLimit    \* the most characters of an id

-----------------------------------------------------------------------------
(* Thresholds. *)

Typed(is) == [is |-> is, number |-> 0]
TypedNumber(n) == [is |-> "number", number |-> n]

CountDefaults ==
  [jobs_overdue |-> 1, jobs_error |-> U64Max, syslog |-> 1, outbound |-> 1, flow |-> 1,
   email |-> U64Max, upgrade |-> 1, updates |-> U64Max, scan |-> 1, actions |-> 1, mid |-> 1,
   ecc_error |-> 1, ecc_queue |-> 100, drift |-> 1]

CeilingDefaults == [rtt |-> 5000, txn |-> Unset, probe_rtt |-> Unset]

ThresholdDefaults == CountDefaults @@ CeilingDefaults

OffCounts == {"jobs_error", "email", "updates"}

\* Off renders empty: the count then reads as its default.
FormatU64Threshold(n) == IF n = U64Max THEN Typed("empty") ELSE TypedNumber(n)

FormatRttThreshold(n) ==
  CASE n = Unset -> Typed("empty") [] n = U64Max -> Typed("off") [] OTHER -> TypedNumber(n)

FormatThresholds(t) ==
  [f \in DOMAIN ThresholdDefaults |->
     IF f \in DOMAIN CountDefaults THEN FormatU64Threshold(t[f]) ELSE FormatRttThreshold(t[f])]

CountAccepted(f, text) == text.is \in {"empty", "number"} \/ (text.is = "off" /\ f \in OffCounts)
RttAccepted(text) == text.is # "words"

ParseCountField(f, text) ==
  CASE text.is = "empty" -> CountDefaults[f] [] text.is = "off" -> U64Max [] OTHER -> text.number

\* Off disables the ceiling of Availability; the other two have none then.
ParseRttField(f, text) ==
  CASE text.is = "empty" -> CeilingDefaults[f]
    [] text.is = "off"   -> IF f = "rtt" THEN U64Max ELSE Unset
    [] OTHER             -> text.number

ThresholdsAccepted(texts) ==
  \A f \in DOMAIN texts : IF f \in DOMAIN CountDefaults THEN CountAccepted(f, texts[f]) ELSE RttAccepted(texts[f])

ParseThresholds(texts) ==
  [f \in DOMAIN texts |->
     IF f \in DOMAIN CountDefaults THEN ParseCountField(f, texts[f]) ELSE ParseRttField(f, texts[f])]

-----------------------------------------------------------------------------
(* Expected drift: ids in the file, tokens in the field.  "p,q" is one id    *)
(* of the file that the field shows as two.                                  *)

FormatExpectedDrift(ids) ==
  FoldLeft(LAMBDA text, id : text \o IF id = "p,q" THEN <<"p", "q">> ELSE <<id>>, <<>>, ids)

DriftAccepted(tokens) == \A i \in DOMAIN tokens : tokens[i] # "p q"

\* Sorted, each once, without the empty ones.
ParseExpectedDrift(tokens) ==
  SelectSeq(<<"p", "q", "r">>, LAMBDA id : id \in ToSet(tokens))

-----------------------------------------------------------------------------
(* Ids. *)

IdCharacters == {"a", "b", "A", "e", "n", "v", "-", "_"}

EnvironmentIdError(id) == ~(Len(id) \in 1 .. IdLimit /\ ToSet(id) \subseteq IdCharacters)

Trim(text) ==
  LET solid == {i \in DOMAIN text : text[i] # " "}
  IN  IF solid = {} THEN <<>>
      ELSE SubSeq(text, CHOOSE i \in solid : \A j \in solid : i <= j,
                        CHOOSE i \in solid : \A j \in solid : j <= i)

\* Mutant: every dash of the label is kept.
DeriveIdEveryDash(label) ==
  IF label = <<>> THEN <<"e", "n", "v">>
  ELSE [i \in DOMAIN label |-> IF label[i] \in {"a", "b"} THEN label[i] ELSE "-"]

\* One character: letters and digits stay, in lower case; a dash, an
\* underscore or a space between two of them becomes one dash; all others go.
DeriveStep(s, c) ==
  CASE c \in IdCharacters \ {"-", "_"} ->
         [out |-> s.out \o (IF s.dash /\ s.out # <<>> THEN <<"-">> ELSE <<>>)
                        \o <<IF c = "A" THEN "a" ELSE c>>, dash |-> FALSE]
    [] c \in {"-", "_", " "} -> [s EXCEPT !.dash = TRUE]
    [] OTHER -> s

DeriveIdFromLabel(label) ==
  LET s == FoldLeft(DeriveStep, [out |-> <<>>, dash |-> FALSE], Trim(label))
  IN  IF s.out = <<>> THEN <<"e", "n", "v">> ELSE s.out

ResolveSheetId(typed, label) == IF Trim(typed) = <<>> THEN DeriveIdFromLabel(label) ELSE Trim(typed)

-----------------------------------------------------------------------------
(* URLs: the scheme, the host, what is before and after it. *)

InstanceUrlError(u) == ~(u.https /\ u.host # "" /\ ~u.userinfo /\ ~u.query)

\* Two names after github.com, the second without its .git.
SplitGithubRepo(u) ==
  u.https /\ u.host = "github.com" /\ Len(u.path) >= 2 /\ u.path[1] # "" /\ u.path[2] \notin {"", ".git"}

ValidatePlatformUrl(platform, u) == platform = "github" => SplitGithubRepo(u)

ValidateFields(id, label, u, platform) ==
  ~EnvironmentIdError(id) /\ Trim(label) # <<>> /\ ~InstanceUrlError(u) /\ ValidatePlatformUrl(platform, u)

-----------------------------------------------------------------------------
(* Credentials: a pair of texts, each "", blank or "x". *)

\* Mutant: half a pair leaves what is stored.
CredentialBlobHalf(auth, first, second) ==
  IF first \in {"", " "} \/ second \in {"", " "} THEN Unset ELSE [auth |-> auth, pair |-> <<first, second>>]

CredentialBlob(auth, first, second) ==
  IF first \in {"", " "} /\ second \in {"", " "} THEN Unset
  ELSE [auth |-> auth, pair |-> <<first, second>>]

ValidateCredential(auth, blob) ==
  blob.auth = auth /\ \A i \in {1, 2} : blob.pair[i] \notin {"", " "}

-----------------------------------------------------------------------------
(* The sheet. *)

AddSheet ==
  [editing |-> Unset, id |-> <<>>, label |-> <<>>,
   url |-> [https |-> TRUE, host |-> "", userinfo |-> FALSE, query |-> FALSE, path |-> <<>>],
   auth |-> "oauth", platform |-> "servicenow", cloneSource |-> FALSE, secrets |-> <<"", "">>,
   thresholds |-> FormatThresholds(ThresholdDefaults), drift |-> <<>>]

EditSheet(e) ==
  [editing |-> e.id, id |-> e.id, label |-> e.label, url |-> e.url, auth |-> e.auth,
   platform |-> e.platform, cloneSource |-> e.cloneSource, secrets |-> <<"", "">>,
   thresholds |-> FormatThresholds(e.thresholds), drift |-> FormatExpectedDrift(e.drift)]

Shown(list, id) == {i \in DOMAIN list : list[i].id = id}

\* The fields, with the tuning that is stored: a new Environment comes last.
BuildConfig(sheet, list) ==
  LET stored == IF sheet.editing = Unset THEN {} ELSE Shown(list, sheet.editing)
      old    == list[CHOOSE i \in stored : \A j \in stored : i <= j]
  IN  [id |-> IF sheet.editing # Unset THEN sheet.editing ELSE ResolveSheetId(sheet.id, sheet.label),
       label |-> Trim(sheet.label), url |-> sheet.url, auth |-> sheet.auth,
       platform |-> sheet.platform, cloneSource |-> sheet.cloneSource,
       sortOrder |-> CASE sheet.editing = Unset -> Len(list) [] stored = {} -> 0 [] OTHER -> old.sortOrder,
       thresholds |-> IF stored = {} THEN ThresholdDefaults ELSE old.thresholds,
       drift |-> IF stored = {} THEN <<>> ELSE old.drift]

\* Mutant: what is stored is sent, not what was typed.
ApplySheetTuningStored(config, thresholds, drift) == config

ApplySheetTuning(config, thresholds, drift) ==
  [config EXCEPT !.thresholds = thresholds, !.drift = drift]

\* What is wrong with the sheet: one problem of each kind.
Problems(sheet, list) ==
  LET config == BuildConfig(sheet, list)
      blob   == CredentialBlob(sheet.auth, sheet.secrets[1], sheet.secrets[2])
  IN  {k \in {"fields", "id", "thresholds", "drift", "credential"} :
         CASE k = "fields"     -> ~ValidateFields(config.id, config.label, config.url, config.platform)
           [] k = "id"         -> sheet.editing = Unset /\ Shown(list, config.id) # {}
           [] k = "thresholds" -> ~ThresholdsAccepted(sheet.thresholds)
           [] k = "drift"      -> ~DriftAccepted(sheet.drift)
           [] OTHER            -> blob # Unset /\ ~ValidateCredential(config.auth, blob)}

\* What the sheet sends, when nothing is wrong with it.
ValidateSheet(sheet, list) ==
  [config |-> ApplySheetTuning(BuildConfig(sheet, list), ParseThresholds(sheet.thresholds),
                               ParseExpectedDrift(sheet.drift)),
   blob   |-> CredentialBlob(sheet.auth, sheet.secrets[1], sheet.secrets[2])]

-----------------------------------------------------------------------------
(* What the panel shows of it. *)

\* The rows of buttons, each with what is picked.
SheetToggleRows(sheet, advanced) ==
  {<<"Platform", sheet.platform>>, <<"Auth", sheet.auth>>}
  \union IF advanced THEN {<<"Clone source", sheet.cloneSource>>} ELSE {}

\* The fields that are on the screen: an id is typed only for a new Environment.
SheetFields(sheet, advanced) ==
  {"label", "url", "credential"}
  \union (IF advanced THEN {"thresholds", "drift"} ELSE {})
  \union (IF advanced /\ sheet.editing = Unset THEN {"id"} ELSE {})

OverwriteHint(sheet, list) ==
  sheet.editing = Unset /\ Shown(list, ResolveSheetId(sheet.id, sheet.label)) # {}

\* Mutant: the effective values are the stored ones.
EnvSheetViewStored(sheet, list, advanced) ==
  [rows |-> SheetToggleRows(sheet, advanced), fields |-> SheetFields(sheet, advanced),
   hint |-> OverwriteHint(sheet, list),
   effective |-> IF advanced THEN <<BuildConfig(sheet, list).thresholds>> ELSE <<>>]

\* Effective is what Save would send, or nothing, in red, where it would not.
EnvSheetView(sheet, list, advanced) ==
  [rows |-> SheetToggleRows(sheet, advanced), fields |-> SheetFields(sheet, advanced),
   hint |-> OverwriteHint(sheet, list),
   effective |-> IF advanced /\ ThresholdsAccepted(sheet.thresholds)
                 THEN <<ParseThresholds(sheet.thresholds)>> ELSE <<>>]

-----------------------------------------------------------------------------
(* The daemon. *)

\* validate_environment and validate_credential; what they let pass loads.
DaemonAccepts(config, blob) ==
  /\ ~EnvironmentIdError(config.id) /\ config.label # <<>> /\ ~InstanceUrlError(config.url)
  /\ ValidatePlatformUrl(config.platform, config.url)
  /\ blob # Unset => ValidateCredential(config.auth, blob)

\* The entry of that id is replaced where it stands, a new one is appended.
Upserted(list, config) ==
  IF Shown(list, config.id) = {} THEN Append(list, config)
  ELSE [i \in DOMAIN list |-> IF list[i].id = config.id THEN config ELSE list[i]]

\* The order in which the Environments are shown: sort_by_key is stable.
Loaded(list) ==
  FoldLeft(LAMBDA out, e :
             LET before == SelectSeq(out, LAMBDA o : o.sortOrder <= e.sortOrder)
             IN  before \o <<e>> \o SelectSeq(out, LAMBDA o : o.sortOrder > e.sortOrder),
           <<>>, list)
=============================================================================
