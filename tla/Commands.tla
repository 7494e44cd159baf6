------------------------------- MODULE Commands -------------------------------
(***************************************************************************)
(* The command line of daku-daemon, the command it runs, how the daemon    *)
(* comes up when it names none, and which store a command that arrives     *)
(* over the wire writes.                                                   *)
(*                                                                         *)
(* An argument is a word with the value that follows it, NoValue when the  *)
(* word takes none or the line ends.                                       *)
(***************************************************************************)
EXTENDS Integers, Sequences, FiniteSets, SequencesExt

CONSTANTS
  NoValue,   \* nothing was given
  Empty,     \* an empty or blank text
  NotANumber \* a text that is not a whole number

\* The commands, in the order main looks for them.
CommandWords ==
  <<"probe-availability", "doctor", "digest", "mcp", "setup", "rotate-credential",
    "diagnostics", "webhook-status", "webhook-requeue">>

Flags == {"--clone-source", "--no-probe", "--fix", "--check-roles", "--allow-non-loopback"}

OptionWords ==
  {"--out", "--id", "--url", "--label", "--platform", "--auth", "--secret-file", "--env", "--days",
   "--bind", "--credential-store", "--credential-file", "--parent-pid"}

AcceptedValue(word, value) ==
  /\ value # NoValue
  /\ word = "--platform" => value \in {"servicenow", "http", "github"}
  /\ word = "--auth" => value \in {"basic", "oauth"}
  /\ word = "--credential-store" => value \in {"keychain", "file"}
  /\ word \in {"--days", "--parent-pid"} => value # NotANumber
  /\ word = "--allow-origin" => value # Empty

Arguments ==
  [commands |-> {}, flags |-> {}, origins |-> {}, requeueEnv |-> NoValue, end |-> "line",
   option |-> [w \in OptionWords |-> IF w = "--days" THEN 7 ELSE NoValue]]

\* One word of the line; digest takes back an --env before it.
ReadWord(o, a) ==
  CASE a.word \in Range(CommandWords) ->
         [o EXCEPT !.commands = @ \union {a.word},
                   !.option["--env"] = IF a.word = "digest" THEN Empty ELSE @]
    [] a.word \in Flags -> [o EXCEPT !.flags = @ \union {a.word}]
    [] a.word \in OptionWords /\ AcceptedValue(a.word, a.arg) ->
         [o EXCEPT !.option[a.word] = a.arg,
                   !.requeueEnv = IF a.word = "--env" THEN a.arg ELSE @]
    [] a.word = "--allow-origin" /\ AcceptedValue(a.word, a.arg) ->
         [o EXCEPT !.origins = @ \union {a.arg}]
    [] a.word = "--help" -> [o EXCEPT !.end = "help"]
    [] OTHER -> [o EXCEPT !.end = "refused"]

\* Mutant: --fix is refused when doctor has not been read yet.
ReadArgumentInOrder(o, a) ==
  CASE o.end # "line" -> o
    [] a.word = "--fix" /\ "doctor" \notin o.commands -> [o EXCEPT !.end = "refused"]
    [] OTHER -> ReadWord(o, a)

\* One turn of the loop over the line.
ReadArgument(o, a) == IF o.end # "line" THEN o ELSE ReadWord(o, a)

\* What the end of the line must find.
Complete(o) ==
  LET given(w) == o.option[w] # NoValue
      named(S) == o.commands \intersect S # {}
  IN  /\ o.flags \intersect {"--fix", "--check-roles"} # {} => named({"doctor"})
      /\ given("--env") =>
           /\ o.option["--env"] # Empty
           /\ named({"digest", "rotate-credential", "webhook-requeue"})
      /\ named({"webhook-requeue"}) => o.requeueEnv \notin {NoValue, Empty}
      /\ (given("--secret-file") \/ "--no-probe" \in o.flags) => named({"setup", "rotate-credential"})
      /\ "--clone-source" \in o.flags => named({"setup"})
      /\ given("--credential-file") => o.option["--credential-store"] = "file"
      /\ named({"setup"}) => given("--id") /\ given("--url")
      /\ (given("--id") \/ given("--url")) => named({"setup"})
      /\ o.option["--days"] # 7 => given("--env")
      /\ o.option["--days"] >= 1
      /\ given("--out") => named({"diagnostics"})

Parse(line) ==
  LET o == FoldLeft(ReadArgument, Arguments, line)
  IN  IF o.end = "line" /\ ~Complete(o) THEN [o EXCEPT !.end = "refused"] ELSE o

\* The first command in main's order runs, whatever else the line names.
Dispatch(o) ==
  LET named == SelectSeq(CommandWords, LAMBDA w : w \in o.commands)
  IN  IF o.end # "line" THEN o.end ELSE IF named = <<>> THEN "serve" ELSE named[1]

\* The file or the keychain: the option, or else the environment variable.
ResolveCredentialStore(o, variable) ==
  LET chosen == o.option["--credential-store"]
  IN  IF chosen = "file" \/ (chosen = NoValue /\ variable = "file") THEN "file" ELSE "keychain"

\* What rotate-credential asks of the line when it runs, and of the secret.
RotateReady(o, secret) ==
  o.option["--env"] \notin {NoValue, Empty} /\ o.option["--secret-file"] # NoValue /\ secret # Empty

\* The commands that open the store, which creates it and migrates it.
Opens ==
  {"probe-availability", "doctor", "digest", "mcp", "webhook-status", "webhook-requeue", "serve"}

\* The stores a command that was accepted may write.
CommandWrites(o, secret) ==
  LET c == Dispatch(o) IN
  (IF c \in Opens THEN {"schema"} ELSE {})
  \union
  CASE c = "doctor" -> IF "--fix" \in o.flags THEN {"environments"} ELSE {}
    [] c = "setup" ->
         {"environments"} \union IF secret = Empty \/ o.option["--secret-file"] = NoValue THEN {}
                                 ELSE {"credentials"}
    [] c = "rotate-credential" -> IF RotateReady(o, secret) THEN {"credentials"} ELSE {}
    [] c \in {"probe-availability", "webhook-requeue"} -> {"database"}
    [] c = "diagnostics" -> {"bundle"}
    [] OTHER -> {}

-----------------------------------------------------------------------------
(* The daemon comes up.  An address is "inside" or "outside" of the host.    *)

EnsureBindAllowed(address, allow) == address = "inside" \/ allow

\* The request is a literal address, or a name with the addresses it has now;
\* a name that has none is left to the check of the bound address.
EnsureBindRequestAllowed(addresses, allow) ==
  allow \/ \A a \in addresses : EnsureBindAllowed(a, FALSE)

RequireToken(token) == token \notin {NoValue, Empty}

HomeFound(w) == w.homes # {}

\* Mutant: the daemon announces itself as soon as it is bound.
StartupStepsEager(w) ==
  <<[step |-> "token", ok |-> RequireToken(w.token)],
    [step |-> "home", ok |-> HomeFound(w)],
    [step |-> "request", ok |-> EnsureBindRequestAllowed(w.resolved, w.allow)],
    [step |-> "socket", ok |-> w.address # NoValue],
    [step |-> "bound", ok |-> EnsureBindAllowed(w.address, w.allow)],
    [step |-> "ready", ok |-> TRUE],
    [step |-> "database", ok |-> w.database],
    [step |-> "settings", ok |-> w.settings]>>

\* What main does, in order; the first that fails ends it.
StartupSteps(w) ==
  <<[step |-> "token", ok |-> RequireToken(w.token)],
    [step |-> "home", ok |-> HomeFound(w)],
    [step |-> "request", ok |-> EnsureBindRequestAllowed(w.resolved, w.allow)],
    [step |-> "socket", ok |-> w.address # NoValue],
    [step |-> "bound", ok |-> EnsureBindAllowed(w.address, w.allow)],
    [step |-> "parent", ok |-> TRUE],
    [step |-> "database", ok |-> w.database],
    [step |-> "prune", ok |-> TRUE],
    [step |-> "settings", ok |-> w.settings],
    [step |-> "collector", ok |-> TRUE],
    [step |-> "ready", ok |-> TRUE],
    [step |-> "serve", ok |-> TRUE]>>

Startup(w) ==
  LET steps == StartupSteps(w)
      done == {i \in DOMAIN steps : \A j \in 1 .. i : steps[j].ok}
  IN  {steps[i].step : i \in done}

\* The collector runs when there is a list of Environments to poll; else the
\* daemon serves all the same, and publishes nothing.
Collects(list) == list \notin {"missing", "invalid", "empty"}

\* Mutant: the daemon takes credentials on any address.
HandleCommandAnywhere(w, command) ==
  CASE command = "UpdateSettings" -> {"settings"}
    [] command = "AddHealthEventNote" -> {"database"}
    [] command \in {"SaveEnvironment", "DeleteEnvironment"} -> {"environments", "credentials"}
    [] OTHER -> {}

\* The stores one command from the wire writes.  With --allow-non-loopback no
\* credential is taken: the save that brings one is refused, and so is every
\* deletion, which would delete one.
HandleCommand(w, command) ==
  CASE command = "UpdateSettings" -> {"settings"}
    [] command = "AddHealthEventNote" -> {"database"}
    [] command = "DeleteEnvironment" -> IF w.allow THEN {} ELSE {"environments", "credentials"}
    [] command = "SaveEnvironment" ->
         IF ~w.blob THEN {"environments"}
         ELSE IF w.allow THEN {} ELSE {"environments", "credentials"}
    [] OTHER -> {}   \* Ping, GetSettings, TestEnvironment, GetDigest, RequestDashboardSync

WireCommands ==
  {"Ping", "GetSettings", "UpdateSettings", "SaveEnvironment", "DeleteEnvironment",
   "TestEnvironment", "GetDigest", "AddHealthEventNote", "RequestDashboardSync"}
=============================================================================
