-------------------------------- MODULE Format --------------------------------
(***************************************************************************)
(* The program ort, src/main.c: it parses files into one configuration,    *)
(* links it and writes it as one file again.  What it writes is given to   *)
(* it once more, as a user does who keeps the output.  Parser, linker and  *)
(* writer have nothing in common but the configuration and the language,   *)
(* and each leaves out, adds to or reorders what the others rely on.       *)
(***************************************************************************)
EXTENDS Parser, Writer, Resolver

CONSTANT Sources   \* the sequences of files considered

VARIABLES todo,    \* files to be parsed
          cfg,     \* the configuration
          phase,
          run,     \* 1 or 2: of the user's files, or of what was written
          first    \* what the first run linked

vars == <<todo, cfg, phase, run, first>>

Phases == {"parsing", "linked", "written", "refused", "aborted"}

Init ==
  /\ todo \in Sources
  /\ cfg = EmptyConfig /\ first = EmptyConfig
  /\ phase = "parsing" /\ run = 1

ParseNextFile ==
  /\ phase = "parsing" /\ todo # <<>>
  /\ \E result \in {ParseFile(cfg, Head(todo))} :
        /\ cfg' = result.cfg
        /\ phase' = IF result.ok THEN "parsing" ELSE "refused"
  /\ todo' = Tail(todo)
  /\ UNCHANGED <<run, first>>

Link ==
  /\ phase = "parsing" /\ todo = <<>>
  /\ \E result \in {ParseClose(cfg)} :
        /\ cfg' = result.cfg
        /\ phase' = IF result.ok THEN "linked" ELSE "refused"
  /\ UNCHANGED <<todo, run, first>>

(* The output is in todo, for a second run.                                *)
Write ==
  /\ phase = "linked"
  /\ IF \E i \in DOMAIN cfg.strcts : \E k \in DOMAIN cfg.strcts[i].fields :
          Aborts(cfg.strcts[i].fields[k])
     THEN phase' = "aborted" /\ todo' = todo
     ELSE phase' = "written" /\ todo' = <<WriteFile(cfg)>>
  /\ UNCHANGED <<cfg, run, first>>

RunAgain ==
  /\ phase = "written" /\ run = 1
  /\ phase' = "parsing" /\ run' = 2
  /\ first' = cfg /\ cfg' = EmptyConfig
  /\ UNCHANGED todo

Next == ParseNextFile \/ Link \/ Write \/ RunAgain

Spec == Init /\ [][Next]_vars

(***************************************************************************)
(* Properties.                                                             *)
(***************************************************************************)
(* What there is to a configuration: structures have been reordered, the   *)
(* fields of unique statements sorted, and languages are known in the      *)
(* order they are met.                                                     *)
Meaning(c) ==
  [c EXCEPT !.langs = Range(@),
            !.strcts = { [s EXCEPT !.nq = [k \in DOMAIN @ |-> Range(@[k])]] : s \in Range(@) }]

FieldsOf(c) == UNION { Range(c.strcts[i].fields) : i \in DOMAIN c.strcts }
DateDefault(f) == f.type = "date" /\ "hasdef" \in f.flags

(* What ort writes is accepted by ort and is the same configuration: every *)
(* construct, in every combination with others, is read, linked and        *)
(* written alike, but for defaults of dates, which are not.                *)
RoundTrip ==
  run = 2 /\ (\A f \in FieldsOf(first) : ~DateDefault(f)) =>
    /\ phase # "refused"
    /\ phase = "written" => Meaning(cfg) = Meaning(first)

(* The generators provide for lists and iterators of the structures that   *)
(* are flagged.  These are the ones some query has results of, where the   *)
(* parser flags the query's own and the resolver a distinct one further    *)
(* down, possibly declared later.                                          *)
ReturnsFlagged ==
  phase = "linked" =>
    \A i \in DOMAIN cfg.strcts : \A type \in {"list", "iterate"} :
      LET flag == IF type = "list" THEN "queue" ELSE "iterator"
          s == cfg.strcts[i]
      IN (flag \in s.flags) =
           \E j \in DOMAIN cfg.strcts : \E k \in DOMAIN cfg.strcts[j].sq :
             LET q == cfg.strcts[j].sq[k]
             IN q.type = type /\ Result(cfg, cfg.strcts[j], q) = s.name
===============================================================================
