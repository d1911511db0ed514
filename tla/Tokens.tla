------------------------------- MODULE Tokens --------------------------------
(***************************************************************************)
(* The part of the parser that all others are built upon, src/parser.c:    *)
(* the tokens of ort(5), the state of a parse, and the error state that    *)
(* ends one.  A lexeme of the file is one token here; identifiers are in   *)
(* lower case, as the parser stores them and compares without case.  A     *)
(* malformed number or an unknown character is the token "garbage".        *)
(***************************************************************************)
EXTENDS Integers, SequencesExt

Tok(kind) == [k |-> kind, s |-> "", n |-> 0]
Word(w) == [k |-> "ident", s |-> w, n |-> 0]
Num(i) == [k |-> "integer", s |-> "", n |-> i]
Dec(d) == [k |-> "decimal", s |-> "", n |-> d]
Lit(text) == [k |-> "literal", s |-> text, n |-> 0]

None == "-"        \* a name or comment that has not been given

(* Stands for the table of words that C, SQL or JavaScript keep.           *)
BadIdents == {"select", "default", "int"}

(***************************************************************************)
(* A parse: the tokens to come, remarks left out, the last one read, the   *)
(* configuration so far, and the structure and the innermost object being  *)
(* read.                                                                   *)
(***************************************************************************)
NewParse(cfg, file) ==
  [in |-> SelectSeq(file, LAMBDA t : t.k # "#"), last |-> Tok("none"), cfg |-> cfg,
   s |-> None, o |-> None]

(* PARSE_STOP(): from an error or the end of the file nothing more is read. *)
Stop(p) == p.last.k \in {"err", "eof"}
Errx(p) == [p EXCEPT !.last = Tok("err")]

ParseNext(p) ==
  IF Stop(p) THEN p
  ELSE IF p.in = <<>> THEN [p EXCEPT !.last = Tok("eof")]
  ELSE [p EXCEPT !.in = Tail(@),
                 !.last = IF Head(p.in).k = "garbage" THEN Tok("err") ELSE Head(p.in)]

Is(p, kind) == p.last.k = kind
IsWord(p, w) == p.last.k = "ident" /\ p.last.s = w

(* The idiom of all parse functions: an error if a condition does not hold *)
(* of what was read.                                                       *)
Check(p, ok) == IF ok THEN p ELSE Errx(p)
CheckIs(p, kind) == Check(p, Is(p, kind))
Expect(p, kind) == CheckIs(ParseNext(p), kind)

GoodIdent(name) == name \notin BadIdents

Names(queue) == { queue[i].name : i \in DOMAIN queue }

(* Enumerations, bitfields and structures share their names.               *)
TopLevelNames(cfg) == Names(cfg.enums) \cup Names(cfg.bitfs) \cup Names(cfg.strcts)

(***************************************************************************)
(* comment "text", and jslabel[.language] "text", of the innermost object. *)
(***************************************************************************)
ParseComment(p) ==
  LET q == Expect(p, "literal")
  IN IF Stop(q) \/ p.o.doc # None THEN Errx(q)
     ELSE [q EXCEPT !.o.doc = q.last.s]

Label(p, lang) ==
  LET langs == p.cfg.langs
      known == IF Contains(langs, lang) THEN langs ELSE Append(langs, lang)
  IN IF \/ ~Is(p, "literal") \/ p.last.s = ""
        \/ \E i \in DOMAIN p.o.labels : p.o.labels[i].lang = lang
     THEN Errx(p)
     ELSE [p EXCEPT !.cfg.langs = known,
                    !.o.labels = Append(@, [lang |-> lang, label |-> p.last.s])]

ParseLabel(p) ==
  LET q == ParseNext(p)
      l == Expect(q, "ident")
  IN IF ~Is(q, ".") THEN Label(q, "")
     ELSE IF Stop(l) THEN l ELSE Label(ParseNext(l), l.last.s)

EmptyConfig ==
  [roles |-> <<>>, enums |-> <<>>, bitfs |-> <<>>, strcts |-> <<>>, langs |-> <<"">>]
==============================================================================
