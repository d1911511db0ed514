# A verification of openradtool in TLA+

openradtool ("ort") reads a configuration of structures, fields, queries,
roles and enumerations, links it, and writes code and SQL: a C, nodejs or rust
API to a SQLite database with role-based access control, its schema, the
differences between two schemas, an audit of what a role can reach. Two kinds
of program are therefore of interest here: the tool itself, one thread that
transforms a configuration in passes each of which relies on the ones before
it, and the programs it generates, which change roles, run statements and
export objects in any order their users like.

The modules are translated from the C source in `src/`. `PROJECT.json` maps
every definition to the lines it stands for.

## Inventory

| Part | State it keeps | Operations | Interacts with |
| --- | --- | --- | --- |
| Lexer and parser (`parser*.c`) | current token, file stack, `struct config` | `parse_root()` and a function per construct | builds the configuration, and a queue of names to resolve |
| Enumerations (`parser_enum.c`) | items, flags for automatic values | `parse_enum_item()`, `parse_enum_data()`, second pass in `parse_enum()` | linker resolves defaults to items |
| Roles and rolemaps (`parser_roles.c`, `parser_struct.c`, `linker_resolve.c`) | role tree, rolemaps of a structure, one for `all` | `rolemap_assign()`, `parse_struct_roles()`, three resolving passes | pointers from operations and fields; read by every generator and the audit |
| Linker (`linker*.c`) | names to resolve, aliases, colours and heights, flags | `ort_parse_close()` | everything behind it assumes what it checked |
| SQL statements (`lang.c`, `lang-c.c`) | none; the statement and the function have to agree | `gen_sql_stmts()`, `gen_func_db_search()` | numbered statements shared with sqlbox |
| C output (`lang-c-source.c`) | the generated program's `ctx` (role), open statement, objects with the role they were read in | query, insert, update and delete functions, `db_role()`, JSON export | sqlbox, a separate process, holds the database and a role of its own |
| nodejs and rust output (`lang-nodejs.c`, `lang-rust.c`) | `#role` or `role` of the context | the same, with a switch in front of each | no sqlbox: SQLite in the same process |
| Audit (`audit.c`) | none | `rolemap_has()`, `follow()`, `ort_audit()` | must say of a role what the programs do |
| Differences (`diff.c`, `lang-sql.c`, `writer-diff.c`, `maindiff.c`, `sqldiff.c`) | queue of differences | `ort_diff()`, `ort_write_diff_file()`, `ort_lang_diff_sql()` | two linked configurations; the script changes the database of a program that has been running |
| Writer (`writer.c`) | none | `ort_write_file()` | configuration to text, which the parser, sharing no code with it, has to accept |
| Program ort (`main.c`) | the files still to be read | parse, link, write | runs the three above one after the other |
| XLIFF, JSON, manual pages, JavaScript, header | none | configuration to text | the header relies on the order of structures |

Hard to test are: the order in which passes of the linker mutate what later
ones read (rolemaps shared by pointer, unique statements sorted while others
are still to be compared, heights added up over several walks); recursion over
structures that may contain themselves; counters in generators that have to
agree with counters in other generators (arguments, parameters, places of a
statement); walks up and down the role tree that have to give the same answer;
and sequences of role changes, reads and exports in generated programs; what a
parser accepts, a linker completes and a writer writes, which have to agree in
every combination of constructs; and values that are found by counting (columns
of a row, parameters of a statement, hashes made beforehand), in three
languages. There are no threads in the tool. A generated program and sqlbox are
two processes, but every call is answered before the next, so their steps do
not interleave; what can go wrong is that they hold different roles. Programs do
interleave with other programs that use the same database, between calls and
within transactions, and may be killed at any time.

For each part, the properties that make it correct are under "Modules" below,
and the places where it could go wrong under `hazards` in `PROJECT.json`.

## Modules

**EnumItems** (`src/parser_enum.c`). Items are declared one at a time, with a
written value or none, then values are assigned from one past the greatest
written value (zero if all are negative), at the closing brace and once more
when the enumeration is done. Integers wrap at a width that is a constant.
`ValuesUnique`: the items of an accepted enumeration have distinct values, none
extreme. `AutoAscending`: automatic values exceed all written ones.
`SecondPassAgrees`: the second pass changes nothing.

**RoleTree** has the tree of roles as a constant (`Parent`, over the named and
the three reserved roles), and the pure functions over it: the audit's walk up
(`RolemapHas`), the generators' walks down (`ClosedDown`, `Cases`,
`RoleCases`), what they tell sqlbox (`HierChildren`, `HierStmts`), and, external,
what sqlbox makes of that (`BoxMayRun`, `BoxMayBecome`).

**RoleRuntime** is a generated program, with `Backend` a constant: `DbRole`,
`Run` (an operation, whose statement and the statements that follow references
may be refused), `Export` of an object created in some earlier role. Its state is
the role in the context, the role in sqlbox, the roles objects were created in,
and history: what was executed, denied and exported in which role.
`ExecutedGranted`, `DeniedUngranted`: an operation is carried out exactly in the
roles the audit reports. `ExportGranted`: the role that counts for a hidden
field is the stored one. `BoxAgrees`: the two processes hold the same role.
`AncestorsOnly`, `AncestorsAccepted`: transitions.

**AccessControl** is the abstract specification: a set of operations allowed
that, once a role is assumed, only shrinks, and operations used within it.
`RoleRuntime` implements it (`ImplementsAccessControl`, by the refinement
mapping at its end), for the C output.

**Rolemaps** (`src/parser_struct.c`, `src/linker_resolve.c`). The parser's
`roles` statements in any order, for operations, for `all`, for one field's
export or for every field's; then the linker's passes: names to roles, rolemaps
to what they name (`FindAll`, `FindOperation`, `FindNoexport`), `all` spread over
operations, the check for roles that occur twice. Rolemaps are indices into a
sequence, so that two fields may share one, as pointers do in the code.
`OperationsExact` compares the result with the set of (target, role) pairs that
were written, whatever their order. `NoexportKept`: a field is hidden from all the
roles of the first `noexport` for it, and of one for all fields one role at least
reaches each field; that all do is false (see "Findings").

**Linker** composes **UniqueStatements**, **Aliases** and **StructOrder**, each
the state machine of one pass of `ort_parse_close()` with the calls of its
recursion in a variable, and adds `MarkNullrefs`. A pass begins when the one in
front of it has accepted, and works on the same structures. `CirclesRefused`
and `Ends` belong together: the search for recursion only looks for the
structure it started from, so a circle further on ends the walk by the limit on
aliases, never by going round for ever. A chain is a sequence of positions of
fields, and `End` says where it leads. `WalksCounted` says what bounds the walk: the
calls are no deeper than the aliases are many. `ChainsComplete` and `AliasesDistinct`
(for up to 159 aliases per letter) are what `linker_aliases_resolve()` and
`gen_sql_stmt_join()` assert or assume, `TreesSorted` what the C
header assumes (`Sort` is any order by height, as `TAILQ` is sorted by comparing
it, and `Normal` the one order of a statement's fields), `MarkedExactly` what `db_xxx_reffind()` assumes,
`UniqueNormal` what `ort_diff()` and the SQL assume, with as much as the comparison
of unique statements ensures: the first of a size has no equal.

**Queries** (`src/lang-c-source.c`, `src/lang-nodejs.c`, `src/lang-rust.c`,
`src/lang.c`). A query function over one table, with `backend` a variable: in C,
its arguments are bound term by term with the counters the generator unrolls
(`Bind`); nodejs and Rust push them (`Push`). The statement's result is a set of
rows in some order that fits, and the program steps through it, comparing hashed
passwords itself (`StepList`, `StepSearch`, `StepNode`, `StepRust`). Arguments
may be null where the language has a null for the field, as may stored
passwords. `Place` numbers the question marks of the statement, `Look` compares
the passwords of one row. What is returned is compared with the rows that satisfy every term,
each with its own argument: nothing else (`ReturnedMatch`), and all of it
(`MatchesAnswered`). SQLite, sqlbox and the password functions are
external.

**Values** are values, rows, tables and the constraints of a schema, as SQLite
treats them. **Records** is the abstract specification of what the generated
functions promise *by name*: an argument belongs to a field or a constraint,
passwords are hashed unless set by `strset`, a call that fails changes nothing, an
object has the objects it refers to within it, a transaction is kept as a whole
or not at all. **Modify** is what the generators make of that *by position*:
parameters with their indices, the arguments and hashes they are taken from,
question marks numbered from the left, a result's values read from a running
position through nested objects (`FillC`, `FillAt`, `Filled`), references that may
be null followed by queries of their own (`Got`). What is bound is the same in all
outputs, a sequence of slots with what each needs (`InsertSlots`, `UpdateSlots`); how an
output counts its way through them is its own (`BindC`, `BindNode`, `BindRust`). Its state is the database
file, the database as the program sees it, the transaction with its mode and
lock, and whether the program runs; `Crash`, `Restart` and `Other`, another
program, interleave with the calls. `ImplementsRecords` says that Modify implements
Records, with the variables of the same names as the mapping. `PasswordsHashed`: no
password is stored as it was typed. `ExcludedInC`: with an immediate or
exclusive transaction open, nobody else changes the database. Hashes are taken
to be a function of the password, which is enough to tell whose hash is where;
references are to integers; every structure has a rowid, named `id`; locks are those of
a rollback journal. `SchemasAssumption` and `ArgumentsAssumption` say what parser and
linker accept of structures, updates and deletes, and what the types of the
generated functions allow for arguments; TLC evaluates both for the instance. Null
is tried for a field that may be null, in C only where the function takes a pointer,
which it does not for a constraint (`Constrained`).

**Audit** is `ort_audit()`: `AuditStruct` and `AuditSearch` go through the
structures and their queries, `Follow` is one call of `follow()`, and `calls` holds
those that are due, as a recursion over fields visits them. Beside it is the JSON
that the C output prints of an object (`Json`), by the walk of the generators
down the roles where the audit walks up. `AllReported`: the report has the
operations the program may call in a role, and no others, and all that it prints.
`ExportsExact`: what is reported as exported along a path is printed there, and the
reverse unless the structure is hidden as a whole and not all of its fields are.
`MarkedIfAny`: the mark of a structure does not depend on which path comes first.
The noexport statements are those the linker leaves (`Linked`): a role of a structure
need not have reached all of its fields, but one has, as `Rolemaps` shows.

**Tokens**, **FieldInfo**, **StructParser** and **Parser** are the parser as functions from a sequence of tokens and a
configuration to a configuration, or to failure: one operator for each parsing
function, with its checks and their order. **Resolver** is `linker_resolve()` and
the checks of `ort_parse_close()`, as functions of a configuration, in their three
passes; **Writer** is `ort_write_file()`, to the sequence of words. **Format** runs
them as `src/main.c` does (`ParseNextFile`, `Link`, `Write`), and once more on what
was written. `RoundTrip`: what ort writes it accepts and understands alike.
`ReturnsFlagged`: the flags by which the generators decide whether a structure needs
list and iterator code are those of the queries that return it.

**Fields** adds fields to a structure one property at a time, with the same
decisions (FieldInfo), for any number of fields and properties. `RowidSound`,
`ActionsSound`: whatever the order, what is accepted is a schema SQLite can have.

**Diff** (`src/diff.c`, `src/maindiff.c`, `src/writer-diff.c`) are pure
functions of two configurations. A configuration is a function from its parts,
tuples of a kind and the names parts of the kind are matched by, to their
attributes (`Configuration`, in Upgrade, says which parts and attributes there are); `Differences` is the queue `ort_diff()` fills, as a set, and
`Written` what is written of it. **SqlSchema** is the schema `ort-sql` makes of a
configuration, **SqlDiff** what `ort_lang_diff_sql()` refuses (`Refused`) and
writes (`Script`, sets of statements in the order of its loops), with SQLite's
side of each statement, external: what must be there, what rows may forbid, and
what the schema becomes.

**Upgrade** puts them to use over time: `Edit` changes, adds or deletes a part,
keeping what parser and linker accept; `SqlDiff` asks with or without `-d`;
`Execute` runs one statement, which may fail for the names in it or for the
rows, and ends the upgrade if it does; `Deploy` puts the new program in place;
`Fill` has the program insert rows. **Schemas** is the abstract promise: what is
compatible, and that a database goes from the schema of one configuration to that
of the next in one step. `ImplementsSchemas` maps the database, while a script
is executed, to the schema it started from, and afterwards to the columns
that the deployed configuration has: a column dropped with `-d` is only noted by a
comment and stays. `NamesExist`: no statement of any script names what is not
there. `NothingLost`: what is dropped, and when. `ExitExact`: `ort_diff()` finds
nothing exactly when there is nothing but an order that no one relies on.
`Reported`: what ort-diff writes of what it found.

## Runs

| Run | Module | Instance | Shows |
| --- | --- | --- | --- |
| `enum_items` | MCEnumItems | up to four items, a greatest integer of four | every way of mixing written and automatic values around both ends of the range |
| `role_runtime_c` | MCRoleRuntime | four named roles, three levels deep, two operations, all rolemaps over a sample of sets of roles | the C output decides as the audit, and implements AccessControl |
| `role_runtime_node` | MCRoleRuntime | the same | the nodejs output, for operations with a rolemap |
| `rolemaps` | MCRolemaps | up to four roles written in statements, over two operations and one that does not exist, two fields; the two roles and the two operations are symmetric | rolemaps after linking |
| `linker` | MCLinker | all graphs of three structures with two struct fields each, acyclic ones of four in two orders, up to three unique statements; two letters, so at most eight aliases | the passes of the linker |
| `queries` | MCQueries | up to three terms, over 27 tables of up to three rows, null and wrong arguments, three outputs | the four query functions |
| `iterate_binding` | MCQueries | the same | violation |
| `fields` | MCFields | two fields of all 14 types, three properties at most over both | what a structure may declare |
| `format` | MCFormat | 6000 sources: each construct with all others it can meet in a statement, two statements that affect each other, two or three files | parser, linker and writer agree |
| `modify` | MCModify | two schemas with references that may and may not be null, nested two deep; two calls, any transactions, crashes and changes by others between them | the generated functions implement Records, in three outputs |
| `audit` | MCAudit | all roles of a tree with two levels and a sibling; three structures, two fields of one embedding the next; a query with distinct and a count among four; grants and noexports at, above and beneath, structures hidden in part among them | the report against what is called and printed |
| `upgrade` | MCUpgrade | three configurations, two edits out of some sixty (any part deleted; columns of every kind, enumerations, a bitfield, queries, roles added or changed; a structure, an enumeration and a bitfield with their contents), two upgrades at most | differences, scripts and the databases they lead to |

Why the bounds are enough: an enumeration has an overflow only at the ends of
the range, and a greatest integer of four has them within reach of four items. A tree of three
levels has ancestors, siblings, descendants, and grants above, at and beneath a
role. Errors in merging rolemaps need two statements that share a target and a
role, and one more for `all`. Circles that do not contain the structure a walk
starts from need two structures, one whose targets meet again needs four. A term
is bound wrongly because of a hashed or unary term in front of it, with a third
to see it pass on; groups, order and limit need two rows in a group and one
outside. With two letters the limit on aliases is within reach of three
structures, as are aliases of one, two and three letters. The byte zero in an alias
is not: `AliasesDistinct` is about the aliases in front of it. Two edits are two
changes that meet in one script, or one script after another on the same
database; statements of a script only meet in a table, an index or a reference.
(With three edits, `upgrade` takes four minutes and finds as little.) A password or a
null in front of another argument shifts whatever is counted wrongly, so the
schemas of `modify` have two passwords, fields that may be null and unary
constraints in front of others, and objects in front of and behind columns; a call
depends on the one before it only through the tables and the transaction, so
two calls with a transaction around or between them are enough. The audit decides
field by field and path by path: two paths to a structure of which one is hidden,
and one more embedded beneath it, are all it can combine. Properties of a
field meet in pairs, and `fields` has three; a statement of the language meets the
fields, queries and roles it names, which `format` has in front of it and behind.
What needs more fields or more properties is covered by the proof.

`CHECK_DEADLOCK FALSE` is in all configurations, as parsing, linking, writing
and a query end, a program may have been ended by a refusal, an upgrade by a
statement that failed, and `modify` by its bound on calls.

Fairness: only `Linker` has any, `WF_vars(Next)`: one thread runs the passes in
order and waits for nothing, so a step that can be taken is. All other
specifications are for safety.

## Proofs

Eight modules hold proofs, checked by TLAPS for every value of the constants.

*Declarations_proofs*, about EnumItems: `TypeCorrect`, `AcceptedUnique`, `AcceptedAscending` and
`PassesAgree`, for every set of names and written values and every width of
integer. The properties are not inductive, as they say nothing of the time
before the values are assigned: the invariant adds that written values are
distinct while parsing, that no written value is extreme, and how far the
assignment of automatic values has got in each of the two passes.

*RoleTree_proofs*: on any tree of roles, walking down from the granted roles and
walking up from the current one agree (`CasesAreAudited`), and so do the edges
and grants given to sqlbox (`BoxIsAudited`). Walks are least sets closed under
the parent relation, so no induction over the depth is needed: both inclusions
follow by exhibiting a closed set. The assumptions are those of the parser: the
reserved roles have no parents, and every named role is under `all`.

*RoleRuntime_proofs*: type correctness and `ExportGranted` with every back end;
for the C output `BoxAgrees`, `ExecutedGranted`, `DeniedUngranted`,
`AncestorsOnly`, `AncestorsAccepted` (*AscentGranted*) and the refinement of
`AccessControl`; for the others `MappedGranted` (*MappedOnly*). The invariant
relates the history to the grants: what is in `executed`, `denied` or `exported`
was decided in a role that was current then. `AncestorsAccepted` needs that a
refusal has ended the program, so that the current role is still the one it was
refused in. The refinement needs that granted operations shrink on the way to an
ancestor, which is `BoxIsAudited` and the transitivity of the walk up.

*Declarations_proofs*, about Rolemaps: `NeverAborts` (*AssertionsHold*), `OperationsExact`
(*OperationsGranted*) and `NoexportKept` (*NoexportHonoured*), for any number of
statements in any order. Rolemaps are shared
by pointer, so the invariant says who holds what: each target has one rolemap
with at least the roles written for it; what is held is a rolemap the queue is
past, named after its holder, or after "noexport" or "all"; and a field holds the
first one that hides it. Passing each rolemap once, the queue then never finds
the place taken, and the roles of "all", added last, go to rolemaps of operations
only, which no field holds. That an operation is granted to no other roles than
those written for it or for "all" needs the same: a rolemap of an operation has
exactly the roles written, until "all" is added to it, as nothing a field holds
is one of those. For the second half of `NoexportKept`: a rolemap never loses a role, and the one for
all fields has a first role, which every field is given or has.

*Declarations_proofs*, about Fields: `OneRowid` and `ActionsPossible`, for every set
of names, references and properties, and for any number of fields. Neither is inductive: the property
of an action is decided only when the field is finished, and a flag may be given
before or after the one it excludes. The invariant says of the field being
declared what each flag excludes in the presence of the others, that a rowid is
recorded under the name of its field, and that names are distinct.

*Audit_proofs*: `MarkedIfAny` (*MarkExact*), `AllReported` (*ReportComplete*) and
`ExportsExact` (*ReportExact*), for every configuration the linker can leave and every role. The entries are
an invariant of their own: an entry never forgets a path, and each adds its mark.
For what is reported the invariant is that of a search: each path in it leads, field
after field, from what a query returns to the structure of the entry, and is
exported if nothing on it is hidden (`Sound`); each struct field of a structure
that was reached has been followed or is still to be visited by some call
(`Closed`); and each structure and query passed has been looked at (`Passes`). When
nothing is left, a path that is printed has been followed, by counting along it. Roles
come in through `RoleTree_proofs`: the program walks down where the audit walks up.

*Queries_proofs*: `BoundUnlessIterated` (*BindingRight*), `ReturnedMatch`
(*ReturnedRight*), `MatchesAnswered` (*MatchesReturned*) and `GroupsBest`
(*GroupsRight*), for every query, table, argument and output. The generators count
arguments and places as they go, where the statement counts its question marks by
itself: the invariant says that term by term the two counts are those of the terms
passed (`Binding`), so that each element of the array is the argument of its own term
or, in the iterators of C behind a hashed password, that of another one. If
nothing was left unbound the statement selects the rows that satisfy the terms it
has. `Answered` then says that the rows returned and those left are, in the order
asked for, a window of the selected ones without those whose password was wrong:
no row twice (`Ready`), as many as limit and offset leave and none with too many in
front of it (`Windowed`), for lists (`Listed`) and for the one row of a search
(`SearchOne`), which is where the uniqueness of the fields is needed.

*Linker_proofs*: `CirclesRefused` (*RecursiveRefused*), `ChainsComplete`
(*AliasesComplete*), `WalksCounted` (*WalksBounded*), `AliasesDistinct` (*AliasesApart*), `UniqueNormal`
(*UniquesNormal*), `TreesSorted` (*EmbeddedInFront*) and `MarkedExactly`
(*NullrefsMarked*), for any number of structures, fields and statements. Each part
has an invariant, and `LinkInv` adds in which order they are established.
`AliasInv`: each chain with an alias continues another, none comes back to its
structure, and one that has no alias yet is behind a field that a call has still
to visit; aliases are those of increasing numbers. With no call left every chain has
one. The ends of the chains of a structure are then what it contains (`Below`), so
no structure contains itself, and each contains fewer structures than one it is
embedded in (`Descent`), which is the induction all further parts rest on.
`UniqueInv`: statements in front of the one compared are those written, in
order; and they differ from the first of their size (`PassedDiffer`). `WalksCounted`
is proved and needs no run. `OrderInv`, for structures embedded once: what a walk has reached is below
its root, and so is everything that embeds it (`FromRoot`); a structure is higher than
the one that embeds it (`Lifted`), or will be when the call it waits for gets to it
(`ToLift`). `MarkInv`: those marked are those with a null below, as the recursive
function that looks for one exists, is unique, and is the set below.
`AliasesDistinct` is stated, and proved, for at most 159 aliases per letter, over all
structures: from there on a letter is the byte zero, and chains do share an alias
(see "Findings"). The instance TLC checks is always within that.

*Upgrade_proofs*: `NamesExist` (*NamesAreThere*), `NothingLost` (*LossIsAsked*),
`ImplementsSchemas` (*ScriptsAreRight*), `Reported` (*DifferencesAreWritten*) and
`ExitExact` (*ExitStatusIsExact*), for any configurations, edits of them and
databases, and any number of upgrades. What is assumed of a configuration is what
parser and linker make sure of: `BasesAssumption` and `OptionsAssumption` say that
the first one is accepted and that what is written is parsed; that an edited one is
still accepted is a guard of `Edit`. None of the properties is inductive, as a
script has been written long before its last statement is executed. The invariant
says where the database is. Between upgrades it is `Settled`: it has the tables and
indexes of the deployed configuration, and its columns, but for some that were
dropped with `-d`. While a script is executed it is `Halfway`: a statement is left in
the script if and only if the database still differs from the wanted
configuration in what the statement makes or drops, kind by kind (`TablesFit`,
`ColumnsFit`, `IndexesFit`). So a statement that is next finds
what it names, as what it relies on comes from statements in front of it; executing it
keeps the equivalence; and when none is left the database is settled. That a
script starts this way is where the two descriptions of a change meet, the
differences `ort_diff()` queues and the schemas made of the two configurations.
`ExitExact` and `Reported` hold of any two accepted configurations, whatever the
database is; the first needs that each way in which two parts may differ is
found by one of the comparisons of `diff.c`.

*Modify_proofs*: `PasswordsHashed` (*PasswordsAreHashed*) and `ExcludedInC`
(*OthersAreExcludedInC*), that all tables keep their types (*TablesKeepTypes*), and that
Modify implements Records (`ImplementsRecords`, *RecordsAreImplemented*), for every configuration the linker accepts, all arguments, and every output. Each output has
a counting argument of its own, by induction over the slots: after so many steps the
parameters bound so far are those of the first slots, and the hashes made are those
of the passwords among them (`BindCRight`, `BindNodeRight`, `BindRustRight`). All three
so bind the argument of a slot, or its hash (`BoundIs`), from where on the output does
not matter. That a statement numbers its question marks as the arguments are
numbered gives the row an insert adds (`InsertedIs`) and what an update makes of one
(`SetIs`): of two modifiers of a field the last one counts. The invariant of the tables is
that of types; it is inductive, as a row that an insert adds has the types of its
fields, with a hash for a password. For transactions the invariant is that an open
one of C in the mode immediate or exclusive has a lock.

The refinement takes three invariants: the types, the one of transactions, and
`SoundInv`, that neither the file nor what the program sees of it ever violates a
constraint, and that a program that is not running has no transaction open. Every step
is then one of Records, an action at a time: the row an insert adds (`NewRowIs`), the one
an update makes (`ChangedRowIs`), the rows that meet the constraints (`MeetsIs`), a
failure, the end of the program. The longest argument is that for an object. What
is joined is never null and what is not null is there (`KeyIs`), by the types and by `SoundInv`.
So a result is the columns of its structure and then the results of the
structures joined to it (`SqlParts`), and from whatever position such values are found in a result,
filling in from there gives the object they belong to, and goes on
behind them: in C field by field (`FillCIs`), in nodejs and Rust by offsets (`FillAtIs`),
and for the objects within one after the other (`FillStep`). What is filled in is
the object but for the references that may be null (`Flat`, `FilledIs`), and where
`STRCT_HAS_NULLREFS` says that there are none it is the object (`FlatWhole`). Otherwise
`db_xxx_reffind()` is at the object that belongs to a row when it starts,
and so it is wherever it descends (`RefStep`), so that it asks for the right rows
(`GotIs`). All of this goes by structures within structures (`ByNesting`), which end as
`SchemasAssumption` says that none contains itself, the linker's check for recursion.
That the recursive functions of both modules exist at all has to be proved for each,
as the prover takes a recursive definition for a choice.

Only model-checked: `RoundTrip` and `ReturnsFlagged` of `Format`, as the parser and the
writer use recursive operators, which are out of the prover's reach, as is what they
compute for every input; and `Linker`'s `Ends`, a liveness property, which the
prover has no means for.

## Findings

Where the source disagrees with its own documentation or comments, a run with
`expect: violation` shows it:

- `iterate_binding`: a term behind a hashed password is bound from the wrong
  argument, past the parameters (`lang-c-source.c:530`, comment at 363).

Known divergences without a run of their own, met while modelling (properties
that they would violate are stated with the exception):

- A search granted to the default role ends the program on a row with a
  reference to follow (`lang-c-source.c:819`), against `man/ort.5:723-729`;
  `DeniedUngranted` excepts such operations.
- Of two noexport statements for a field that share a role, the roles behind the
  shared one are lost (`linker_resolve.c:563`), against the comment at 540;
  `NoexportKept` speaks of the first statement and of one role of one for all fields.
  The audit looks at the rolemap of the structure, which has all the roles
  (`audit.c:181-187`), and the program at the field's (`lang-c-source.c:2143-2158`). So
  with `roles a { noexport secret; }; roles a, b { noexport; };` the program prints `secret`
  in the role `b`, where the audit has nothing of the structure as exported
  (`man/ort_audit.3:131-133`); `ExportsExact` excepts structures hidden in part.
- A structure embedded through two paths may be sorted after one that embeds it
  by value (`linker.c:100`), against the comment at 558; `TreesSorted` speaks of
  structures embedded once.
- ort-diff does not write deleted roles, and writes deleted items of enumerations
  among the roles (`writer-diff.c:987`), against `man/ort-diff.1:54`; `Reported`
  excepts them.
- The default of a date is written as a number, which the parser does not accept
  (`writer.c:245`), against `man/ort.1`, "the configuration is reproduced";
  `RoundTrip` excepts it. Writing a limit of a bitfield ends ort by an assertion
  (`writer.c:279`); reals are written with six digits (`writer.c:256`).
- All transactions of the nodejs output are deferred: it executes `BEGIN TRANSACTION
  IMMEDIATE`, where SQLite has the mode in front of `TRANSACTION`
  (`lang-nodejs.c:2156`, `man/ort-nodejs.1:160`); `ExcludedInC` is about the C
  output only.
- The audit decides by the noexport of the structure a query is written in whether
  the objects of its distinct, of another structure, are exported (`audit.c:225`,
  `man/ort_audit.3:133`); `ExportsExact` excepts such a query. It has password
  fields as exported, which no generator prints (`audit.c:78`), and structures as
  reachable by queries that only count (`audit.c:227`). Without `-r` ort-audit
  audits the default role (`mainaudit.c:192`), against `man/ort-audit.1:43-46`.
- A file that ends within a statement may be accepted (`parser.c:418`).
- In the nodejs output, an update that violates the primary key throws instead of
  returning false, as it does for other constraints (`lang-nodejs.c:828`).
- Following a reference that may be null binds an integer, even if it is to a
  unique field of another type (`lang-c-source.c:1715`).
- `db_role(ROLE_none)` aborts from a named role (`lang-c-source.c:1112`), which
  `man/ort-c-header.1:387-392` allows; in the nodejs and rust output `db_role()`
  descends (`lang-nodejs.c:1996`), which `man/ort-nodejs.1:135-136` forbids.
- In the nodejs and rust output an operation without rolemap is open to every
  role (`lang-nodejs.c:178`, `lang-rust.c:161`), against the default-deny of
  `man/ort.5:1041-1046`; `MappedGranted` says this much and no more.
- A grant to `all` does not reach the default role (`lang-c-source.c:781`),
  against `man/ort.5:723-724`.
- A noexport for one field, after one for all, hides its role from every field,
  as they share the rolemap (`linker_resolve.c:551`).
- From the 677th alias on the second character of an alias is not a letter, as it
  is not reduced by 26; from the 4135th on it is the byte zero for 26 aliases in
  turn, so that chains share an alias (`linker_aliases.c:88`).
  `AliasesDistinct` is about those in front.
- Of three unique statements of a size, the last two may be the same
  (`linker.c:396`, `break` for `continue`), against `man/ort.5:833-834`;
  `UniqueNormal` speaks of the first of a size.
- A search drops its offset, and a count with one ends the program; an offset
  without a limit is no SQL (`lang.c:795-800`).
- Rows of a group that tie are all returned, where `man/ort.5:583-586` has one
  (`lang.c:691`); a search with two hashed passwords crashes if the first is
  wrong (`lang-c-source.c:1398`).
- `ort_lang_diff_sql()` returns -1 when writing fails, where its comment has zero
  (`lang-sql.c:528`), and ort-sqldiff ends with success (`sqldiff.c:172`).
- Some scripts can never be executed: a rowid added to a structure, a reference
  with a default added to a table with rows (`lang-sql.c:279`).

## What is not modelled

`PROJECT.json` lists every part with the reason. In short: characters to tokens,
indentation and escapes; output that keeps no state and that nothing in the
project reads back (headers, manual pages, JSON, JavaScript, XLIFF); allocation
failure; SQLite, sqlbox and the hash functions except as the generated code uses
them; distinct, and searches by way of struct fields, in `Queries`; actions of
foreign keys and references to other types than integers in `Modify`; how the
audit is printed, as columns and as JSON.

## Plan

In the order of importance; all of it is done.

1. EnumItems, with proofs.
2. RoleTree, AccessControl, RoleRuntime, with proofs.
3. Rolemaps, with proofs.
4. Linker = UniqueStatements + Aliases + StructOrder + marks.
5. Queries.
6. Diff, SqlSchema, SqlDiff, Upgrade, which implements Schemas.
7. Values, Records, Modify: insert, update, delete, reading and transactions, with
   crashes and another program.
8. Tokens to Parser, Resolver, Writer, and Format, which composes them.
9. Fields, with proofs.
10. Audit: the walk over structures and what it reports of a role, against what
    the program prints, with proofs.
11. Proofs about Queries, Linker and its parts, what Rolemaps grants, and what the
    audit reports.
12. Proofs about Upgrade: that a script names only what exists, for every pair of
    configurations, and the refinement of Schemas.
13. Proofs about Modify: binding in three outputs, tables, passwords, locks, and that
    Records is implemented.
