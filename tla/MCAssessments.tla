---------------------------- MODULE MCAssessments ----------------------------
(* Editions: two facts and their conjunction, once with one source less for    *)
(* the second; a domain; a chain of conjunctions; one that cannot be observed;  *)
(* one with input descriptions.                                                *)
EXTENDS Assessments

From(s)          == [form |-> "sources", of |-> s, empties |-> {}]
DomainOf(s, e)   == [form |-> "domain", of |-> {s}, empties |-> e]
AllOf(s)         == [form |-> "all_of", of |-> s, empties |-> {}]
Flag(f)          == << [id |-> "flag", decision |-> "deny", on |-> {f}] >>
EntryOf(evidence, kind, rules, described) ==
  << [action |-> "inspect", fields |-> [f \in DOMAIN evidence |-> kind], rules |-> rules,
      decision |-> "allow", evidence |-> evidence, described |-> described,
      guarded |-> FALSE, grants |-> << >>] >>

Both(s, t, of) == [a |-> From(s), b |-> From(t), both |-> AllOf(of)]
MCDefinitions ==
  { EntryOf(Both({"note"}, {"note", "to"}, {"a", "b"}), "boolean", Flag("both"), FALSE),
    EntryOf(Both({"note"}, {"note"}, {"a", "b"}), "boolean", Flag("both"), FALSE),
    EntryOf(Both({"note"}, {"note"}, {"a", "both"}), "boolean", Flag("both"), FALSE),
    EntryOf([host |-> DomainOf("to", {"cc"})], "string", Flag("host"), FALSE) }
  \cup {[EntryOf([a |-> From({"note"})], "boolean", Flag("a"), FALSE) EXCEPT ![1].guarded = TRUE],
        EntryOf([a |-> From({"note"})], "boolean", Flag("a"), TRUE)}

MCContents ==
  { [note |-> "text"], [note |-> "text", to |-> "mailbox"],
    [note |-> "text", to |-> "mailbox", cc |-> ""], [to |-> "text", cc |-> ""],
    [note |-> "text", to |-> "mailbox", cc |-> "mailbox"] }
=============================================================================
