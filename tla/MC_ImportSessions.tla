------------------------- MODULE MC_ImportSessions -------------------------
EXTENDS ImportSessions

Entry(id, class, size) == [identity |-> id, path |-> "plain", class |-> class,
                           size |-> size, link |-> FALSE, dense |-> FALSE]

\* Two files that fit one by one but not together, one that is skipped, one refused.
MCFiles == {Entry("a", "source", 1), Entry("b", "source", 2),
            Entry("key", "secret", 0), [Entry("up", "source", 0) EXCEPT !.path = "unsafe"]}

Address(host, parts) == [https |-> TRUE, githubHost |-> host, credentials |-> FALSE,
                         port |-> FALSE, query |-> FALSE, parts |-> parts, namesMatch |-> TRUE]
MCUrls == {Address(TRUE, 2), Address(TRUE, 1), Address(FALSE, 2)}
MCRefs == {None, [token |-> TRUE], [token |-> FALSE]}

=============================================================================
