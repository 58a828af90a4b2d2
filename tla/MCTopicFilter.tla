--------------------------- MODULE MCTopicFilter ---------------------------
EXTENDS TopicFilter

Names == {<<"a">>, <<"b">>, <<"a", "b">>}

\* Two levels that are not legal, with a wildcard next to a name.
MCFilterLevels ==
    Names \cup {AnyLevel, AllLevels, <<"+", "a">>, <<"#", "a">>}

\* A topic such as "/a" has an empty level.
NamesOrEmpty == Names \cup {<<>>}

============================================================================
