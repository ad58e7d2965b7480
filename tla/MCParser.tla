------------------------------ MODULE MCParser ------------------------------
(***************************************************************************)
(* Sources for the parser: between them they use every construct of the    *)
(* language, correctly or not.  The correct ones are also parsed with one  *)
(* token missing, cut off or replaced, and every short sequence of tokens  *)
(* is parsed as a statement.                                               *)
(***************************************************************************)
EXTENDS StatementGrammar

Header ==
    <<"pragma", "soliditypp", "version", ";", "import", "str", "as", "id", ";", "import", "{",
      "id", "as", "id", ",", "id", "}", "from", "str", ";", "import", "*", "as", "id", "from",
      "str", ";">>

FileLevel ==
    <<"uint", "constant", "id", "=", "num", ";", "struct", "id", "{", "uint", "id", ";", "id",
      ".", "id", "[", "]", "id", ";", "}", "enum", "id", "{", "id", ",", "id", "}",
      "function", "id", "(", ")", ";">>

Parts ==
    <<"abstract", "contract", "id", "is", "id", ",", "id", ".", "id", "(", "num", ")", "{",
      "using", "id", "for", "*", ";", "using", "id", "for", "uint", ";", "event", "id", "(",
      "uint", "indexed", "id", ",", "id", ")", "anonymous", ";", "mapping", "(", "id", "=>",
      "uint", ")", "public", "override", "(", "id", ",", "id", ")", "id", ";", "function",
      "(", "uint", ")", "external", "public", "id", ";", "constructor", "(", ")", "{", "}",
      "}">>

Modifiers ==
    <<"contract", "id", "{", "modifier", "id", "(", "uint", "id", ")", "virtual", "override",
      "{", "_", ";", "id", ".", "id", "(", "num", ")", ";", "_", ";", "}", "function", "id",
      "(", ")", "{", "_", "=", "num", ";", "}", "}">>

Function ==
    <<"contract", "id", "{", "function", "id", "(", "uint", ",", "id", "memory", "id", ")",
      "public", "view", "virtual", "override", "id", "(", "num", ")", "returns", "(",
      "address", "payable", ")", "{", "return", "await", "id", ".", "id", "{", "id", ":",
      "num", "}", "(", "id", ")", ";", "}", "receive", "(", ")", "payable", "{", "}", "}">>

Control ==
    <<"function", "id", "(", ")", "{", "if", "(", "id", ")", "break", ";", "else", "{",
      "continue", ";", "}", "while", "(", "id", ")", "id", "++", ";", "do", "throw", ";",
      "while", "(", "id", ")", ";", "for", "(", "uint", "id", "=", "num", ";", "id", "<",
      "num", ";", "++", "id", ")", "{", "}", "}">>

Loops ==
    <<"function", "id", "(", ")", "{", "for", "(", ";", ";", ")", "{", "unchecked", "{",
      "return", ";", "}", "}", "{", "id", ";", "}", "}">>

Tries ==
    <<"function", "id", "(", ")", "{", "try", "id", ".", "id", "(", ")", "returns", "(",
      "uint", "id", ")", "{", "}", "catch", "id", "(", ")", "{", "}", "catch", "(", "id",
      "memory", ")", "{", "}", "catch", "{", "}", "assembly", "yulblock", "assembly",
      "evmasm", "yulblock", "emit", "id", ".", "id", "(", "{", "id", ":", "num", ",", "id",
      ":", "id", "}", ")", ";", "}">>

Operators ==
    <<"function", "id", "(", ")", "{", "id", "=", "id", "**", "num", "**", "id", "-", "num",
      "*", "id", "+", "id", "==", "num", "?", "-", "id", ":", "id", "&&", "id", ";", "id",
      "+=", "id", "<", "num", "||", "!", "id", "|", "id", "^", "id", "&", "id", ">>", "num",
      ";", "}">>

Primaries ==
    <<"function", "id", "(", ")", "{", "id", "=", "[", "num", "days", ",", "str", "str", ",",
      "true", "]", ";", "(", "id", ",", ",", "id", ")", "=", "(", "(", "id", ")", ",", ",",
      ")", ";", "(", ",", "uint", "id", ",", ")", "=", "new", "uint", "[", "]", "(", "num",
      ")", ";", "id", "[", ":", "num", "]", ".", "id", "[", "num", ":", "]", "[", "id", ":",
      "id", "]", ";", "payable", "(", "id", ")", ".", "address", ";", "type", "(", "id", ")",
      ";", "hexstr", ";", "uint", "[", "num", "]", "[", "]", "memory", "id", ";", "id", ".",
      "id", "[", "]", "storage", "id", "=", "id", ";", "}">>

Twice ==
    <<"contract", "id", "{", "uint", "public", "private", "id", ";", "function", "id", "(",
      ")", "public", "external", "view", "pure", "override", "override", "virtual", "virtual",
      ";", "modifier", "id", "override", "override", "virtual", "virtual", ";", "uint",
      "constant", "immutable", "override", "override", "id", ";", "}">>

Refused ==
    <<"enum", "id", "{", "}", "contract", "id", "{", "function", "constructor", "(", ")", "{",
      "unchecked", "{", "}", "}", "function", "(", ")", "{", "}", "}">>

Refused2 ==
    <<"function", "id", "(", "uint", "memory", "storage", "id", ",", ")", "{", "if", "(",
      "id", ")", "unchecked", "{", "}", "}">>

Refused3 ==
    <<"function", "id", "(", ")", "{", "id", "[", ":", "]", "id", ";", "id", "(", "{", "id",
      ":", "num", ",", "}", ")", ";", "[", ",", "id", "]", ";", "uint", "payable", "id", ";",
      "str", "illegal", ";", "}">>

\* Documentation comments where they are allowed and where they are not.
Docstrings ==
    <<"docid", "constant", "id", ";", "struct", "id", "{", "docid", "id", ";", "}", "function",
      "id", "(", "docid", "id", ")", "{", "docid", "id", ";", "id", "[", "num", "]", "docid",
      ";", "}">>

Refused4 ==
    <<"pragma", "illegal", "id", ";", "pragma", "solidity", ";", "import", "emptystr", ";">>

Pragma ==
    <<"pragma", ";", "pragma", "soliditypp", "otherversion", ";", "abstract", "id", "{",
      "modifier", "id", "{", "_", ";">>

Override ==
    <<"contract", "id", "{", "function", "id", "(", ")", "override", "(">>

Stray ==
    <<"function", "id", "(", ")", "{", "id", "id", "id", ";", "id", "=", ";", "id", "(", ";",
      "}", "contract", "id", "{", "}", "}", "function">>

Correct == {Header, FileLevel, Parts, Modifiers, Function, Control, Loops, Tries, Operators, Primaries}
Incorrect == {Twice, Refused, Refused2, Refused3, Refused4, Docstrings, Pragma, Override, Stray}

Without(s, i) == SubSeq(s, 1, i - 1) \o SubSeq(s, i + 1, Len(s))
Replacements == {"}", ";"}
Edits(s) ==
    {Without(s, i) : i \in DOMAIN s}
    \cup {SubSeq(s, 1, i) : i \in DOMAIN s}
    \cup {[s EXCEPT ![i] = t] : i \in DOMAIN s, t \in Replacements}

\* Statements of up to MaxLength tokens, and longer ones.
MaxLength == 3
Sequences(n) == UNION {[1..k -> StatementTokens \ {"num"}] : k \in 1..n}
Longer ==
    {<<"id", ".", "id", "[", "num", "]", "memory", "id", "=", "num">>,
     <<"id", "[", "num", "]", ".", "id", "(", "id", ",", "uint", ")">>,
     <<"(", ",", "id", ".", "id", "[", "]", "id", ",", ")", "=", "id">>,
     <<"(", "id", "[", "num", "]", ",", ",", "id", ")", ".", "id", "=", "-", "id">>}

MCSeveralLicenses == {FileLevel, Function}

MCCompilations ==
    {<<s>> : s \in Correct \cup Incorrect \cup UNION {Edits(s) : s \in Correct}}
    \cup {<<s, t>> : s \in Incorrect, t \in {Function, Modifiers}}
    \cup {<<InFunction(s)>> : s \in Sequences(MaxLength) \cup UNION {Edits(s) : s \in Longer}}
=============================================================================
