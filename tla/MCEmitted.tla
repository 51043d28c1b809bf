----------------------------- MODULE MCEmitted -----------------------------
EXTENDS EmittedParser, MCParserRun

AllLanguages == {"cc", "rust", "awk", "js", "php"}
=============================================================================
