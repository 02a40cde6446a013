----------------------------- MODULE MCCliTools -----------------------------
EXTENDS CliTools

MCTools == DOMAIN FilesOf
=============================================================================
