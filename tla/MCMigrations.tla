---------------------------- MODULE MCMigrations ----------------------------
EXTENDS Migrations, SchemaHistory

CONSTANTS web, timer

=============================================================================
