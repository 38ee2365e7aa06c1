--------------------------- MODULE MCSchemaUpgrade ---------------------------
EXTENDS SchemaUpgradeProps
=============================================================================
