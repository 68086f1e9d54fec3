SPECIFICATION Spec
INVARIANT ConversionReportsDecodeErrors
